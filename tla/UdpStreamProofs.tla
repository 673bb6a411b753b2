--------------------------- MODULE UdpStreamProofs ---------------------------
(***************************************************************************)
(* Theorems about UdpStream, for every number of attempts, hellos and      *)
(* packets.  StreamInv holds over any network; OrderlyInv over one that    *)
(* may lose and reorder packets but neither delays nor duplicates them.    *)
(***************************************************************************)
EXTENDS UdpStream, FiniteSetTheorems, WellFoundedInduction, TLAPS

USE CountsAssumption, NetworkAssumption
USE DEF Phases, Final, ToBeacon, ToClient, client, beacon, network

Messages == [type : ToBeacon \union ToClient, nonce : 1..try, k : Nat]

-----------------------------------------------------------------------------
(* StreamInv. *)

LEMMA InitStreamInv == Init => StreamInv
<1> SUFFICES ASSUME Init PROVE StreamInv
  OBVIOUS
<1>1. TypeOK
  <2>1. 0 \in 0..MaxAttempts - 1 /\ 0 \in 0..2 * MaxAttempts /\ 0 \in 0..Hellos
    OBVIOUS
  <2>2. 0 \in 0..MaxLoss /\ 0 \in 0..MaxDup
    OBVIOUS
  <2> QED
    BY <2>1, <2>2 DEF Init, TypeOK
<1>2. TryBudget
  BY DEF Init, TryBudget
<1>3. FromStarted /\ MeasuredIsOurs
  BY DEF Init, FromStarted, MeasuredIsOurs
<1> QED
  BY <1>1, <1>2, <1>3 DEF StreamInv

(* What is in flight after a delivery was in flight, or is an answer.      *)
LEMMA TakesSafe ==
  ASSUME TypeOK, NEW m \in net, NEW A, Takes(m, A)
  PROVE  net' \subseteq net \union A /\ dups' \in 0..MaxDup
  BY DEF Takes, TypeOK

LEMMA DialKeeps == ASSUME StreamInv, Dial PROVE StreamInv'
<1>1. TypeOK'
  <2>1. Packet("H", try', 1) \in [type : ToBeacon \union ToClient, nonce : 1..try', k : Nat]
    BY DEF StreamInv, TypeOK, Dial, Packet
  <2>2. try' \in 0..2 * MaxAttempts
    <3>1. try <= 2 * attempt + 1
      BY DEF StreamInv, TypeOK, TryBudget, Dial
    <3> QED
      BY <3>1 DEF StreamInv, TypeOK, Dial
  <2>3. 1..try \subseteq 1..try'
    BY DEF StreamInv, TypeOK, Dial
  <2> QED
    BY <2>1, <2>2, <2>3 DEF StreamInv, TypeOK, Dial
<1>2. TryBudget'
  BY DEF StreamInv, TypeOK, TryBudget, Dial
<1>3. FromStarted'
  BY DEF StreamInv, FromStarted, Dial, Packet
<1>4. MeasuredIsOurs'
  BY DEF MeasuredIsOurs, Dial
<1> QED
  BY <1>1, <1>2, <1>3, <1>4 DEF StreamInv

LEMMA ResendHelloKeeps == ASSUME StreamInv, ResendHello PROVE StreamInv'
<1>1. Packet("H", try, hellos') \in Messages
  BY DEF StreamInv, TypeOK, TryBudget, ResendHello, Packet, Messages
<1>2. TypeOK'
  BY <1>1 DEF StreamInv, TypeOK, ResendHello, Messages
<1>3. TryBudget' /\ MeasuredIsOurs'
  BY DEF StreamInv, TryBudget, MeasuredIsOurs, ResendHello
<1>4. FromStarted'
  BY DEF StreamInv, FromStarted, ResendHello, Packet
<1> QED
  BY <1>2, <1>3, <1>4 DEF StreamInv

(* A deadline, a cancellation or an error: nothing moves on the network.   *)
LEMMA TimersKeep ==
  ASSUME StreamInv,
         NoCookie \/ StreamOver \/ RetryAfter \/ DialFailed \/ Unreachable \/ Cancel
  PROVE  StreamInv'
<1>1. CASE NoCookie \/ DialFailed \/ Unreachable \/ Cancel
  <2>1. phase' \in Final /\ UNCHANGED <<attempt, again, try, hellos, got, total, net,
                                       beacon, network>>
    BY <1>1 DEF NoCookie, DialFailed, Unreachable, Cancel
  <2> QED
    BY <2>1 DEF StreamInv, TypeOK, TryBudget, FromStarted, MeasuredIsOurs
<1>2. CASE StreamOver
  <2>1. UNCHANGED <<attempt, try, hellos, got, total, net, beacon, network>>
    BY <1>2 DEF StreamOver
  <2>2. TypeOK'
    BY <1>2, <2>1 DEF StreamInv, TypeOK, StreamOver
  <2>3. TryBudget'
    BY <1>2, <2>1 DEF StreamInv, TypeOK, TryBudget, StreamOver
  <2>4. FromStarted'
    BY <2>1 DEF StreamInv, FromStarted
  <2>5. MeasuredIsOurs'
    BY <1>2, <2>1 DEF StreamInv, MeasuredIsOurs, StreamOver
  <2> QED
    BY <2>2, <2>3, <2>4, <2>5 DEF StreamInv
<1>3. CASE RetryAfter
  <2>1. TypeOK' /\ FromStarted' /\ MeasuredIsOurs'
    BY <1>3 DEF StreamInv, TypeOK, FromStarted, MeasuredIsOurs, RetryAfter
  <2>2. TryBudget'
    BY <1>3 DEF StreamInv, TypeOK, TryBudget, RetryAfter
  <2> QED
    BY <2>1, <2>2 DEF StreamInv
<1> QED
  BY <1>1, <1>2, <1>3

LEMMA BusyType ==
  ASSUME TypeOK, TryBudget, phase \in {"hello", "stream", "late"}, Busy, try' = try
  PROVE  phase' \in {"busy", "wait"} /\ attempt' \in 0..MaxAttempts - 1
           /\ again' \in BOOLEAN /\ TryBudget'
<1>1. CASE attempt = MaxAttempts - 1
  BY <1>1 DEF Busy, TypeOK, TryBudget
<1>2. CASE attempt # MaxAttempts - 1
  <2>1. try <= 2 * attempt + 2
    BY DEF TypeOK, TryBudget
  <2>2. phase' = "wait" /\ attempt' = attempt + 1 /\ again' = FALSE
    BY <1>2 DEF Busy
  <2>3. attempt' \in 0..MaxAttempts - 1 /\ try' <= 2 * attempt'
    BY <1>2, <2>1, <2>2 DEF TypeOK
  <2>4. TryBudget'
    BY <2>2, <2>3 DEF TryBudget
  <2> QED
    BY <2>2, <2>3, <2>4
<1> QED
  BY <1>1, <1>2

(* What a packet does to the client itself.                                *)
LEMMA ReceiveClient ==
  ASSUME StreamInv, NEW m \in net, Receive(m)
  PROVE  /\ phase' \in Phases /\ attempt' \in 0..MaxAttempts - 1 /\ again' \in BOOLEAN
         /\ got' \subseteq 0..Packets - 1 /\ total' \in {0, Packets}
         /\ TryBudget' /\ MeasuredIsOurs'
<1>1. UNCHANGED <<try, started>>
  BY DEF Receive
<1>2. CASE phase = "hello"
  <2>1. UNCHANGED <<got, total>> /\ HelloReply(m)
    BY <1>2 DEF Receive, StreamPacket
  <2>2. phase' # "late"
    BY <1>2, <2>1 DEF HelloReply, Busy
  <2>3. MeasuredIsOurs'
    BY <1>1, <2>1, <2>2 DEF StreamInv, MeasuredIsOurs
  <2>4. CASE m.type = "B" /\ Ours(m) /\ Busy
    BY <1>1, <1>2, <2>1, <2>3, <2>4, BusyType DEF StreamInv, TypeOK
  <2>5. CASE phase' \in {"stream", "unsupported", "hello"} /\ UNCHANGED <<attempt, again>>
    <3>1. TryBudget'
      BY <1>1, <1>2, <2>5 DEF StreamInv, TryBudget
    <3> QED
      BY <2>1, <2>3, <2>5, <3>1 DEF StreamInv, TypeOK
  <2> QED
    BY <1>2, <2>1, <2>4, <2>5 DEF HelloReply
<1>3. CASE phase \in {"stream", "late"}
  <2>1. StreamPacket(m)
    BY <1>3 DEF Receive
  <2>2. CASE m.type = "D" /\ Ours(m) /\ got' = got \union {m.k}
                /\ UNCHANGED <<phase, attempt, again, total>>
    <3>1. m.k \in 0..Packets - 1 /\ try \in started
      BY <2>2 DEF StreamInv, FromStarted, Ours
    <3>2. TryBudget' /\ MeasuredIsOurs'
      BY <1>1, <2>2, <3>1 DEF StreamInv, TryBudget, MeasuredIsOurs
    <3> QED
      BY <2>2, <3>1, <3>2 DEF StreamInv, TypeOK
  <2>3. CASE m.type = "E" /\ Ours(m) /\ phase = "stream" /\ phase' = "late" /\ total' = m.k
                /\ UNCHANGED <<attempt, again, got>>
    <3>1. m.k = Packets /\ try \in started
      BY <2>3 DEF StreamInv, FromStarted, Ours
    <3>2. TryBudget' /\ MeasuredIsOurs'
      BY <1>1, <2>3, <3>1 DEF StreamInv, TryBudget, MeasuredIsOurs
    <3> QED
      BY <2>3, <3>1, <3>2 DEF StreamInv, TypeOK
  <2>4. CASE Busy /\ UNCHANGED <<got, total>>
    <3>1. phase' \in {"busy", "wait"} /\ attempt' \in 0..MaxAttempts - 1
            /\ again' \in BOOLEAN /\ TryBudget'
      BY <1>1, <1>3, <2>4, BusyType DEF StreamInv
    <3>2. MeasuredIsOurs'
      BY <1>1, <2>4, <3>1 DEF StreamInv, MeasuredIsOurs
    <3> QED
      BY <2>4, <3>1, <3>2 DEF StreamInv, TypeOK
  <2>5. CASE UNCHANGED <<phase, attempt, again, got, total>>
    BY <1>1, <2>5 DEF StreamInv, TypeOK, TryBudget, MeasuredIsOurs
  <2> QED
    BY <2>1, <2>2, <2>3, <2>4, <2>5 DEF StreamPacket
<1>4. CASE phase \notin {"hello", "stream", "late"}
  <2>1. UNCHANGED <<phase, attempt, again, got, total>>
    BY <1>4 DEF Receive
  <2> QED
    BY <1>1, <2>1 DEF StreamInv, TypeOK, TryBudget, MeasuredIsOurs
<1> QED
  BY <1>2, <1>3, <1>4

LEMMA ReceiveKeeps == ASSUME StreamInv, NEW m \in net, Receive(m) PROVE StreamInv'
<1> DEFINE A == IF phase = "hello" /\ phase' = "stream" THEN {Packet("S", try, 0)} ELSE {}
<1>1. net' \subseteq net \union A /\ dups' \in 0..MaxDup
  BY TakesSafe DEF StreamInv, Receive
<1>2. UNCHANGED <<try, hellos, beacon, lost>>
  BY DEF Receive
<1>3. phase = "hello" => try \in 1..try
  <2>1. m.nonce \in 1..try
    BY DEF StreamInv, TypeOK
  <2> QED
    BY <2>1 DEF StreamInv, TypeOK
<1>4. A \subseteq Messages
  BY <1>3 DEF Packet, Messages
<1>5. TypeOK'
  BY <1>1, <1>2, <1>4, ReceiveClient DEF StreamInv, TypeOK, Messages
<1>6. FromStarted'
  BY <1>1, <1>2 DEF StreamInv, FromStarted, Packet
<1> QED
  BY <1>5, <1>6, ReceiveClient DEF StreamInv

(* The beacon's steps leave the client alone.                              *)
LEMMA BeaconKeeps ==
  ASSUME StreamInv, TypeOK', FromStarted', UNCHANGED client, started \subseteq started'
  PROVE  StreamInv'
  BY DEF StreamInv, TryBudget, MeasuredIsOurs

LEMMA AnswerHelloKeeps == ASSUME StreamInv, NEW m \in net, AnswerHello(m) PROVE StreamInv'
<1>1. PICK reply \in {"C", "B", "echo", "none"} :
        Takes(m, IF reply = "none" THEN {} ELSE {Packet(reply, m.nonce, m.k)})
  BY DEF AnswerHello, StreamInv, TypeOK
<1> DEFINE A == IF reply = "none" THEN {} ELSE {Packet(reply, m.nonce, m.k)}
<1>2. net' \subseteq net \union A /\ dups' \in 0..MaxDup
  BY <1>1, TakesSafe DEF StreamInv
<1>3. UNCHANGED <<client, beacon, lost>>
  BY DEF AnswerHello
<1>4. A \subseteq Messages
  BY DEF StreamInv, TypeOK, Packet, Messages
<1>5. TypeOK'
  BY <1>2, <1>3, <1>4 DEF StreamInv, TypeOK, Messages
<1>6. FromStarted'
  BY <1>2, <1>3 DEF StreamInv, FromStarted, Packet
<1> QED
  BY <1>3, <1>5, <1>6, BeaconKeeps

LEMMA AnswerStartKeeps == ASSUME StreamInv, NEW m \in net, AnswerStart(m) PROVE StreamInv'
<1>1. UNCHANGED <<client, speaks, lost>>
  BY DEF AnswerStart
<1>2. m.nonce \in 1..try /\ m.k \in Nat
  BY DEF StreamInv, TypeOK
<1>3. CASE Takes(m, {Packet("B", m.nonce, 0)}) /\ UNCHANGED <<streams, started>>
  <2>1. net' \subseteq net \union {Packet("B", m.nonce, 0)} /\ dups' \in 0..MaxDup
    BY <1>3, TakesSafe DEF StreamInv
  <2>2. TypeOK'
    BY <1>1, <1>2, <1>3, <2>1 DEF StreamInv, TypeOK, Packet
  <2>3. FromStarted'
    BY <1>3, <2>1 DEF StreamInv, FromStarted, Packet
  <2> QED
    BY <1>1, <1>3, <2>2, <2>3, BeaconKeeps
<1>4. ASSUME NEW copy \in 1..MaxDup + 1,
             streams' = streams \union {[nonce |-> m.nonce, copy |-> copy, next |-> 0]},
             started' = started \union {m.nonce},
             Takes(m, {})
      PROVE  StreamInv'
  <2>1. net' \subseteq net /\ dups' \in 0..MaxDup
    BY <1>4, TakesSafe DEF StreamInv
  <2>2. streams' \subseteq [nonce : started', copy : 1..MaxDup + 1, next : 0..Packets]
    BY <1>4 DEF StreamInv, TypeOK
  <2>3. TypeOK'
    BY <1>1, <1>2, <1>4, <2>1, <2>2 DEF StreamInv, TypeOK
  <2>4. FromStarted'
    BY <1>4, <2>1 DEF StreamInv, FromStarted
  <2> QED
    BY <1>1, <1>4, <2>3, <2>4, BeaconKeeps
<1> QED
  BY <1>3, <1>4 DEF AnswerStart

LEMMA StreamingKeeps ==
  ASSUME StreamInv, NEW s \in streams, SendData(s) \/ SendEnd(s)
  PROVE  StreamInv'
<1>1. s.nonce \in started /\ s.next \in 0..Packets /\ s.nonce \in 1..try
  BY DEF StreamInv, TypeOK
<1>2. UNCHANGED <<client, started, speaks, network>>
  BY DEF SendData, SendEnd
<1>3. CASE SendData(s)
  <2>1. s.next \in 0..Packets - 1 /\ s.next + 1 \in 0..Packets
    BY <1>1, <1>3 DEF SendData
  <2>2. [s EXCEPT !.next = @ + 1]
          \in [nonce : started, copy : 1..MaxDup + 1, next : 0..Packets]
    BY <2>1 DEF StreamInv, TypeOK
  <2>3. TypeOK'
    BY <1>1, <1>2, <1>3, <2>1, <2>2 DEF StreamInv, TypeOK, SendData, Packet
  <2>4. FromStarted'
    BY <1>1, <1>2, <1>3, <2>1 DEF StreamInv, FromStarted, SendData, Packet
  <2> QED
    BY <1>2, <2>3, <2>4, BeaconKeeps
<1>4. CASE SendEnd(s)
  <2>1. TypeOK'
    BY <1>1, <1>2, <1>4 DEF StreamInv, TypeOK, SendEnd, Packet
  <2>2. FromStarted'
    BY <1>1, <1>2, <1>4 DEF StreamInv, FromStarted, SendEnd, Packet
  <2> QED
    BY <1>2, <2>1, <2>2, BeaconKeeps
<1> QED
  BY <1>3, <1>4

LEMMA LoseKeeps == ASSUME StreamInv, NEW m \in net, Lose(m) PROVE StreamInv'
<1>1. TypeOK' /\ FromStarted'
  BY DEF StreamInv, TypeOK, FromStarted, Lose
<1> QED
  BY <1>1, BeaconKeeps DEF Lose

LEMMA NextStreamInv == StreamInv /\ [Next]_vars => StreamInv'
<1> SUFFICES ASSUME StreamInv, [Next]_vars PROVE StreamInv'
  OBVIOUS
<1>1. CASE Deadlines \/ DialFailed \/ Unreachable \/ Cancel
  BY <1>1, DialKeeps, ResendHelloKeeps, TimersKeep DEF Deadlines
<1>2. CASE Arrivals
  BY <1>2, ReceiveKeeps, AnswerHelloKeeps, AnswerStartKeeps DEF Arrivals
<1>3. CASE Streaming
  BY <1>3, StreamingKeeps DEF Streaming
<1>4. CASE \E m \in net : Lose(m)
  BY <1>4, LoseKeeps
<1>5. CASE UNCHANGED vars
  BY <1>5 DEF vars, StreamInv, TypeOK, TryBudget, FromStarted, MeasuredIsOurs
<1> QED
  BY <1>1, <1>2, <1>3, <1>4, <1>5 DEF Next

(* The inductive invariant: types, the bound of two tries an attempt, and  *)
(* the stream every D and E belongs to.                                    *)
THEOREM StreamInvariant == Spec => []StreamInv
<1>1. Init => StreamInv
  BY InitStreamInv
<1>2. StreamInv /\ [Next]_vars => StreamInv'
  BY NextStreamInv
<1> QED
  BY <1>1, <1>2, PTL DEF Spec

(* Whatever the network does, a measurement is of this try's own stream:   *)
(* the nonce check of receiveStream.                                       *)
THEOREM MeasurementIsOurs == Spec => []MeasuredIsOurs
<1>1. StreamInv => MeasuredIsOurs
  BY DEF StreamInv
<1> QED
  BY <1>1, StreamInvariant, PTL

-----------------------------------------------------------------------------
(* OrderlyInv, over a network without delays and duplicates. *)

Orderly == OneThing /\ OneStream /\ BusyMeansNoStream

LEMMA InitOrderly == Init => Orderly
  BY DEF Init, Orderly, OneThing, OneStream, BusyMeansNoStream

LEMMA TakesOnce ==
  ASSUME MaxDup = 0, TypeOK, NEW m \in net, NEW A, Takes(m, A)
  PROVE  net' = (net \ {m}) \union A
  BY DEF Takes, TypeOK

LEMMA TimersOrderly ==
  ASSUME ~Delay, StreamInv, Orderly, Deadlines \/ DialFailed \/ Unreachable \/ Cancel
  PROVE  Orderly'
<1>1. UNCHANGED <<streams, started>>
  BY DEF Deadlines, Dial, ResendHello, NoCookie, StreamOver, RetryAfter, DialFailed,
         Unreachable, Cancel
<1>2. CASE Dial
  <2>1. net' = {Packet("H", try', 1)} /\ streams' = {} /\ try' \notin started'
    BY <1>1, <1>2 DEF Dial, Orderly, OneThing, StreamInv, TypeOK
  <2> QED
    BY <1>1, <1>2, <2>1 DEF Dial, Orderly, OneThing, OneStream, BusyMeansNoStream, Packet
<1>3. CASE ResendHello
  <2>1. net' = {Packet("H", try', hellos')} /\ streams' = {} /\ try' \notin started'
    BY <1>1, <1>3 DEF ResendHello, DeadlinePasses, Orderly, OneThing
  <2> QED
    BY <1>1, <1>3, <2>1 DEF ResendHello, Orderly, OneThing, OneStream, BusyMeansNoStream,
                            Packet
<1>4. CASE NoCookie \/ StreamOver \/ RetryAfter \/ DialFailed \/ Unreachable \/ Cancel
  <2>1. UNCHANGED <<net, try>>
    BY <1>4 DEF NoCookie, StreamOver, RetryAfter, DialFailed, Unreachable, Cancel
  <2>2. phase' \notin {"hello", "wait", "busy"}
    BY <1>4 DEF NoCookie, StreamOver, RetryAfter, DialFailed, Unreachable, Cancel
  <2>3. phase' = "dial" => net = {} /\ streams = {}
    BY <1>4 DEF NoCookie, StreamOver, RetryAfter, DialFailed, Unreachable, Cancel,
                DeadlinePasses, Orderly, OneThing
  <2> QED
    BY <1>1, <2>1, <2>2, <2>3 DEF Orderly, OneThing, OneStream, BusyMeansNoStream
<1> QED
  BY <1>2, <1>3, <1>4 DEF Deadlines

LEMMA ReceiveOrderly ==
  ASSUME MaxDup = 0, StreamInv, Orderly, NEW m \in net, Receive(m)
  PROVE  Orderly'
<1>1. UNCHANGED <<try, streams, started>>
  BY DEF Receive
<1>2. CASE phase = "hello" /\ phase' = "stream"
  <2>1. m.type = "C"
    BY <1>2 DEF Receive, HelloReply, StreamPacket, Busy
  <2>2. net' = {Packet("S", try, 0)} /\ streams = {} /\ try \notin started
    BY <1>2, <2>1, TakesOnce DEF Receive, Orderly, OneThing, StreamInv
  <2> QED
    BY <1>1, <1>2, <2>2 DEF Orderly, OneThing, OneStream, BusyMeansNoStream, Packet
<1>3. CASE ~(phase = "hello" /\ phase' = "stream")
  <2>1. net' = net \ {m}
    BY <1>3, TakesOnce DEF Receive, StreamInv
  <2>2. CASE phase' = phase
    BY <1>1, <2>1, <2>2 DEF Orderly, OneThing, OneStream, BusyMeansNoStream
  <2>3. CASE m.type = "B" /\ Ours(m) /\ phase' \in {"wait", "busy"}
    <3>1. net' = {} /\ streams = {} /\ try \notin started
      BY <2>1, <2>3 DEF Orderly, OneThing, Ours
    <3> QED
      BY <1>1, <2>3, <3>1 DEF Orderly, OneThing, OneStream, BusyMeansNoStream
  <2>4. CASE phase' \in {"unsupported", "late"}
    BY <1>1, <2>1, <2>4 DEF Orderly, OneThing, OneStream, BusyMeansNoStream
  <2> QED
    BY <1>3, <2>2, <2>3, <2>4 DEF Receive, HelloReply, StreamPacket, Busy
<1> QED
  BY <1>2, <1>3

LEMMA AnswerHelloOrderly ==
  ASSUME MaxDup = 0, StreamInv, Orderly, NEW m \in net, AnswerHello(m)
  PROVE  Orderly'
<1>1. PICK reply \in {"C", "B", "echo", "none"} :
        Takes(m, IF reply = "none" THEN {} ELSE {Packet(reply, m.nonce, m.k)})
  BY DEF AnswerHello, StreamInv, TypeOK
<1>2. net = {m} /\ streams = {} /\ m.nonce \notin started
  BY DEF AnswerHello, Orderly, OneThing
<1>3. net' \subseteq {Packet(reply, m.nonce, m.k)}
  BY <1>1, <1>2, TakesOnce DEF StreamInv
<1>4. UNCHANGED <<phase, try, streams, started>>
  BY DEF AnswerHello
<1>5. phase \notin {"dial", "wait", "busy"}
  BY DEF Orderly, OneThing
<1> QED
  BY <1>2, <1>3, <1>4, <1>5 DEF Orderly, OneThing, OneStream, BusyMeansNoStream, Packet

LEMMA AnswerStartOrderly ==
  ASSUME MaxDup = 0, StreamInv, Orderly, NEW m \in net, AnswerStart(m)
  PROVE  Orderly'
<1>1. net = {m} /\ streams = {} /\ m.nonce \notin started
  BY DEF AnswerStart, Orderly, OneThing
<1>2. UNCHANGED <<phase, try>>
  BY DEF AnswerStart
<1>3. phase \notin {"dial", "wait", "busy"}
  BY DEF Orderly, OneThing
<1>4. CASE Takes(m, {Packet("B", m.nonce, 0)}) /\ UNCHANGED <<streams, started>>
  <2>1. net' = {Packet("B", m.nonce, 0)}
    BY <1>1, <1>4, TakesOnce DEF StreamInv
  <2> QED
    BY <1>1, <1>2, <1>3, <1>4, <2>1
       DEF Orderly, OneThing, OneStream, BusyMeansNoStream, Packet
<1>5. ASSUME NEW copy \in 1..MaxDup + 1,
             streams' = streams \union {[nonce |-> m.nonce, copy |-> copy, next |-> 0]},
             Takes(m, {})
      PROVE  Orderly'
  <2>1. net' = {}
    BY <1>1, <1>5, TakesOnce DEF StreamInv
  <2>2. phase # "hello"
    BY DEF AnswerStart, Orderly, OneThing
  <2> QED
    BY <1>1, <1>2, <1>3, <1>5, <2>1, <2>2 DEF Orderly, OneThing, OneStream, BusyMeansNoStream
<1> QED
  BY <1>4, <1>5 DEF AnswerStart

LEMMA StreamingOrderly ==
  ASSUME StreamInv, Orderly, NEW s \in streams, SendData(s) \/ SendEnd(s)
  PROVE  Orderly'
<1>1. UNCHANGED <<phase, try, started>>
  BY DEF SendData, SendEnd
<1>2. phase \notin {"dial", "wait", "busy", "hello"} /\ streams = {s}
  BY DEF Orderly, OneThing, OneStream
<1>3. \A m \in net : m.type \in {"D", "E"}
  BY <1>2 DEF Orderly, OneThing
<1>4. \A m \in net' : m.type \in {"D", "E"}
  BY <1>3 DEF SendData, SendEnd, Packet
<1>5. streams' \subseteq {[s EXCEPT !.next = @ + 1]}
  BY <1>2 DEF SendData, SendEnd
<1> QED
  BY <1>1, <1>2, <1>4, <1>5 DEF Orderly, OneThing, OneStream, BusyMeansNoStream

LEMMA LoseOrderly == ASSUME Orderly, NEW m \in net, Lose(m) PROVE Orderly'
  BY DEF Lose, Orderly, OneThing, OneStream, BusyMeansNoStream

LEMMA NextOrderly ==
  ASSUME ~Delay, MaxDup = 0
  PROVE  StreamInv /\ Orderly /\ [Next]_vars => Orderly'
<1> SUFFICES ASSUME StreamInv, Orderly, [Next]_vars PROVE Orderly'
  OBVIOUS
<1>1. CASE Deadlines \/ DialFailed \/ Unreachable \/ Cancel
  BY <1>1, TimersOrderly
<1>2. CASE Arrivals
  BY <1>2, ReceiveOrderly, AnswerHelloOrderly, AnswerStartOrderly DEF Arrivals
<1>3. CASE Streaming
  BY <1>3, StreamingOrderly DEF Streaming
<1>4. CASE \E m \in net : Lose(m)
  BY <1>4, LoseOrderly
<1>5. CASE UNCHANGED vars
  BY <1>5 DEF vars, Orderly, OneThing, OneStream, BusyMeansNoStream
<1> QED
  BY <1>1, <1>2, <1>3, <1>4, <1>5 DEF Next

(* One thing is under way at a time.                                       *)
THEOREM OrderlyInvariant == ASSUME ~Delay, MaxDup = 0 PROVE Spec => []OrderlyInv
<1>1. Init => Orderly
  BY InitOrderly
<1>2. StreamInv /\ Orderly /\ [Next]_vars => Orderly'
  BY NextOrderly
<1>3. StreamInv /\ Orderly => OrderlyInv
  BY DEF Orderly, OrderlyInv
<1> QED
  BY <1>1, <1>2, <1>3, StreamInvariant, PTL DEF Spec

(* Without delays and duplicates the beacon never sends two streams at a   *)
(* time: "by then any stream from the first S has ended".                  *)
THEOREM StreamsNeverOverlap == ASSUME ~Delay, MaxDup = 0 PROVE Spec => []OneStream
<1>1. OrderlyInv => OneStream
  BY DEF OrderlyInv
<1> QED
  BY <1>1, OrderlyInvariant, PTL

-----------------------------------------------------------------------------
(* LossInv: what each silence, each lost hello and each missing packet     *)
(* cost the network, over one without delays and duplicates.               *)

(* What is in flight is of this try.                                       *)
Mine ==
  /\ phase \in {"hello", "stream", "late"} =>
       /\ \A m \in net : m.nonce = try
       /\ \A s \in streams : s.nonce = try
  /\ \A m \in net : /\ m.type = "echo" => speaks = "echo"
                    /\ m.type = "E" => streams = {}
  /\ phase \in {"hello", "stream"} => total = 0
  /\ phase = "late" => total = Packets /\ streams = {}

(* Each hello that is neither answered nor under way was lost.             *)
HelloLosses ==
  phase = "hello" /\ speaks = "stream" => lost >= IF net = {} THEN hellos ELSE hellos - 1

(* Each try that heard nothing lost something, unless it may still hear.   *)
SilenceLosses ==
  /\ again => lost >= 1
  /\ phase = "stream" /\ got = {} =>
       \/ lost >= IF again THEN 2 ELSE 1
       \/ streams # {}
       \/ \E m \in net : m.type \in {"S", "B", "E"}

(* Of the first n packets, those neither received nor in flight are lost.  *)
Missing(n) == {k \in 0..n - 1 : k \notin got /\ \A m \in net : m.type = "D" => m.k # k}
Accounts(n) ==
  /\ got \subseteq 0..n - 1
  /\ \A m \in net : m.type = "D" => m.k \in 0..n - 1
  /\ Cardinality(Missing(n)) <= lost

StreamLosses ==
  phase \in {"stream", "late"} =>
    /\ \A s \in streams : Accounts(s.next)
    /\ streams = {} /\ try \in started => Accounts(Packets)

LossInv ==
  Mine /\ HelloLosses /\ SilenceLosses /\ StreamLosses /\ VerdictsHaveCause /\ NoFalseLoss

LEMMA InitLossInv == Init => LossInv
<1> SUFFICES ASSUME Init PROVE LossInv
  OBVIOUS
<1>1. Mine /\ HelloLosses /\ SilenceLosses /\ StreamLosses
  BY DEF Init, Mine, HelloLosses, SilenceLosses, StreamLosses
<1>2. VerdictsHaveCause /\ NoFalseLoss
  BY DEF Init, VerdictsHaveCause, UnsupportedIsTrue, SilenceIsTrue, NoFalseLoss
<1> QED
  BY <1>1, <1>2 DEF LossInv

LEMMA MissingFinite ==
  ASSUME NEW n \in Int
  PROVE  IsFiniteSet(Missing(n)) /\ Cardinality(Missing(n)) \in Nat
<1>1. Missing(n) \in SUBSET (0..n - 1) /\ IsFiniteSet(0..n - 1)
  BY FS_Interval DEF Missing
<1>2. IsFiniteSet(Missing(n))
  BY <1>1, FS_Subset
<1> QED
  BY <1>2, FS_CardinalityType

(* No more is missing, or only one packet more, which was lost.            *)
LEMMA MissingFewer ==
  ASSUME NEW n \in Int, NEW n2 \in Int, Missing(n2)' \subseteq Missing(n)
  PROVE  Cardinality(Missing(n2)') <= Cardinality(Missing(n))
BY MissingFinite, FS_Subset

LEMMA MissingOneMore ==
  ASSUME NEW n \in Int, NEW k, Missing(n)' \subseteq Missing(n) \union {k}
  PROVE  Cardinality(Missing(n)') <= Cardinality(Missing(n)) + 1
<1>1. IsFiniteSet(Missing(n)) /\ Cardinality(Missing(n)) \in Nat
  BY MissingFinite
<1>2. /\ IsFiniteSet(Missing(n) \union {k})
      /\ Cardinality(Missing(n) \union {k}) <= Cardinality(Missing(n)) + 1
  BY <1>1, FS_AddElement
<1>3. /\ Cardinality(Missing(n)') <= Cardinality(Missing(n) \union {k})
      /\ IsFiniteSet(Missing(n)')
  BY <1>2, FS_Subset
<1> QED
  BY <1>1, <1>2, <1>3, FS_CardinalityType

(* A set of packets has a last one.                                        *)
LEMMA LastReceived ==
  ASSUME NEW S \in SUBSET (0..Packets - 1), S # {}
  PROVE  Max(S) \in S
<1> DEFINE T == {Packets - x : x \in S}
<1>1. T \subseteq Nat /\ T # {}
  OBVIOUS
<1>2. PICK t \in T : \A y \in T : ~ (<<y, t>> \in OpToRel(<, Nat))
  BY <1>1, NatLessThanWellFounded, WFMin
<1>3. \A y \in T : ~ (y < t)
  BY <1>1, <1>2 DEF OpToRel
<1>4. PICK x \in S : t = Packets - x
  OBVIOUS
<1>5. ASSUME NEW y \in S PROVE x >= y
  <2>1. Packets - y \in T /\ x \in Int /\ y \in Int
    OBVIOUS
  <2>2. ~ (Packets - y < Packets - x)
    BY <1>3, <1>4, <2>1
  <2> QED
    BY <2>1, <2>2
<1> QED
  BY <1>5 DEF Max

(* When all has arrived, the packets reported lost are those missing.      *)
LEMMA LossIsMissing ==
  ASSUME TypeOK, Accounts(Packets), net = {}, total = Packets \/ (total = 0 /\ got # {})
  PROVE  Sent - Cardinality(got) <= lost
<1>1. Missing(Packets) = (0..Packets - 1) \ got
  BY DEF Missing
<1>2. IsFiniteSet(0..Packets - 1) /\ Cardinality(0..Packets - 1) = Packets
  BY FS_Interval
<1>3. Cardinality(Missing(Packets)) = Packets - Cardinality(got)
  <2>1. (0..Packets - 1) \cap got = got
    BY DEF TypeOK
  <2> QED
    BY <1>1, <1>2, <2>1, FS_Difference
<1>4. Sent \in Nat /\ Sent <= Packets
  <2>1. CASE total = Packets
    BY <2>1 DEF Sent
  <2>2. CASE total = 0 /\ got # {}
    <3>1. Max(got) \in 0..Packets - 1
      BY <2>2, LastReceived DEF TypeOK
    <3> QED
      BY <2>2, <3>1 DEF Sent
  <2> QED
    BY <2>1, <2>2
<1>5. Cardinality(got) \in Nat
  BY <1>2, FS_Subset, FS_CardinalityType DEF TypeOK
<1>6. Packets - Cardinality(got) <= lost
  BY <1>3 DEF Accounts
<1> QED
  BY <1>4, <1>5, <1>6 DEF TypeOK

(* A verdict once given stays true: losses are not undone.                 *)
LEMMA VerdictsStay ==
  ASSUME TypeOK, LossInv, UNCHANGED speaks, lost' \in Nat, lost' >= lost,
         \/ phase' \notin {"unsupported", "silent", "ok"}
         \/ UNCHANGED <<phase, got, total>>
  PROVE  VerdictsHaveCause' /\ NoFalseLoss'
<1>1. CASE phase' \notin {"unsupported", "silent", "ok"}
  BY <1>1 DEF VerdictsHaveCause, UnsupportedIsTrue, SilenceIsTrue, NoFalseLoss
<1>2. CASE UNCHANGED <<phase, got, total>>
  <2>1. VerdictsHaveCause'
    BY <1>2 DEF LossInv, TypeOK, VerdictsHaveCause, UnsupportedIsTrue, SilenceIsTrue
  <2>2. NoFalseLoss'
    <3>1. phase = "ok" => Sent - Cardinality(got) <= lost
      BY DEF LossInv, NoFalseLoss
    <3>2. Sent' = Sent /\ Cardinality(got)' = Cardinality(got)
      BY <1>2 DEF Sent
    <3>3. Sent \in Int /\ Cardinality(got) \in Int
      <4>1. got \in SUBSET (0..Packets - 1)
        BY DEF TypeOK
      <4>2. IsFiniteSet(got)
        <5>1. IsFiniteSet(0..Packets - 1)
          BY FS_Interval
        <5> QED
          BY <4>1, <5>1, FS_Subset
      <4>3. got # {} => Max(got) \in 0..Packets - 1
        BY <4>1, LastReceived
      <4>4. total \in Int
        BY DEF TypeOK
      <4> QED
        BY <4>2, <4>3, <4>4, FS_CardinalityType DEF Sent
    <3> QED
      BY <1>2, <3>1, <3>2, <3>3 DEF NoFalseLoss, TypeOK
  <2> QED
    BY <2>1, <2>2
<1> QED
  BY <1>1, <1>2

LEMMA SendHelloLoss ==
  ASSUME ~Delay, OrderlyInv, LossInv, Dial \/ ResendHello PROVE LossInv'
<1>1. /\ UNCHANGED <<again, streams, started, speaks, lost, dups>>
      /\ phase' = "hello" /\ streams = {}
      /\ net' = {Packet("H", try', hellos')}
  BY DEF Dial, ResendHello, DeadlinePasses, OrderlyInv, OneThing
<1>2. Mine'
  BY <1>1 DEF LossInv, Mine, Packet, Dial, ResendHello
<1>3. HelloLosses'
  <2>1. CASE Dial
    BY <1>1, <2>1 DEF HelloLosses, Dial, OrderlyInv, StreamInv, TypeOK
  <2>2. CASE ResendHello
    BY <1>1, <2>2 DEF LossInv, HelloLosses, ResendHello, DeadlinePasses, OrderlyInv, StreamInv, TypeOK
  <2> QED
    BY <2>1, <2>2
<1>4. SilenceLosses' /\ StreamLosses'
  BY <1>1 DEF LossInv, SilenceLosses, StreamLosses
<1>5. VerdictsHaveCause' /\ NoFalseLoss'
  BY <1>1, VerdictsStay DEF OrderlyInv, StreamInv, TypeOK
<1> QED
  BY <1>2, <1>3, <1>4, <1>5 DEF LossInv

LEMMA EndOfTryLoss ==
  ASSUME ~Delay, OrderlyInv, LossInv,
         NoCookie \/ RetryAfter \/ DialFailed \/ Unreachable \/ Cancel
  PROVE  LossInv'
<1>1. /\ UNCHANGED <<again, try, hellos, got, total, net, streams, started, speaks, lost, dups>>
      /\ phase' \in {"unsupported", "dial", "failed", "cancelled"}
  BY DEF NoCookie, RetryAfter, DialFailed, Unreachable, Cancel
<1>2. Mine' /\ HelloLosses' /\ SilenceLosses' /\ StreamLosses'
  BY <1>1 DEF LossInv, Mine, HelloLosses, SilenceLosses, StreamLosses
<1>3. NoFalseLoss' /\ SilenceIsTrue'
  BY <1>1 DEF NoFalseLoss, SilenceIsTrue
<1>4. UnsupportedIsTrue'
  <2>1. CASE NoCookie
    BY <1>1, <2>1 DEF LossInv, HelloLosses, UnsupportedIsTrue, NoCookie, DeadlinePasses
  <2>2. CASE Unreachable
    BY <1>1, <2>2 DEF UnsupportedIsTrue, Unreachable
  <2>3. CASE RetryAfter \/ DialFailed \/ Cancel
    BY <2>3 DEF UnsupportedIsTrue, RetryAfter, DialFailed, Cancel
  <2> QED
    BY <2>1, <2>2, <2>3
<1> QED
  BY <1>2, <1>3, <1>4 DEF LossInv, VerdictsHaveCause

LEMMA StreamOverLoss ==
  ASSUME ~Delay, OrderlyInv, LossInv, StreamOver PROVE LossInv'
<1>1. /\ UNCHANGED <<attempt, try, hellos, got, total, net, streams, started, speaks, lost, dups>>
      /\ phase' \in {"ok", "silent", "dial"} /\ net = {} /\ streams = {}
      /\ phase \in {"stream", "late"}
  BY DEF StreamOver, DeadlinePasses
<1>2. lost \in Nat
  BY DEF OrderlyInv, StreamInv, TypeOK
<1>3. Mine' /\ HelloLosses' /\ StreamLosses'
  BY <1>1 DEF Mine, HelloLosses, StreamLosses
<1>4. CASE phase' = "ok" /\ UNCHANGED again /\ (phase = "late" \/ got # {})
  <2>1. try \in started
    BY <1>4 DEF OrderlyInv, StreamInv, MeasuredIsOurs
  <2>2. Accounts(Packets)
    BY <1>1, <2>1 DEF LossInv, StreamLosses
  <2>3. total = Packets \/ (total = 0 /\ got # {})
    BY <1>1, <1>4 DEF LossInv, Mine
  <2>4. Sent - Cardinality(got) <= lost
    BY <1>1, <2>2, <2>3, LossIsMissing DEF OrderlyInv, StreamInv
  <2>5. NoFalseLoss'
    BY <1>1, <2>4 DEF NoFalseLoss, Sent
  <2>6. SilenceLosses' /\ VerdictsHaveCause'
    BY <1>1, <1>4
       DEF LossInv, SilenceLosses, VerdictsHaveCause, UnsupportedIsTrue, SilenceIsTrue
  <2> QED
    BY <1>3, <2>5, <2>6 DEF LossInv
<1>5. CASE phase = "stream" /\ got = {} /\ phase' = (IF again THEN "silent" ELSE "dial") /\ again'
  <2>1. lost >= IF again THEN 2 ELSE 1
    BY <1>1, <1>5 DEF LossInv, SilenceLosses
  <2>2. SilenceLosses' /\ VerdictsHaveCause'
    BY <1>1, <1>2, <1>5, <2>1
       DEF SilenceLosses, VerdictsHaveCause, UnsupportedIsTrue, SilenceIsTrue
  <2>3. NoFalseLoss'
    BY <1>5 DEF NoFalseLoss
  <2> QED
    BY <1>3, <2>2, <2>3 DEF LossInv
<1> QED
  BY <1>4, <1>5 DEF StreamOver

(* No packet goes missing when one is sent, received or taken away that is *)
(* not data.                                                               *)
LEMMA AccountsKept ==
  ASSUME NEW n \in Int, NEW n2 \in Int, Accounts(n), lost \in Nat, lost' \in Nat, lost' >= lost,
         got' \subseteq 0..n2 - 1, \A m \in net' : m.type = "D" => m.k \in 0..n2 - 1,
         \A k \in 0..n2 - 1 : k \in Missing(n2)' => k \in Missing(n)
  PROVE  Accounts(n2)'
<1>1. Missing(n2)' \subseteq Missing(n)
  BY DEF Missing
<1>2. Cardinality(Missing(n2)') <= Cardinality(Missing(n)) /\ Cardinality(Missing(n)) \in Nat
  BY <1>1, MissingFewer, MissingFinite
<1>3. Missing(n2)' \in SUBSET (0..n2 - 1)
  BY DEF Missing
<1>4. IsFiniteSet(0..n2 - 1)
  BY FS_Interval
<1>5. Cardinality(Missing(n2)') \in Nat
  BY <1>3, <1>4, FS_Subset, FS_CardinalityType
<1>6. Cardinality(Missing(n2)') <= lost'
  BY <1>2, <1>5 DEF Accounts
<1> QED
  BY <1>6 DEF Accounts

LEMMA AccountsNoData ==
  ASSUME NEW n \in Int, Accounts(n), lost \in Nat, UNCHANGED <<got, lost>>,
         \A m \in net : m.type = "D" => m \in net',
         \A m \in net' : m.type = "D" => m \in net
  PROVE  Accounts(n)'
<1>1. \A k \in 0..n - 1 : k \in Missing(n)' => k \in Missing(n)
  BY DEF Missing
<1> QED
  BY <1>1, AccountsKept DEF Accounts

LEMMA HelloReplyLoss ==
  ASSUME MaxDup = 0, OrderlyInv, LossInv, NEW m \in net, Receive(m), phase = "hello"
  PROVE  LossInv'
<1>1. /\ net = {m} /\ streams = {} /\ try \notin started /\ Ours(m) /\ total = 0 /\ got = {}
      /\ m.type \in {"C", "B", "echo"}
      /\ m.type = "echo" => speaks = "echo"
  BY DEF OrderlyInv, OneThing, StreamInv, TypeOK, MeasuredIsOurs, LossInv, Mine, Ours, Receive
<1>2. HelloReply(m) /\ UNCHANGED <<got, total, try, hellos, streams, started, speaks, lost>>
  BY DEF Receive
<1>3. lost' \in Nat /\ lost' >= lost /\ again \in BOOLEAN
  BY <1>2 DEF OrderlyInv, StreamInv, TypeOK
<1>4. CASE phase' = "stream" /\ UNCHANGED <<attempt, again>>
  <2>1. net' = {Packet("S", try, 0)}
    BY <1>1, <1>4, TakesOnce DEF Receive, OrderlyInv, StreamInv
  <2>2. Mine' /\ HelloLosses' /\ SilenceLosses' /\ StreamLosses'
    BY <1>1, <1>2, <1>4, <2>1
       DEF LossInv, Mine, HelloLosses, SilenceLosses, StreamLosses, Packet
  <2>3. VerdictsHaveCause' /\ NoFalseLoss'
    BY <1>2, <1>3, <1>4, VerdictsStay DEF OrderlyInv, StreamInv
  <2> QED
    BY <2>2, <2>3 DEF LossInv
<1>5. CASE phase' \in {"busy", "wait", "unsupported"} /\ (again' => again)
           /\ (phase' = "unsupported" => speaks = "echo")
  <2>1. net' = {}
    BY <1>1, <1>5, TakesOnce DEF Receive, OrderlyInv, StreamInv
  <2>2. Mine' /\ HelloLosses' /\ SilenceLosses' /\ StreamLosses'
    BY <1>2, <1>5, <2>1 DEF LossInv, Mine, HelloLosses, SilenceLosses, StreamLosses
  <2>3. VerdictsHaveCause' /\ NoFalseLoss'
    BY <1>2, <1>5 DEF VerdictsHaveCause, UnsupportedIsTrue, SilenceIsTrue, NoFalseLoss
  <2> QED
    BY <2>2, <2>3 DEF LossInv
<1>6. CASE m.type = "C" /\ phase' = "stream" /\ UNCHANGED <<attempt, again>>
  BY <1>4, <1>6
<1>7. CASE m.type = "B" /\ Busy
  BY <1>5, <1>7 DEF Busy
<1>8. CASE m.type = "echo" /\ phase' = "unsupported" /\ UNCHANGED <<attempt, again>>
  BY <1>1, <1>5, <1>8
<1> QED
  BY <1>1, <1>2, <1>6, <1>7, <1>8 DEF HelloReply

LEMMA StreamPacketLoss ==
  ASSUME MaxDup = 0, OrderlyInv, LossInv, NEW m \in net, Receive(m), phase \in {"stream", "late"}
  PROVE  LossInv'
<1>1. /\ StreamPacket(m) /\ Ours(m) /\ m.type \in ToClient /\ net' = net \ {m}
      /\ UNCHANGED <<try, hellos, streams, started, speaks, lost>>
  BY TakesOnce DEF Receive, LossInv, Mine, Ours, OrderlyInv, StreamInv
<1>2. lost \in Nat /\ lost' \in Nat /\ lost' >= lost /\ \A s \in streams : s.next \in Int
  BY <1>1 DEF OrderlyInv, StreamInv, TypeOK
<1>3. CASE Busy /\ UNCHANGED <<got, total>>
  <2>1. phase' \in {"busy", "wait"} /\ (again' => again)
    BY <1>3 DEF Busy
  <2>2. Mine' /\ HelloLosses' /\ SilenceLosses' /\ StreamLosses'
    BY <1>1, <2>1 DEF LossInv, Mine, HelloLosses, SilenceLosses, StreamLosses
  <2> QED
    BY <2>1, <2>2 DEF LossInv, VerdictsHaveCause, UnsupportedIsTrue, SilenceIsTrue, NoFalseLoss
<1>4. CASE m.type = "D" /\ got' = got \union {m.k} /\ UNCHANGED <<phase, attempt, again, total>>
  <2>1. ASSUME NEW n \in Int, Accounts(n) PROVE Accounts(n)'
    <3>1. \A k \in 0..n - 1 : k \in Missing(n)' => k \in Missing(n)
      BY <1>1, <1>4 DEF Missing
    <3>2. got' \subseteq 0..n - 1 /\ \A p \in net' : p.type = "D" => p.k \in 0..n - 1
      BY <1>1, <1>4, <2>1 DEF Accounts
    <3> QED
      BY <1>2, <2>1, <3>1, <3>2, AccountsKept
  <2>2. StreamLosses'
    BY <1>1, <1>2, <1>4, <2>1 DEF LossInv, StreamLosses
  <2>3. Mine' /\ HelloLosses' /\ SilenceLosses'
    BY <1>1, <1>4 DEF LossInv, Mine, HelloLosses, SilenceLosses
  <2>4. VerdictsHaveCause' /\ NoFalseLoss'
    BY <1>1, <1>2, <1>4, VerdictsStay DEF OrderlyInv, StreamInv
  <2> QED
    BY <2>2, <2>3, <2>4 DEF LossInv
<1>5. CASE m.type = "E" /\ phase = "stream" /\ phase' = "late" /\ total' = m.k
           /\ UNCHANGED <<attempt, again, got>>
  <2>1. streams = {} /\ m.k = Packets
    BY <1>5 DEF LossInv, Mine, OrderlyInv, StreamInv, FromStarted
  <2>2. \A n \in Int : Accounts(n) => Accounts(n)'
    BY <1>1, <1>2, <1>5, AccountsNoData
  <2>3. StreamLosses'
    BY <1>1, <1>5, <2>1, <2>2 DEF LossInv, StreamLosses
  <2>4. Mine' /\ HelloLosses' /\ SilenceLosses'
    BY <1>1, <1>5, <2>1 DEF LossInv, Mine, HelloLosses, SilenceLosses
  <2>5. VerdictsHaveCause' /\ NoFalseLoss'
    BY <1>1, <1>2, <1>5, VerdictsStay DEF OrderlyInv, StreamInv
  <2> QED
    BY <2>3, <2>4, <2>5 DEF LossInv
<1>6. CASE UNCHANGED <<phase, attempt, again, got, total>>
           /\ (m.type \in {"C", "echo"} \/ (m.type \in {"E", "B"} /\ phase = "late"))
  <2>1. \A n \in Int : Accounts(n) => Accounts(n)'
    BY <1>1, <1>2, <1>6, AccountsNoData
  <2>2. StreamLosses'
    BY <1>1, <1>2, <1>6, <2>1 DEF LossInv, StreamLosses
  <2>3. Mine' /\ HelloLosses' /\ SilenceLosses'
    BY <1>1, <1>6 DEF LossInv, Mine, HelloLosses, SilenceLosses
  <2>4. VerdictsHaveCause' /\ NoFalseLoss'
    BY <1>1, <1>2, <1>6, VerdictsStay DEF OrderlyInv, StreamInv
  <2> QED
    BY <2>2, <2>3, <2>4 DEF LossInv
<1> QED
  BY <1>1, <1>3, <1>4, <1>5, <1>6 DEF StreamPacket

LEMMA ReceiveLoss ==
  ASSUME MaxDup = 0, OrderlyInv, LossInv, NEW m \in net, Receive(m) PROVE LossInv'
<1>1. CASE phase \notin {"hello", "stream", "late"}
  <2>1. /\ UNCHANGED <<phase, attempt, again, got, total, try, hellos, streams, started, speaks, lost>>
        /\ net' \subseteq net
    BY <1>1, TakesOnce DEF Receive, OrderlyInv, StreamInv
  <2>2. Mine' /\ HelloLosses' /\ SilenceLosses' /\ StreamLosses'
    BY <1>1, <2>1 DEF LossInv, Mine, HelloLosses, SilenceLosses, StreamLosses
  <2>3. VerdictsHaveCause' /\ NoFalseLoss'
    BY <2>1, VerdictsStay DEF OrderlyInv, StreamInv, TypeOK
  <2> QED
    BY <2>2, <2>3 DEF LossInv
<1> QED
  BY <1>1, HelloReplyLoss, StreamPacketLoss

LEMMA AnswerHelloLoss ==
  ASSUME MaxDup = 0, OrderlyInv, LossInv, NEW m \in net, AnswerHello(m) PROVE LossInv'
<1>1. PICK reply \in {"C", "B", "echo", "none"} :
        /\ Takes(m, IF reply = "none" THEN {} ELSE {Packet(reply, m.nonce, m.k)})
        /\ reply = "echo" => speaks = "echo"
        /\ speaks = "stream" => reply # "none"
  BY DEF AnswerHello, OrderlyInv, StreamInv, TypeOK
<1>2. /\ net = {m} /\ streams = {} /\ m.nonce \notin started
      /\ UNCHANGED <<phase, attempt, again, try, hellos, got, total, streams, started, speaks, lost>>
  BY DEF AnswerHello, OrderlyInv, OneThing
<1>3. net' = IF reply = "none" THEN {} ELSE {Packet(reply, m.nonce, m.k)}
  BY <1>1, <1>2, TakesOnce DEF OrderlyInv, StreamInv
<1>4. m.type = "H"
  BY DEF AnswerHello
<1>5. Mine'
  BY <1>1, <1>2, <1>3 DEF LossInv, Mine, Packet
<1>6. HelloLosses'
  BY <1>1, <1>2, <1>3 DEF LossInv, HelloLosses
<1>7. SilenceLosses'
  BY <1>2, <1>4 DEF LossInv, SilenceLosses
<1>8. StreamLosses'
  BY <1>2 DEF LossInv, Mine, StreamLosses
<1>9. VerdictsHaveCause' /\ NoFalseLoss'
  BY <1>2, VerdictsStay DEF OrderlyInv, StreamInv, TypeOK
<1> QED
  BY <1>5, <1>6, <1>7, <1>8, <1>9 DEF LossInv

LEMMA AnswerStartLoss ==
  ASSUME MaxDup = 0, OrderlyInv, LossInv, NEW m \in net, AnswerStart(m) PROVE LossInv'
<1>1. /\ net = {m} /\ streams = {} /\ m.nonce \notin started
      /\ UNCHANGED <<phase, attempt, again, try, hellos, got, total, speaks, lost>>
      /\ phase # "hello"
  BY DEF AnswerStart, OrderlyInv, OneThing
<1>2. VerdictsHaveCause' /\ NoFalseLoss'
  BY <1>1, VerdictsStay DEF OrderlyInv, StreamInv, TypeOK
<1>3. phase \in {"stream", "late"} => m.nonce = try /\ try \notin started /\ got = {} /\ phase # "late"
  BY <1>1 DEF LossInv, Mine, OrderlyInv, StreamInv, MeasuredIsOurs
<1>4. CASE Takes(m, {Packet("B", m.nonce, 0)}) /\ UNCHANGED <<streams, started>>
  <2>1. net' = {Packet("B", m.nonce, 0)}
    BY <1>1, <1>4, TakesOnce DEF OrderlyInv, StreamInv
  <2>2. Mine' /\ HelloLosses' /\ SilenceLosses' /\ StreamLosses'
    BY <1>1, <1>3, <1>4, <2>1
       DEF LossInv, Mine, HelloLosses, SilenceLosses, StreamLosses, Packet
  <2> QED
    BY <1>2, <2>2 DEF LossInv
<1>5. ASSUME NEW copy \in 1..MaxDup + 1,
             streams' = streams \union {[nonce |-> m.nonce, copy |-> copy, next |-> 0]},
             Takes(m, {})
      PROVE  LossInv'
  <2>1. net' = {}
    BY <1>1, <1>5, TakesOnce DEF OrderlyInv, StreamInv
  <2>2. streams' = {[nonce |-> m.nonce, copy |-> copy, next |-> 0]}
    BY <1>1, <1>5
  <2>3. Mine' /\ HelloLosses' /\ SilenceLosses'
    BY <1>1, <1>3, <2>1, <2>2 DEF LossInv, Mine, HelloLosses, SilenceLosses
  <2>4. phase \in {"stream", "late"} => Accounts(0)'
    <3>1. Missing(0)' = {}
      BY DEF Missing
    <3>2. Cardinality(Missing(0)') = 0
      BY <3>1, FS_EmptySet
    <3> QED
      BY <1>1, <1>3, <2>1, <3>2 DEF Accounts, OrderlyInv, StreamInv, TypeOK
  <2>5. \A s \in streams' : s.next = 0
    BY <2>2
  <2>6. StreamLosses'
    BY <1>1, <2>2, <2>4, <2>5 DEF StreamLosses
  <2> QED
    BY <1>2, <2>3, <2>6 DEF LossInv
<1> QED
  BY <1>4, <1>5 DEF AnswerStart

LEMMA StreamingLoss ==
  ASSUME OrderlyInv, LossInv, NEW s \in streams, SendData(s) \/ SendEnd(s) PROVE LossInv'
<1>1. /\ UNCHANGED <<phase, attempt, again, try, hellos, got, total, started, speaks, lost>>
      /\ s.next \in 0..Packets /\ streams = {s} /\ phase # "late" /\ phase # "hello"
      /\ \A m \in net : m.type # "E"
  BY DEF SendData, SendEnd, OrderlyInv, StreamInv, TypeOK, OneStream, OneThing, LossInv, Mine
<1>2. lost \in Nat /\ lost' \in Nat /\ lost' >= lost
  BY <1>1 DEF OrderlyInv, StreamInv, TypeOK
<1>3. VerdictsHaveCause' /\ NoFalseLoss'
  BY <1>1, <1>2, VerdictsStay DEF OrderlyInv, StreamInv
<1>4. phase = "stream" => Accounts(s.next) /\ s.nonce = try
  BY <1>1 DEF LossInv, StreamLosses, Mine
<1>5. CASE SendData(s)
  <2> DEFINE p == Packet("D", s.nonce, s.next)
             t == [s EXCEPT !.next = @ + 1]
  <2>1. net' = net \union {p} /\ streams' = {t} /\ p.type = "D" /\ p.nonce = s.nonce /\ p.k = s.next
    BY <1>1, <1>5 DEF SendData, Packet
  <2>2. t.next = s.next + 1 /\ t.nonce = s.nonce
    BY DEF OrderlyInv, StreamInv, TypeOK
  <2> HIDE DEF p, t
  <2>3. Mine' /\ HelloLosses' /\ SilenceLosses'
    BY <1>1, <1>4, <2>1, <2>2 DEF LossInv, Mine, HelloLosses, SilenceLosses
  <2>4. ASSUME phase = "stream" PROVE Accounts(s.next + 1)'
    <3>1. \A k \in 0..(s.next + 1) - 1 : k \in Missing(s.next + 1)' => k \in Missing(s.next)
      BY <1>1, <2>1 DEF Missing
    <3>2. got' \subseteq 0..(s.next + 1) - 1
      BY <1>1, <1>4, <2>4 DEF Accounts
    <3>3. \A m \in net' : m.type = "D" => m.k \in 0..(s.next + 1) - 1
      BY <1>1, <1>4, <2>1, <2>4 DEF Accounts
    <3>4. s.next \in Int /\ s.next + 1 \in Int
      BY <1>1
    <3> QED
      BY <1>2, <1>4, <2>4, <3>1, <3>2, <3>3, <3>4, AccountsKept
  <2>5. StreamLosses'
    BY <1>1, <2>1, <2>2, <2>4 DEF StreamLosses
  <2> QED
    BY <1>3, <2>3, <2>5 DEF LossInv
<1>6. CASE SendEnd(s)
  <2> DEFINE p == Packet("E", s.nonce, Packets)
  <2>1. /\ net' = net \union {p} /\ streams' = {} /\ s.next = Packets
        /\ p.type = "E" /\ p.nonce = s.nonce /\ p.k = Packets
    BY <1>1, <1>6 DEF SendEnd, Packet
  <2> HIDE DEF p
  <2>2. Mine' /\ HelloLosses' /\ SilenceLosses'
    BY <1>1, <1>4, <2>1 DEF LossInv, Mine, HelloLosses, SilenceLosses
  <2>3. phase = "stream" => Accounts(Packets)'
    BY <1>1, <1>2, <1>4, <2>1, AccountsNoData
  <2>4. StreamLosses'
    BY <1>1, <2>1, <2>3 DEF StreamLosses
  <2> QED
    BY <1>3, <2>2, <2>4 DEF LossInv
<1> QED
  BY <1>5, <1>6

LEMMA LoseLoss == ASSUME OrderlyInv, LossInv, NEW m \in net, Lose(m) PROVE LossInv'
<1>1. /\ UNCHANGED <<phase, attempt, again, try, hellos, got, total, streams, started, speaks>>
      /\ net' = net \ {m} /\ lost' = lost + 1 /\ lost \in Nat /\ again \in BOOLEAN
      /\ hellos \in Nat
  BY DEF Lose, OrderlyInv, StreamInv, TypeOK
<1>2. VerdictsHaveCause' /\ NoFalseLoss'
  BY <1>1, VerdictsStay DEF OrderlyInv, StreamInv
<1>3. Mine'
  BY <1>1 DEF LossInv, Mine
<1>4. HelloLosses'
  BY <1>1 DEF LossInv, HelloLosses
<1>5. SilenceLosses'
  BY <1>1 DEF LossInv, SilenceLosses
<1>6. ASSUME NEW n \in Int, Accounts(n) PROVE Accounts(n)'
  <2>1. Missing(n)' \subseteq Missing(n) \union {m.k}
    BY <1>1 DEF Missing
  <2>2. Cardinality(Missing(n)') <= Cardinality(Missing(n)) + 1
    BY <2>1, MissingOneMore
  <2>3. Cardinality(Missing(n)') \in Nat
    <3>1. Missing(n)' \in SUBSET (0..n - 1) /\ IsFiniteSet(0..n - 1)
      BY FS_Interval DEF Missing
    <3> QED
      BY <3>1, FS_Subset, FS_CardinalityType
  <2>4. Cardinality(Missing(n)') <= lost'
    BY <1>1, <1>6, <2>2, <2>3, MissingFinite DEF Accounts
  <2> QED
    BY <1>1, <1>6, <2>4 DEF Accounts
<1>7. StreamLosses'
  <2>1. \A s \in streams : s.next \in Int
    BY DEF OrderlyInv, StreamInv, TypeOK
  <2> QED
    BY <1>1, <1>6, <2>1 DEF LossInv, StreamLosses
<1> QED
  BY <1>2, <1>3, <1>4, <1>5, <1>7 DEF LossInv

LEMMA NextLossInv ==
  ASSUME ~Delay, MaxDup = 0
  PROVE  OrderlyInv /\ LossInv /\ [Next]_vars => LossInv'
<1> SUFFICES ASSUME OrderlyInv, LossInv, [Next]_vars PROVE LossInv'
  OBVIOUS
<1>1. CASE Deadlines \/ DialFailed \/ Unreachable \/ Cancel
  BY <1>1, SendHelloLoss, StreamOverLoss, EndOfTryLoss DEF Deadlines
<1>2. CASE Arrivals
  BY <1>2, ReceiveLoss, AnswerHelloLoss, AnswerStartLoss DEF Arrivals
<1>3. CASE Streaming
  BY <1>3, StreamingLoss DEF Streaming
<1>4. CASE \E m \in net : Lose(m)
  BY <1>4, LoseLoss
<1>5. CASE UNCHANGED vars
  <2>1. \A n \in Int : Accounts(n) => Accounts(n)'
    BY <1>5, AccountsNoData DEF vars, OrderlyInv, StreamInv, TypeOK
  <2>2. \A s \in streams : s.next \in Int
    BY DEF OrderlyInv, StreamInv, TypeOK
  <2>3. Mine' /\ HelloLosses' /\ SilenceLosses' /\ StreamLosses'
    BY <1>5, <2>1, <2>2 DEF vars, LossInv, Mine, HelloLosses, SilenceLosses, StreamLosses
  <2>4. VerdictsHaveCause' /\ NoFalseLoss'
    BY <1>5, VerdictsStay DEF vars, OrderlyInv, StreamInv, TypeOK
  <2> QED
    BY <2>3, <2>4 DEF LossInv
<1> QED
  BY <1>1, <1>2, <1>3, <1>4, <1>5 DEF Next

(* Every silent try, every hello without an answer and every packet        *)
(* missing at the end of a stream has cost the network a packet.           *)
THEOREM LossInvariant == ASSUME ~Delay, MaxDup = 0 PROVE Spec => []LossInv
<1>1. Init => LossInv
  BY InitLossInv
<1>2. OrderlyInv /\ LossInv /\ [Next]_vars => LossInv'
  BY NextLossInv
<1> QED
  BY <1>1, <1>2, OrderlyInvariant, PTL DEF Spec

(* Without delays and duplicates "unsupported" takes the loss of every     *)
(* hello or its answer, and "did not run" a loss in each of two tries.     *)
THEOREM VerdictsAreCaused == ASSUME ~Delay, MaxDup = 0 PROVE Spec => []VerdictsHaveCause
<1>1. LossInv => VerdictsHaveCause
  BY DEF LossInv
<1> QED
  BY <1>1, LossInvariant, PTL

(* Nor is a packet counted as lost that was late behind the first E: no    *)
(* measurement reports more loss than the network caused.                  *)
THEOREM ReportedLossIsReal == ASSUME ~Delay, MaxDup = 0 PROVE Spec => []NoFalseLoss
<1>1. LossInv => NoFalseLoss
  BY DEF LossInv
<1> QED
  BY <1>1, LossInvariant, PTL
=============================================================================
