------------------------------ MODULE UdpStream ------------------------------
(***************************************************************************)
(* MeasureUDPStream of internal/nettest: the handshake H (hello), C        *)
(* (cookie), S (start) with a beacon, the stream of D packets closed by an *)
(* E, the B (busy) answers, and the two retries: of a busy beacon, and of  *)
(* silence after S.  Packets travel over UDP: they may be lost,            *)
(* duplicated, reordered, and later than any of the client's deadlines.    *)
(***************************************************************************)
EXTENDS Integers, FiniteSets, FiniteSetsExt

CONSTANTS
  MaxAttempts,  \* bwMaxAttempts
  Hellos,       \* hellos of one handshake: timeout / resendEvery
  Packets,      \* data packets of one stream
  MaxLoss,      \* how many packets the network may lose,
  MaxDup,       \* and how many it may deliver twice
  Delay         \* may a deadline pass with packets in flight, or a stream running

ASSUME CountsAssumption ==
  MaxAttempts \in Nat \ {0} /\ Hellos \in Nat \ {0} /\ Packets \in Nat \ {0}
ASSUME NetworkAssumption == MaxLoss \in Nat /\ MaxDup \in Nat /\ Delay \in BOOLEAN

VARIABLES
  phase,     \* where MeasureUDPStream is, or how it ended
  attempt,   \* the attempts of MeasureUDPStream that found the beacon busy
  again,     \* whether this is the second try of an attempt
  try,       \* tries so far: the nonce (and the socket) of the current one
  hellos,    \* hellos sent in this handshake
  got,       \* the sequence numbers received
  total,     \* totalSent of the E packet, 0 without one
  net,       \* the packets in flight
  streams,   \* the streams the beacon is sending
  started,   \* the nonces the beacon ever started a stream for
  speaks,    \* what the beacon does with a hello
  lost, dups \* packets lost and duplicated so far

client  == <<phase, attempt, again, try, hellos, got, total>>
beacon  == <<streams, started, speaks>>
network == <<lost, dups>>
vars == <<phase, attempt, again, try, hellos, got, total, net, streams, started, speaks,
          lost, dups>>

Final == {"ok", "unsupported", "busy", "silent", "failed", "cancelled"}
Phases == {"dial", "hello", "stream", "late", "wait"} \union Final

Packet(type, nonce, k) == [type |-> type, nonce |-> nonce, k |-> k]
ToBeacon == {"H", "S"}
ToClient == {"C", "B", "D", "E", "echo"}

TypeOK ==
  /\ phase \in Phases
  /\ attempt \in 0..MaxAttempts - 1 /\ again \in BOOLEAN
  /\ try \in 0..2 * MaxAttempts
  /\ hellos \in 0..Hellos
  /\ got \subseteq 0..Packets - 1 /\ total \in {0, Packets}
  /\ net \subseteq [type : ToBeacon \union ToClient, nonce : 1..try, k : Nat]
  /\ streams \subseteq [nonce : started, copy : 1..MaxDup + 1, next : 0..Packets]
  /\ started \subseteq 1..try
  /\ speaks \in {"stream", "echo", "nothing"}
  /\ lost \in 0..MaxLoss /\ dups \in 0..MaxDup

Init ==
  /\ phase = "dial" /\ attempt = 0 /\ again = FALSE /\ try = 0 /\ hellos = 0
  /\ got = {} /\ total = 0
  /\ net = {} /\ streams = {} /\ started = {} /\ lost = 0 /\ dups = 0
  /\ speaks \in {"stream", "echo", "nothing"}

-----------------------------------------------------------------------------
(* The client. *)

(* measureStreamOnce up to the first hello: a fresh socket and nonce.      *)
Dial ==
  /\ phase = "dial"
  /\ try' = try + 1
  /\ hellos' = 1 /\ got' = {} /\ total' = 0
  /\ net' = net \union {Packet("H", try', 1)}
  /\ phase' = "hello"
  /\ UNCHANGED <<attempt, again, beacon, network>>

(* The name does not resolve, or there is no socket to be had.             *)
DialFailed ==
  /\ phase = "dial"
  /\ phase' = "failed"
  /\ UNCHANGED <<attempt, again, try, hellos, got, total, net, beacon, network>>

(* A read deadline passes; if nothing is delayed, after all has arrived.   *)
DeadlinePasses == Delay \/ (net = {} /\ streams = {})

ResendHello ==
  /\ phase = "hello" /\ hellos < Hellos /\ DeadlinePasses
  /\ hellos' = hellos + 1
  /\ net' = net \union {Packet("H", try, hellos')}
  /\ UNCHANGED <<phase, attempt, again, try, got, total, beacon, network>>

NoCookie ==
  /\ phase = "hello" /\ hellos = Hellos /\ DeadlinePasses
  /\ phase' = "unsupported"
  /\ UNCHANGED <<attempt, again, try, hellos, got, total, net, beacon, network>>

(* Mutant: the stream is given up while it still runs.                     *)
StreamOverEarly ==
  /\ phase \in {"stream", "late"}
  /\ \/ /\ phase = "late" \/ got # {}
        /\ phase' = "ok"
        /\ UNCHANGED again
     \/ /\ phase = "stream" /\ got = {}
        /\ phase' = IF again THEN "silent" ELSE "dial"
        /\ again' = TRUE
  /\ UNCHANGED <<attempt, try, hellos, got, total, net, beacon, network>>

(* Mutant: silence is not tried again.                                     *)
StreamOverAtOnce ==
  /\ phase \in {"stream", "late"} /\ DeadlinePasses
  /\ \/ /\ phase = "late" \/ got # {}
        /\ phase' = "ok"
        /\ UNCHANGED again
     \/ /\ phase = "stream" /\ got = {}
        /\ phase' = "silent"
        /\ again' = TRUE
  /\ UNCHANGED <<attempt, try, hellos, got, total, net, beacon, network>>

(* Mutant: the read has no deadline: only data end the wait.               *)
StreamOverHeard ==
  /\ phase \in {"stream", "late"} /\ DeadlinePasses /\ (phase = "late" \/ got # {})
  /\ \/ /\ phase = "late" \/ got # {}
        /\ phase' = "ok"
        /\ UNCHANGED again
     \/ /\ phase = "stream" /\ got = {}
        /\ phase' = IF again THEN "silent" ELSE "dial"
        /\ again' = TRUE
  /\ UNCHANGED <<attempt, try, hellos, got, total, net, beacon, network>>

(* The deadline of receiveStream, or the late wait after the first E:      *)
(* a measurement, or silence, which has one more try.                      *)
StreamOver ==
  /\ phase \in {"stream", "late"} /\ DeadlinePasses
  /\ \/ /\ phase = "late" \/ got # {}
        /\ phase' = "ok"
        /\ UNCHANGED again
     \/ /\ phase = "stream" /\ got = {}
        /\ phase' = IF again THEN "silent" ELSE "dial"
        /\ again' = TRUE
  /\ UNCHANGED <<attempt, try, hellos, got, total, net, beacon, network>>

(* busyError: MeasureUDPStream waits retry_after, unless it was its last.  *)
Busy ==
  IF attempt = MaxAttempts - 1
    THEN phase' = "busy" /\ UNCHANGED <<attempt, again>>
    ELSE phase' = "wait" /\ attempt' = attempt + 1 /\ again' = FALSE

RetryAfter ==
  /\ phase = "wait"
  /\ phase' = "dial"
  /\ UNCHANGED <<attempt, again, try, hellos, got, total, net, beacon, network>>

(* Mutant: the nonce of a packet is not compared.                          *)
OursAny(m) == TRUE

(* Only packets with the nonce of this try count.                          *)
Ours(m) == m.nonce = try

(* readStreamCookie: what a reply does before S.  An echo has no nonce.    *)
HelloReply(m) ==
  \/ /\ m.type = "C" /\ Ours(m)
     /\ phase' = "stream"
     /\ UNCHANGED <<attempt, again>>
  \/ /\ m.type = "B" /\ Ours(m)
     /\ Busy
  \/ /\ m.type = "echo"
     /\ phase' = "unsupported"
     /\ UNCHANGED <<attempt, again>>
  \/ /\ m.type # "echo" /\ (m.type \notin {"C", "B"} \/ ~Ours(m))
     /\ UNCHANGED <<phase, attempt, again>>

(* Mutant: the first E ends the stream.                                    *)
StreamPacketNoLate(m) ==
  \/ /\ m.type = "D" /\ Ours(m)
     /\ got' = got \union {m.k}
     /\ UNCHANGED <<phase, attempt, again, total>>
  \/ /\ m.type = "E" /\ Ours(m)
     /\ phase' = "ok" /\ total' = m.k
     /\ UNCHANGED <<attempt, again, got>>
  \/ /\ m.type = "B" /\ Ours(m)
     /\ Busy
     /\ UNCHANGED <<got, total>>
  \/ /\ m.type \notin {"D", "E", "B"} \/ ~Ours(m)
     /\ UNCHANGED <<phase, attempt, again, got, total>>

(* receiveStream: what a packet does after S, and after the first E.       *)
StreamPacket(m) ==
  \/ /\ m.type = "D" /\ Ours(m)
     /\ got' = got \union {m.k}
     /\ UNCHANGED <<phase, attempt, again, total>>
  \/ /\ m.type = "E" /\ Ours(m) /\ phase = "stream"
     /\ phase' = "late" /\ total' = m.k
     /\ UNCHANGED <<attempt, again, got>>
  \/ /\ m.type = "B" /\ Ours(m) /\ phase = "stream"
     /\ Busy
     /\ UNCHANGED <<got, total>>
  \/ /\ \/ m.type \notin {"D", "E", "B"} \/ ~Ours(m)
        \/ m.type \in {"E", "B"} /\ phase = "late"
     /\ UNCHANGED <<phase, attempt, again, got, total>>

-----------------------------------------------------------------------------
(* The network. *)

(* Delivery takes a packet, or leaves a duplicate of it in flight.         *)
Takes(m, answers) ==
  \/ net' = (net \ {m}) \union answers /\ UNCHANGED dups
  \/ dups < MaxDup /\ net' = net \union answers /\ dups' = dups + 1

(* S goes out, once, the moment the cookie is in.                          *)
Receive(m) ==
  /\ m.type \in ToClient
  /\ \/ phase = "hello" /\ HelloReply(m) /\ UNCHANGED <<got, total>>
     \/ phase \in {"stream", "late"} /\ StreamPacket(m)
     \/ phase \notin {"hello", "stream", "late"}      \* the socket is closed
        /\ UNCHANGED <<phase, attempt, again, got, total>>
  /\ Takes(m, IF phase = "hello" /\ phase' = "stream" THEN {Packet("S", try, 0)} ELSE {})
  /\ UNCHANGED <<try, hellos, beacon, lost>>

Lose(m) ==
  /\ lost < MaxLoss
  /\ net' = net \ {m} /\ lost' = lost + 1
  /\ UNCHANGED <<client, beacon, dups>>

(* An ICMP error on the connected socket.                                  *)
Unreachable ==
  /\ speaks = "nothing"
  /\ \/ phase = "hello" /\ phase' \in {"unsupported", "failed"}
     \/ phase \in {"stream", "late"} /\ phase' = "failed"
  /\ UNCHANGED <<attempt, again, try, hellos, got, total, net, beacon, network>>

(* The context is cancelled: the socket closes, the wait ends.             *)
Cancel ==
  /\ phase \notin Final
  /\ phase' = "cancelled"
  /\ UNCHANGED <<attempt, again, try, hellos, got, total, net, beacon, network>>

-----------------------------------------------------------------------------
(* The beacon: stateless before S, and busy whenever its slots are taken.  *)

AnswerHello(m) ==
  /\ m.type = "H"
  /\ \E reply \in CASE speaks = "stream"  -> {"C", "B"}
                    [] speaks = "echo"    -> {"echo"}
                    [] speaks = "nothing" -> {"none"} :
       Takes(m, IF reply = "none" THEN {} ELSE {Packet(reply, m.nonce, m.k)})
  /\ UNCHANGED <<client, beacon, lost>>

(* Every valid S starts a stream of its own if a slot is free.             *)
AnswerStart(m) ==
  /\ m.type = "S"
  /\ \/ /\ Takes(m, {Packet("B", m.nonce, 0)})
        /\ UNCHANGED <<streams, started>>
     \/ \E copy \in 1..MaxDup + 1 :
          /\ \A s \in streams : s.nonce = m.nonce => s.copy # copy
          /\ streams' = streams \union {[nonce |-> m.nonce, copy |-> copy, next |-> 0]}
          /\ started' = started \union {m.nonce}
          /\ Takes(m, {})
  /\ UNCHANGED <<client, speaks, lost>>

SendData(s) ==
  /\ s.next < Packets
  /\ net' = net \union {Packet("D", s.nonce, s.next)}
  /\ streams' = (streams \ {s}) \union {[s EXCEPT !.next = @ + 1]}
  /\ UNCHANGED <<client, started, speaks, network>>

(* The E packets, of which the first to arrive counts.                     *)
SendEnd(s) ==
  /\ s.next = Packets
  /\ net' = net \union {Packet("E", s.nonce, Packets)}
  /\ streams' = streams \ {s}
  /\ UNCHANGED <<client, started, speaks, network>>

-----------------------------------------------------------------------------
Deadlines == Dial \/ ResendHello \/ NoCookie \/ StreamOver \/ RetryAfter
Arrivals  == \E m \in net : Receive(m) \/ AnswerHello(m) \/ AnswerStart(m)
Streaming == \E s \in streams : SendData(s) \/ SendEnd(s)

Next ==
  \/ Deadlines \/ Arrivals \/ Streaming \/ DialFailed \/ Unreachable \/ Cancel
  \/ \E m \in net : Lose(m)

Spec == Init /\ [][Next]_vars

(* Timers fire; what is neither lost nor delayed arrives.                  *)
Fairness == WF_vars(Deadlines) /\ WF_vars(Arrivals) /\ WF_vars(Streaming)

FairSpec == Spec /\ Fairness

-----------------------------------------------------------------------------
(* Properties. *)

(* StreamStats' sent: totalSent, or the highest sequence number seen + 1.  *)
Sent == IF total > 0 THEN total ELSE IF got = {} THEN 0 ELSE Max(got) + 1

(* A measurement is of a stream that the beacon ran for the nonce of this  *)
(* try: nothing of an earlier try, however late, counts.                   *)
MeasuredIsOurs ==
  (phase = "late" \/ got # {}) => try \in started

(* The loss reported is never more than the network lost: packets that are *)
(* reordered behind the first E are not taken for lost ones.               *)
NoFalseLoss == phase = "ok" => Sent - Cardinality(got) <= lost

(* A beacon that speaks the protocol is called unsupported only when each  *)
(* hello of the handshake, or its answer, was lost.                        *)
UnsupportedIsTrue == phase = "unsupported" /\ speaks = "stream" => lost >= Hellos

(* "Stream did not run after 2 tries" takes a loss in each of the two.     *)
SilenceIsTrue == phase = "silent" => lost >= 2

(* A verdict about the beacon has its cause in the network: neither is     *)
(* given because the client resent, waited or retried in the wrong order.  *)
VerdictsHaveCause == UnsupportedIsTrue /\ SilenceIsTrue

(* The beacon never sends the client two streams at a time: S goes out     *)
(* once, and by a second try any stream of the first has ended.            *)
OneStream == \A s, t \in streams : s = t

(* A B means that the beacon started no stream: the comment of             *)
(* receiveStream.  It may as well answer a hello that was sent again.      *)
BusyMeansNoStream == phase \in {"wait", "busy"} => try \notin started

(* MeasureUDPStream returns, whatever the network and the beacon do.       *)
Terminates == <>(phase \in Final)

-----------------------------------------------------------------------------
(* Inductive invariants. *)

(* The tries an attempt may take: one, and a second one after silence.     *)
TryBudget ==
  /\ phase = "dial" => try <= 2 * attempt + (IF again THEN 1 ELSE 0)
  /\ phase \in {"hello", "stream", "late"}
       => try \in 1..2 * attempt + (IF again THEN 2 ELSE 1)
  /\ phase = "wait" => try <= 2 * attempt

(* Every D and E in flight belongs to a stream the beacon started.         *)
FromStarted ==
  \A m \in net :
    /\ m.type = "D" => m.nonce \in started /\ m.k \in 0..Packets - 1
    /\ m.type = "E" => m.nonce \in started /\ m.k = Packets

StreamInv == TypeOK /\ TryBudget /\ FromStarted /\ MeasuredIsOurs

(* Over a network that neither delays nor duplicates, one thing is under   *)
(* way at a time: a packet of the handshake, or the stream.                *)
OneThing ==
  /\ phase \in {"dial", "wait", "busy"} => net = {} /\ streams = {}
  /\ phase = "hello" => streams = {} /\ try \notin started
                           /\ \A m \in net : m.type \notin {"S", "D", "E"}
  /\ \A m \in net : m.type \notin {"D", "E"}
                       => net = {m} /\ streams = {} /\ m.nonce \notin started

OrderlyInv == StreamInv /\ OneThing /\ OneStream /\ BusyMeansNoStream
=============================================================================
