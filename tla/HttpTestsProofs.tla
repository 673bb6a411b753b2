--------------------------- MODULE HttpTestsProofs ---------------------------
(***************************************************************************)
(* Theorems about HttpTests, for every timeout, every fallback, every set  *)
(* of Retry-After values and every number of attempts.                     *)
(***************************************************************************)
EXTENDS HttpTests, TLAPS

USE TimesAssumption

-----------------------------------------------------------------------------
(* The inductive invariant, a part for each variable. *)

(* The call x of MeasureDownload or MeasureUpload for w: only the test w   *)
(* belongs to has touched it; while it is on its way its flight is the     *)
(* time since its start; and what a busy POP asked for is over when it is  *)
(* idle again.                                                             *)
CallOK(w, x) ==
  /\ test # TestOf(w) => x = NoTransfer
  /\ x.pc = "idle" => x.tries < MaxAttempts /\ x.asked <= now
  /\ x.pc = "wait" => x.asked <= x.until
  /\ x.pc \in {"sent", "body"} => x.start <= now /\ x.flight = now - x.start
  /\ x.pc = "sent" => x.asked <= x.start
  /\ x.pc = "drain" => x.elapsed = x.flight
  /\ x.result = "good" => x.pc = "done" /\ x.elapsed = x.flight

(* A dial is over within the interval, so that a tick that waits for it    *)
(* came after it and its context does not end first; and the loop has ended only with its window, the test only with its load.   *)
PingOK ==
  /\ ping.pc # "idle" => test = "jitter"
  /\ ping.pc = "idle" => ~ping.pend
  /\ ping.pc = "dial" =>
       now \in ping.since..ping.since + 1 /\ (ping.pend => ping.since < now)
  /\ ping.pc \in {"drain", "done"} => WindowOver
  /\ ping.pc = "done" => xfer["load"].pc = "done"

(* The flight of a request is at least the time since its stamp.           *)
ProbeOK ==
  /\ probe.flight <= now
  /\ probe.pc = "stamped" => probe.stamp <= now /\ now - probe.stamp <= probe.flight
  /\ probe.pc = "body" /\ test = "skew" => probe.local - probe.stamp \in 0..probe.flight
  /\ probe.result = "measured" =>
       probe.pc = "done" /\ probe.local - probe.stamp \in 0..probe.flight

TestsInv ==
  /\ TypeOK /\ InTime
  /\ \A w \in Transfers : CallOK(w, xfer[w])
  /\ PingOK /\ NoPhantomDrop
  /\ ProbeOK

-----------------------------------------------------------------------------
(* The sets of TypeOK. *)

Calls ==
  [pc : {"idle", "sent", "body", "drain", "wait", "done"}, tries : 0..MaxAttempts,
   start : 0..Horizon, until : Nat, elapsed : 0..Horizon,
   result : {"none", "good", "failed"}, flight : 0..Horizon, asked : Nat]

LEMMA DurationType == Duration \in Nat \ {0}
  BY DEF Duration

LEMMA HorizonType == Horizon \in Nat \ {0} /\ TestEnd \in Nat /\ LoadEnd \in Nat
  BY DurationType DEF Horizon, TestEnd, LoadEnd

PingLoops ==
  [pc : {"idle", "select", "dial", "drain", "done"}, pend : BOOLEAN, since : 0..Horizon,
   net : {"none", "answers", "refuses", "silent"}, last : {"none", "sample", "drop"}]

Requests ==
  [pc : {"idle", "dial", "shake", "asked", "stamped", "body", "done"},
   connected : BOOLEAN, verified : BOOLEAN, root : BOOLEAN,
   stamp : 0..Horizon, local : 0..Horizon, flight : 0..Horizon,
   result : {"none", "failed", "blocked", "intercepted", "clean", "pass",
             "fragmented", "black_hole", "measured"}]

LEMMA OrderDomain ==
  DOMAIN Order = {"tls", "down", "up", "jitter", "mtu", "skew"}
  BY DEF Order

LEMMA NoTransferType == NoTransfer \in Calls
  BY HorizonType DEF NoTransfer, Calls

LEMMA RequestTypes ==
  ASSUME NEW x \in Requests
  PROVE  /\ \A p \in {"dial", "asked"} : [x EXCEPT !.pc = p] \in Requests
         /\ \A r \in {"failed", "blocked", "black_hole", "measured"} :
              [x EXCEPT !.pc = "done", !.result = r] \in Requests
  BY DEF Requests

LEMMA NoneTypes == NoPing \in PingLoops /\ NoProbe \in Requests
<1>1. 0 \in 0..Horizon
  BY HorizonType
<1> HIDE DEF Horizon
<1> QED
  BY <1>1 DEF NoPing, NoProbe, PingLoops, Requests

LEMMA SentType ==
  ASSUME NEW x \in Calls, NEW n \in 0..MaxAttempts, NEW t \in 0..Horizon
  PROVE  [x EXCEPT !.pc = "sent", !.tries = n, !.flight = 0, !.start = t] \in Calls
<1>1. 0 \in 0..Horizon
  BY HorizonType
<1> HIDE DEF Horizon
<1> QED
  BY <1>1 DEF Calls

LEMMA WaitType ==
  ASSUME NEW x \in Calls, NEW a \in Nat, NEW u \in Nat
  PROVE  [x EXCEPT !.pc = "wait", !.asked = a, !.until = u] \in Calls
  BY DEF Calls

LEMMA ClockType ==
  ASSUME NEW p \in Requests, NEW t \in 0..Horizon
  PROVE  /\ [p EXCEPT !.pc = "stamped", !.stamp = t] \in Requests
         /\ [p EXCEPT !.pc = "body", !.local = t] \in Requests
<1> HIDE DEF Horizon
<1> QED
  BY DEF Requests

LEMMA AgedType ==
  ASSUME NEW t \in 0..Horizon
  PROVE  /\ \A x \in Calls : /\ [x EXCEPT !.flight = t] \in Calls
                            /\ [x EXCEPT !.flight = t].pc = x.pc
         /\ \A p \in Requests : [p EXCEPT !.flight = t] \in Requests
<1> HIDE DEF Horizon
<1>1. \A x \in Calls : [x EXCEPT !.flight = t] \in Calls /\ [x EXCEPT !.flight = t].pc = x.pc
  BY DEF Calls
<1>2. \A p \in Requests : [p EXCEPT !.flight = t] \in Requests
  BY DEF Requests
<1> QED
  BY <1>1, <1>2

LEMMA InitTestsInv == Init => TestsInv
<1> SUFFICES ASSUME Init PROVE TestsInv
  OBVIOUS
<1>1. TypeOK
  <2>1. test \in DOMAIN Order \union {"over"}
    BY OrderDomain DEF Init
  <2>2. xfer \in [Transfers -> Calls]
    BY NoTransferType DEF Init
  <2>3. 0 \in 0..Horizon
    BY HorizonType
  <2>4. ping \in PingLoops /\ probe \in Requests
    BY NoneTypes DEF Init
  <2> QED
    BY <2>1, <2>2, <2>3, <2>4 DEF TypeOK, Calls, PingLoops, Requests, Init
<1>2. InTime
  BY HorizonType DEF Init, InTime
<1>3. ASSUME NEW w \in Transfers PROVE CallOK(w, xfer[w])
  BY DEF Init, CallOK, NoTransfer
<1>4. PingOK /\ NoPhantomDrop
  BY DEF Init, PingOK, NoPhantomDrop, NoPing
<1>5. ProbeOK
  BY DEF Init, ProbeOK, NoProbe
<1> QED
  BY <1>1, <1>2, <1>3, <1>4, <1>5 DEF TestsInv

-----------------------------------------------------------------------------
(* The steps of a transfer. *)

(* A step of w that makes its call x: the other calls, the pings and the   *)
(* probe stay as they are.                                                 *)
LEMMA SetKeeps ==
  ASSUME TestsInv, NEW w \in Transfers, NEW x \in Calls,
         Set(w, x), Alone, xfer[w].pc # "done", CallOK(w, x)
  PROVE  TestsInv'
<1>1. xfer' = [xfer EXCEPT ![w] = x] /\ UNCHANGED <<test, now, cancelled, ping, probe>>
  BY DEF Set, Alone
<1>2. xfer \in [Transfers -> Calls]
  BY DEF TestsInv, TypeOK, Calls
<1>3. TypeOK'
  <2>1. xfer' \in [Transfers -> Calls]
    BY <1>1, <1>2
  <2> QED
    BY <1>1, <2>1 DEF TestsInv, TypeOK, Calls
<1>4. InTime'
  BY <1>1, <1>2 DEF TestsInv, InTime, Transfers
<1>5. ASSUME NEW v \in Transfers PROVE CallOK(v, xfer[v])'
  <2>1. xfer'[v] = IF v = w THEN x ELSE xfer[v]
    BY <1>1, <1>2
  <2>2. CallOK(v, xfer'[v])
    BY <2>1 DEF TestsInv
  <2> QED
    BY <1>1, <2>2 DEF CallOK
<1>6. PingOK'
  BY <1>1, <1>2 DEF TestsInv, PingOK, WindowOver
<1>7. NoPhantomDrop' /\ ProbeOK'
  BY <1>1 DEF TestsInv, NoPhantomDrop, ProbeOK
<1> QED
  BY <1>3, <1>4, <1>5, <1>6, <1>7 DEF TestsInv

(* What is known of a call in progress.                                    *)
LEMMA CallFacts ==
  ASSUME TestsInv, NEW w \in Transfers
  PROVE  /\ xfer[w] \in Calls /\ CallOK(w, xfer[w])
         /\ now \in 0..Horizon
         /\ xfer[w].pc # "idle" => test = TestOf(w)
  BY DEF TestsInv, TypeOK, Calls, CallOK, NoTransfer

LEMMA TransferKeeps ==
  ASSUME TestsInv, NEW w \in Transfers, Transfer(w) PROVE TestsInv'
<1> DEFINE x == xfer[w]
<1>1. /\ x \in Calls /\ CallOK(w, x) /\ now \in 0..Horizon
      /\ x.pc # "idle" => test = TestOf(w)
  BY CallFacts
<1>2. CASE Send(w)
  <2> DEFINE y == IF Expired(w) THEN End(x, "failed")
                  ELSE [x EXCEPT !.pc = "sent", !.tries = @ + 1, !.flight = 0, !.start = now]
  <2>1. x.tries + 1 \in 0..MaxAttempts /\ x.asked <= now
    BY <1>1, <1>2 DEF Send, CallOK, Calls
  <2>2. y \in Calls
    <3>1. End(x, "failed") \in Calls
      BY <1>1 DEF Calls, End
    <3>2. [x EXCEPT !.pc = "sent", !.tries = x.tries + 1, !.flight = 0, !.start = now] \in Calls
      BY <1>1, <2>1, SentType
    <3> QED
      BY <3>1, <3>2
  <2>3. CallOK(w, y)
    BY <1>1, <1>2, <2>1, HorizonType DEF CallOK, Calls, End, Send
  <2> QED
    BY <1>2, <2>2, <2>3, SetKeeps DEF Send
<1>3. CASE AnswerOK(w)
  <2> DEFINE y == IF w = "up" THEN [x EXCEPT !.pc = "drain", !.elapsed = now - x.start]
                  ELSE [x EXCEPT !.pc = "body"]
  <2>1. x.flight = now - x.start /\ x.result # "good"
    BY <1>1, <1>3 DEF AnswerOK, CallOK
  <2>2. y \in Calls
    <3>1. now - x.start \in 0..Horizon
      BY <1>1, <2>1 DEF Calls
    <3>2. [x EXCEPT !.pc = "drain", !.elapsed = now - x.start] \in Calls
      BY <1>1, <3>1 DEF Calls
    <3>3. [x EXCEPT !.pc = "body"] \in Calls
      BY <1>1 DEF Calls
    <3> QED
      BY <3>2, <3>3
  <2>3. CallOK(w, y)
    BY <1>1, <1>3, <2>1 DEF CallOK, Calls, AnswerOK
  <2> QED
    BY <1>3, <2>2, <2>3, SetKeeps DEF AnswerOK
<1>4. CASE AnswerBusy(w)
  <2>1. PICK s \in RetryAfters :
          Set(w, [x EXCEPT !.pc = "wait", !.asked = now + 2 * s,
                           !.until = now + (IF s = 0 THEN Fallback ELSE 2 * s)])
    BY <1>4 DEF AnswerBusy
  <2> DEFINE y == [x EXCEPT !.pc = "wait", !.asked = now + 2 * s,
                            !.until = now + (IF s = 0 THEN Fallback ELSE 2 * s)]
  <2>2. y \in Calls
    <3>1. now + 2 * s \in Nat /\ now + (IF s = 0 THEN Fallback ELSE 2 * s) \in Nat
      BY <1>1, HorizonType
    <3> QED
      BY <1>1, <3>1, WaitType
  <2>3. CallOK(w, y)
    BY <1>1, <1>4, HorizonType DEF CallOK, Calls, AnswerBusy
  <2> QED
    BY <1>4, <2>1, <2>2, <2>3, SetKeeps DEF AnswerBusy
<1>5. CASE RequestFails(w) \/ WaitExpired(w)
  <2>1. End(x, "failed") \in Calls /\ CallOK(w, End(x, "failed"))
    BY <1>1, <1>5 DEF Calls, CallOK, End, RequestFails, WaitExpired
  <2> QED
    BY <1>5, <2>1, SetKeeps DEF RequestFails, WaitExpired
<1>6. CASE BodyEnds(w)
  <2> DEFINE y == [End(x, "good") EXCEPT !.elapsed = now - x.start]
  <2>1. x.flight = now - x.start
    BY <1>1, <1>6 DEF BodyEnds, CallOK
  <2>2. y \in Calls /\ CallOK(w, y)
    BY <1>1, <1>6, <2>1 DEF Calls, CallOK, End, BodyEnds
  <2> QED
    BY <1>6, <2>2, SetKeeps DEF BodyEnds
<1>7. CASE Waited(w)
  <2> DEFINE y == IF x.tries < MaxAttempts THEN [x EXCEPT !.pc = "idle"]
                  ELSE End(x, "failed")
  <2>1. y \in Calls
    BY <1>1 DEF Calls, End
  <2>2. CallOK(w, y)
    BY <1>1, <1>7 DEF CallOK, Calls, End, Waited
  <2> QED
    BY <1>7, <2>1, <2>2, SetKeeps DEF Waited
<1> QED
  BY <1>2, <1>3, <1>4, <1>5, <1>6, <1>7 DEF Transfer

LEMMA DrainedKeeps == ASSUME TestsInv, Drained PROVE TestsInv'
<1> DEFINE x == xfer["up"]
<1>1. "up" \in Transfers
  BY DEF Transfers
<1>2. x \in Calls /\ CallOK("up", x) /\ test = TestOf("up")
  BY <1>1, CallFacts DEF Drained
<1>3. End(x, "good") \in Calls /\ CallOK("up", End(x, "good"))
  BY <1>2 DEF Calls, CallOK, End, Drained
<1> QED
  BY <1>1, <1>3, SetKeeps DEF Drained

-----------------------------------------------------------------------------
(* The steps of the ping loop. *)

LEMMA QuietKeeps ==
  ASSUME TestsInv, Quiet, ping' \in PingLoops, PingOK', NoPhantomDrop'
  PROVE  TestsInv'
<1>1. TypeOK' /\ InTime' /\ ProbeOK'
  BY DEF TestsInv, Quiet, TypeOK, PingLoops, InTime, ProbeOK
<1>2. ASSUME NEW w \in Transfers PROVE CallOK(w, xfer[w])'
  BY DEF TestsInv, Quiet, CallOK
<1> QED
  BY <1>1, <1>2 DEF TestsInv

LEMMA PingsKeep == ASSUME TestsInv, Pings \/ PingsEnd PROVE TestsInv'
<1>1. ping \in PingLoops /\ PingOK /\ NoPhantomDrop /\ now \in 0..Horizon
  BY DEF TestsInv, TypeOK, PingLoops
<1>2. Quiet
  BY DEF Pings, PingStart, Dial, DialOK, DialFails, LoadDone, PingsEnd
<1>3. CASE PingStart
  <2>1. ping' \in PingLoops /\ PingOK' /\ NoPhantomDrop'
    BY <1>1, <1>2, <1>3 DEF PingStart, PingLoops, PingOK, NoPhantomDrop, Quiet
  <2> QED
    BY <1>2, <2>1, QuietKeeps
<1>4. CASE Dial
  <2>1. PICK net \in {"answers", "refuses", "silent"} :
          ping' = [ping EXCEPT !.pend = FALSE, !.since = now, !.net = net,
                               !.pc = IF DialCut THEN "select" ELSE "dial",
                               !.last = IF DialCut THEN "drop" ELSE "none"]
    BY <1>4 DEF Dial
  <2>2. ping' \in PingLoops
    BY <1>1, <2>1 DEF PingLoops
  <2>3. PingOK'
    BY <1>1, <1>2, <1>4, <2>1 DEF Dial, PingLoops, PingOK, Quiet
  <2>4. NoPhantomDrop'
    <3>1. DialCut => cancelled \/ now > Duration
      BY <1>1, DurationType DEF DialCut, TestEnd
    <3>2. ping'.since = now /\ (ping'.last = "drop" => DialCut)
      BY <1>1, <2>1 DEF PingLoops
    <3> QED
      BY <1>1, <1>2, <3>1, <3>2, DurationType DEF NoPhantomDrop, Quiet
  <2> QED
    BY <1>2, <2>2, <2>3, <2>4, QuietKeeps
<1>5. CASE DialOK
  <2>1. ping' \in PingLoops /\ PingOK' /\ NoPhantomDrop'
    BY <1>1, <1>2, <1>5 DEF DialOK, PingLoops, PingOK, NoPhantomDrop, Quiet
  <2> QED
    BY <1>2, <2>1, QuietKeeps
<1>6. CASE DialFails
  <2>1. ping' \in PingLoops /\ PingOK'
    BY <1>1, <1>2, <1>6 DEF DialFails, PingLoops, PingOK, Quiet
  <2>2. NoPhantomDrop'
    <3>1. ping'.net = ping.net /\ ping'.since = ping.since /\ ping.since \in 0..Horizon
      BY <1>1, <1>6 DEF DialFails, PingLoops
    <3>2. ping.pc = "dial" /\ now <= ping.since + 1
      BY <1>1, <1>6, <3>1, HorizonType DEF DialFails, PingOK
    <3>3. ping.net = "answers" => cancelled \/ now >= Duration + 10
      BY <1>6 DEF DialFails, DialCut, TestEnd
    <3> QED
      BY <1>1, <1>2, <3>1, <3>2, <3>3, DurationType, HorizonType DEF NoPhantomDrop, Quiet
  <2> QED
    BY <1>2, <2>1, <2>2, QuietKeeps
<1>7. CASE LoadDone \/ PingsEnd
  <2>1. ping' \in PingLoops /\ NoPhantomDrop'
    BY <1>1, <1>2, <1>7 DEF LoadDone, PingsEnd, PingLoops, NoPhantomDrop, Quiet
  <2>2. PingOK'
    BY <1>1, <1>2, <1>7 DEF LoadDone, PingsEnd, PingLoops, PingOK, WindowOver, Quiet
  <2> QED
    BY <1>2, <2>1, <2>2, QuietKeeps
<1> QED
  BY <1>3, <1>4, <1>5, <1>6, <1>7 DEF Pings

-----------------------------------------------------------------------------
(* The steps of the single requests. *)

LEMMA StillKeeps ==
  ASSUME TestsInv, Still, probe' \in Requests, ProbeOK'
  PROVE  TestsInv'
<1>1. TypeOK' /\ InTime' /\ NoPhantomDrop'
  BY DEF TestsInv, Still, TypeOK, Requests, InTime, NoPhantomDrop
<1>2. PingOK'
  BY DEF TestsInv, Still, PingOK, WindowOver
<1>3. ASSUME NEW w \in Transfers PROVE CallOK(w, xfer[w])'
  BY DEF TestsInv, Still, CallOK
<1> QED
  BY <1>1, <1>2, <1>3 DEF TestsInv

LEMMA ProbesKeep == ASSUME TestsInv, Probes PROVE TestsInv'
<1>1. probe \in Requests /\ ProbeOK /\ now \in 0..Horizon
  BY DEF TestsInv, TypeOK, Requests
<1>2. Still
  BY DEF Probes, ProbeStart, TlsConnected, TlsVerified, TlsEnds, Stamp, Headers,
         SkewMeasured, SkewFails, MtuEnds
<1>3. CASE ProbeStart
  <2>1. \/ probe' = [probe EXCEPT !.pc = "done", !.result = "blocked"]
        \/ probe' = [probe EXCEPT !.pc = "done", !.result = "black_hole"]
        \/ probe' = [probe EXCEPT !.pc = "done", !.result = "failed"]
        \/ probe' = [probe EXCEPT !.pc = "dial"]
        \/ probe' = [probe EXCEPT !.pc = "asked"]
    BY <1>3 DEF ProbeStart, ProbeEnds, Single
  <2>2. probe' \in Requests
    BY <1>1, <2>1, RequestTypes
  <2>3. /\ probe'.pc \in {"done", "dial", "asked"} /\ probe'.flight = probe.flight
        /\ probe'.result # "measured"
    BY <1>1, <1>3, <2>1 DEF ProbeStart, Requests, ProbeOK
  <2>4. ProbeOK'
    BY <1>1, <1>2, <2>3 DEF ProbeOK, Still
  <2> QED
    BY <1>2, <2>2, <2>4, StillKeeps
<1>4. CASE TlsConnected
  <2>1. probe' \in Requests /\ ProbeOK'
    BY <1>1, <1>2, <1>4 DEF TlsConnected, Requests, ProbeOK, Still
  <2> QED
    BY <1>2, <2>1, StillKeeps
<1>5. CASE TlsVerified
  <2>1. probe' \in Requests /\ ProbeOK'
    BY <1>1, <1>2, <1>5 DEF TlsVerified, Requests, ProbeOK, Still
  <2> QED
    BY <1>2, <2>1, StillKeeps
<1>6. CASE TlsEnds
  <2>1. TlsVerdict(probe) \in {"blocked", "clean", "intercepted"}
    BY DEF TlsVerdict
  <2>2. probe' \in Requests /\ ProbeOK'
    BY <1>1, <1>2, <1>6, <2>1 DEF TlsEnds, ProbeEnds, Requests, ProbeOK, Still
  <2> QED
    BY <1>2, <2>2, StillKeeps
<1>7. CASE Stamp
  <2>1. probe' = [probe EXCEPT !.pc = "stamped", !.stamp = now] /\ now' = now
    BY <1>2, <1>7 DEF Stamp, Still
  <2>2. probe' \in Requests
    BY <1>1, <2>1, ClockType
  <2>3. /\ probe'.pc = "stamped" /\ probe'.stamp = now
        /\ probe'.flight = probe.flight /\ probe.flight \in Nat
        /\ probe'.local = probe.local /\ probe'.result = probe.result
    BY <1>1, <2>1 DEF Requests
  <2>4. probe.result # "measured"
    BY <1>1, <1>7 DEF Stamp, ProbeOK
  <2>5. ProbeOK'
    BY <1>1, <2>1, <2>3, <2>4 DEF ProbeOK
  <2> QED
    BY <1>2, <2>2, <2>5, StillKeeps
<1>8. CASE Headers
  <2>1. /\ probe' = [probe EXCEPT !.pc = "body", !.local = now]
        /\ now' = now /\ test' = test
        /\ test = "skew" => probe.pc = "stamped"
    BY <1>2, <1>8 DEF Headers, Still
  <2>2. probe' \in Requests
    BY <1>1, <2>1, ClockType
  <2>3. /\ probe'.pc = "body" /\ probe'.local = now /\ probe.stamp \in Nat
        /\ probe'.flight = probe.flight /\ probe.flight \in Nat
        /\ probe'.stamp = probe.stamp /\ probe'.result = probe.result
    BY <1>1, <2>1 DEF Requests
  <2>4. probe.result # "measured"
    BY <1>1, <1>8 DEF Headers, ProbeOK
  <2>5. ProbeOK'
    BY <1>1, <2>1, <2>3, <2>4 DEF ProbeOK
  <2> QED
    BY <1>2, <2>2, <2>5, StillKeeps
<1>9. CASE SkewMeasured \/ SkewFails
  <2>1. probe' \in Requests
    BY <1>1, <1>9, RequestTypes DEF SkewMeasured, SkewFails, ProbeEnds
  <2>2. ProbeOK'
    BY <1>1, <1>2, <1>9 DEF SkewMeasured, SkewFails, ProbeEnds, Requests, ProbeOK, Still
  <2> QED
    BY <1>2, <2>1, <2>2, StillKeeps
<1>10. CASE MtuEnds
  <2>1. PICK r \in {"pass", "fragmented", "black_hole"} : ProbeEnds(probe, r)
    BY <1>10 DEF MtuEnds
  <2>2. probe' \in Requests
    BY <1>1, <2>1 DEF ProbeEnds, Requests
  <2>3. ProbeOK'
    BY <1>1, <1>2, <2>1 DEF ProbeEnds, Requests, ProbeOK, Still
  <2> QED
    BY <1>2, <2>2, <2>3, StillKeeps
<1> QED
  BY <1>3, <1>4, <1>5, <1>6, <1>7, <1>8, <1>9, <1>10 DEF Probes

-----------------------------------------------------------------------------
(* The next test, the clock, and a cancel. *)

(* When a test is over, its transfer has returned, and no other was begun. *)
LEMMA NextTestKeeps == ASSUME TestsInv, NextTest PROVE TestsInv'
<1>1. /\ now' = 0 /\ ping' = NoPing /\ probe' = NoProbe /\ cancelled' = cancelled
      /\ test' = Order[test] /\ Finished
      /\ xfer' = [w \in Transfers |-> IF TestOf(w) = test /\ xfer[w].pc = "done"
                                        THEN NoTransfer ELSE xfer[w]]
  BY DEF NextTest
<1>2. /\ test' \in {"down", "up", "jitter", "mtu", "skew", "over"}
      /\ test' # test
  BY <1>1 DEF Finished, Single, Order
<1>3. ASSUME NEW w \in Transfers PROVE xfer'[w] = NoTransfer
  <2>1. TestOf(w) = test => xfer[w].pc = "done"
    BY <1>1 DEF TestsInv, PingOK, Finished, Single, TestOf, Transfers
  <2> QED
    BY <1>1, <2>1 DEF TestsInv, CallOK
<1>4. 0 \in 0..Horizon /\ 0 <= Timeout /\ 0 <= LoadEnd
  BY HorizonType
<1>5. TypeOK'
  <2>1. test' \in DOMAIN Order \union {"over"}
    BY <1>2, OrderDomain
  <2>2. xfer' \in [Transfers -> Calls]
    BY <1>1, <1>3, NoTransferType
  <2> QED
    BY <1>1, <1>4, <2>1, <2>2, NoneTypes DEF TestsInv, TypeOK, Calls, PingLoops, Requests
<1>6. InTime'
  BY <1>1, <1>4 DEF InTime
<1>7. ASSUME NEW w \in Transfers PROVE CallOK(w, xfer[w])'
  BY <1>1, <1>3 DEF CallOK, NoTransfer
<1>8. PingOK' /\ NoPhantomDrop'
  BY <1>1 DEF PingOK, NoPhantomDrop, NoPing
<1>9. ProbeOK'
  BY <1>1 DEF ProbeOK, NoProbe
<1> QED
  BY <1>5, <1>6, <1>7, <1>8, <1>9 DEF TestsInv

(* Time passes only when nothing is due: so no test is past its deadline,  *)
(* and a transfer that is on its way ages with the clock.                  *)
LEMMA TickKeeps == ASSUME TestsInv, Tick PROVE TestsInv'
<1>0. now' = now + 1 /\ now \in Nat /\ test' = test
  BY HorizonType DEF Tick, TestsInv, TypeOK
<1>1. /\ now' = now + 1 /\ now \in 0..Horizon /\ now' \in 0..Horizon
      /\ test' = test /\ cancelled' = cancelled
      /\ xfer' = [w \in Transfers |->
                     IF xfer[w].pc \in {"sent", "body"}
                       THEN [xfer[w] EXCEPT !.flight = @ + 1] ELSE xfer[w]]
      /\ ping' = [ping EXCEPT !.pend = @ \/ ping.pc \in {"select", "dial"}]
      /\ probe' = [probe EXCEPT !.flight = @ + IF probe.pc \in {"asked", "stamped"}
                                                 THEN 1 ELSE 0]
  BY HorizonType DEF Tick, TestsInv, TypeOK
<1>2. /\ ~Finished /\ ~PingDue /\ ~ProbeDue /\ test # "over"
      /\ \A w \in Transfers : ~Due(w)
  BY DEF Tick
<1>3. ASSUME NEW w \in Transfers
      PROVE  /\ xfer'[w] \in Calls
             /\ CallOK(w, xfer[w])'
             /\ xfer'[w].pc = xfer[w].pc
  <2>1. xfer[w] \in Calls /\ CallOK(w, xfer[w])
    BY CallFacts
  <2>2. CASE xfer[w].pc \in {"sent", "body"}
    <3>1. xfer'[w] = [xfer[w] EXCEPT !.flight = xfer[w].flight + 1]
      BY <1>1, <2>2
    <3>2. xfer[w].start <= now /\ xfer[w].flight = now - xfer[w].start
      BY <2>1, <2>2 DEF CallOK
    <3>3. xfer[w].flight + 1 \in 0..Horizon
      <4>1. xfer[w].start \in Nat
        BY <2>1 DEF Calls
      <4> QED
        BY <1>1, <3>2, <4>1, HorizonType
    <3>4. xfer'[w] \in Calls /\ xfer'[w].pc = xfer[w].pc
      BY <2>1, <3>1, <3>3, AgedType
    <3>5. CallOK(w, xfer[w])'
      <4>1. /\ xfer'[w].pc = xfer[w].pc /\ xfer'[w].start = xfer[w].start
            /\ xfer'[w].asked = xfer[w].asked /\ xfer'[w].result = xfer[w].result
            /\ xfer'[w].flight = xfer[w].flight + 1 /\ xfer[w].start \in Nat
        BY <2>1, <3>1 DEF Calls
      <4>2. test = TestOf(w) /\ xfer[w].result # "good"
        BY <2>1, <2>2 DEF CallOK, NoTransfer
      <4> QED
        BY <1>0, <2>1, <2>2, <3>2, <4>1, <4>2 DEF CallOK
    <3> QED
      BY <3>4, <3>5
  <2>3. CASE xfer[w].pc \notin {"sent", "body"}
    <3>1. xfer'[w] = xfer[w]
      BY <1>1, <2>3
    <3> QED
      BY <1>1, <2>1, <2>3, <3>1 DEF CallOK, Calls
  <2> QED
    BY <2>2, <2>3
<1>4. TypeOK'
  <2>1. ping' \in PingLoops
    BY <1>1 DEF TestsInv, TypeOK, PingLoops
  <2>2. probe' \in Requests
    <3> DEFINE aged == probe.flight + IF probe.pc \in {"asked", "stamped"} THEN 1 ELSE 0
    <3>1. probe \in Requests /\ probe.flight <= now /\ probe.flight \in Nat
      BY DEF TestsInv, TypeOK, Requests, ProbeOK
    <3>2. aged \in 0..Horizon
      BY <1>1, <3>1, HorizonType
    <3>3. probe' = [probe EXCEPT !.flight = aged]
      BY <1>1
    <3> QED
      BY <3>1, <3>2, <3>3, AgedType
  <2>3. xfer' \in [Transfers -> Calls]
    BY <1>1, <1>3
  <2> QED
    BY <1>1, <2>1, <2>2, <2>3 DEF TestsInv, TypeOK, Calls, PingLoops, Requests
<1>5. InTime'
  <2>1. test \in Single => now < Timeout
    BY <1>1, <1>2 DEF Finished, ProbeDue
  <2>2. test \in {"down", "up"} => now < Timeout
    <3>1. ASSUME test \in {"down", "up"} PROVE now < Timeout
      <4>1. test \in Transfers /\ TestOf(test) = test /\ Deadline(test) = Timeout
        BY <3>1 DEF Transfers, TestOf, Deadline
      <4> QED
        BY <1>1, <1>2, <3>1, <4>1 DEF Finished, Due, Expired
    <3> QED
      BY <3>1
  <2>3. test = "jitter" /\ xfer["load"].pc # "done" => now < LoadEnd
    <3>1. "load" \in Transfers /\ TestOf("load") = "jitter" /\ Deadline("load") = LoadEnd
      BY DEF Transfers, TestOf, Deadline
    <3> QED
      BY <1>1, <1>2, <3>1, HorizonType DEF Due, Expired
  <2>4. xfer'["load"].pc = xfer["load"].pc
    BY <1>3 DEF Transfers
  <2> QED
    BY <1>1, <2>1, <2>2, <2>3, <2>4, HorizonType DEF InTime
<1>6. PingOK'
  <2>1. ping \in PingLoops /\ PingOK
    BY DEF TestsInv, TypeOK, PingLoops
  <2>2. xfer'["load"].pc = xfer["load"].pc
    BY <1>3 DEF Transfers
  <2>3. WindowOver => WindowOver'
    BY <1>1, DurationType DEF WindowOver
  <2>4. ping'.pc = ping.pc /\ ping'.since = ping.since
    BY <1>1, <2>1 DEF PingLoops
  <2>5. ping.pc = "idle" => ~ping'.pend
    BY <1>1, <2>1 DEF PingLoops, PingOK
  <2>6. ping.pc = "dial" => now = ping.since
    <3>1. ping.pc = "dial" => test = "jitter" /\ ~DialTimedOut
      BY <1>1, <1>2, <2>1 DEF PingDue, PingOK
    <3>2. ping.since \in Nat
      BY <2>1, HorizonType DEF PingLoops
    <3> QED
      BY <1>0, <2>1, <3>1, <3>2 DEF DialTimedOut, PingOK
  <2>7. ping'.pc = "dial" => now' = ping'.since + 1
    BY <1>1, <2>4, <2>6
  <2>8. ping.since \in Nat
    BY <2>1, HorizonType DEF PingLoops
  <2> QED
    BY <1>0, <1>1, <2>1, <2>2, <2>3, <2>4, <2>5, <2>7, <2>8 DEF PingOK, PingLoops
<1>7. NoPhantomDrop'
  <2>1. ping \in PingLoops /\ NoPhantomDrop
    BY DEF TestsInv, TypeOK, PingLoops
  <2>2. ping'.last = ping.last /\ ping'.net = ping.net
    BY <1>1, <2>1 DEF PingLoops
  <2> QED
    BY <1>1, <2>1, <2>2, HorizonType DEF NoPhantomDrop
<1>8. ProbeOK'
  BY <1>1 DEF TestsInv, TypeOK, ProbeOK
<1> QED
  BY <1>3, <1>4, <1>5, <1>6, <1>7, <1>8 DEF TestsInv

LEMMA CancelKeeps == ASSUME TestsInv, Cancel PROVE TestsInv'
<1>1. cancelled' = TRUE /\ UNCHANGED <<test, now, xfer, ping, probe>>
  BY DEF Cancel
<1>2. TypeOK' /\ InTime' /\ ProbeOK' /\ NoPhantomDrop'
  BY <1>1 DEF TestsInv, TypeOK, InTime, ProbeOK, NoPhantomDrop
<1>3. PingOK'
  BY <1>1 DEF TestsInv, PingOK, WindowOver
<1>4. ASSUME NEW w \in Transfers PROVE CallOK(w, xfer[w])'
  BY <1>1 DEF TestsInv, CallOK
<1> QED
  BY <1>2, <1>3, <1>4 DEF TestsInv

-----------------------------------------------------------------------------
(* The theorems. *)

(* The inductive invariant of the tests of a POP: what is known of the     *)
(* call, the ping and the request that are on their way.                   *)
THEOREM TestsInvariant == Spec => []TestsInv
<1>1. TestsInv /\ [Next]_vars => TestsInv'
  <2> SUFFICES ASSUME TestsInv, [Next]_vars PROVE TestsInv'
    OBVIOUS
  <2>1. ASSUME NEW w \in Transfers, Transfer(w) PROVE TestsInv'
    BY <2>1, TransferKeeps
  <2>2. CASE UNCHANGED vars
    BY <2>2 DEF vars, TestsInv, TypeOK, InTime, CallOK, PingOK, WindowOver,
                NoPhantomDrop, ProbeOK
  <2> QED
    BY <2>1, <2>2, DrainedKeeps, PingsKeep, ProbesKeep, NextTestKeeps, TickKeeps,
       CancelKeeps DEF Next
<1> QED
  BY <1>1, InitTestsInv, PTL DEF Spec

(* What a report says a transfer or a request took is what it took: the    *)
(* timing of measureDownloadOnce, measureUploadOnce and MeasureClockSkew.  *)
THEOREM TimesAreTrue == Spec => []MeasuredIsFlight
<1>1. TestsInv => MeasuredIsFlight
  BY DEF TestsInv, CallOK, ProbeOK, MeasuredIsFlight
<1> QED
  BY <1>1, TestsInvariant, PTL

(* A busy POP is asked again when it wanted to be, and not too often: the  *)
(* loops of MeasureDownload and MeasureUpload.                             *)
THEOREM RetriesRespectPOP == Spec => []RetriesAsAsked
<1>1. TestsInv => RetriesAsAsked
  BY DEF TestsInv, TypeOK, CallOK, RetriesAsAsked
<1> QED
  BY <1>1, TestsInvariant, PTL

(* The tests of a POP end in time and keep to themselves: the contexts of  *)
(* FullPOP and the wait for the load at the end of MeasureJitter.          *)
THEOREM TestsStayApart == Spec => []TestsApart
<1>1. TestsInv => TestsApart
  BY DEF TestsInv, CallOK, NoTransfer, TestsApart, OneTransfer
<1> QED
  BY <1>1, TestsInvariant, PTL

(* No ping that the network answered is counted as lost: the context of    *)
(* the dials of MeasureJitter.                                             *)
THEOREM DropsAreReal == Spec => []NoPhantomDrop
<1>1. TestsInv => NoPhantomDrop
  BY DEF TestsInv
<1> QED
  BY <1>1, TestsInvariant, PTL

(* No tick of the window goes without a ping: the timeout of a dial of     *)
(* MeasureJitter is the interval.                                          *)
THEOREM NoTickSwallowed == Spec => EveryTickPinged
<1>1. TestsInv /\ [Next]_vars => [now' = now + 1 /\ ping.pend => WindowOver]_vars
  <2> SUFFICES ASSUME TestsInv, Next, now' = now + 1, ping.pend PROVE WindowOver
    BY DEF vars
  <2>1. now \in 0..Horizon /\ ping \in PingLoops /\ PingOK
    BY DEF TestsInv, TypeOK, PingLoops
  <2>2. Tick
    <3>1. now' # now /\ now' # 0
      BY <2>1
    <3>2. ASSUME NEW w \in Transfers PROVE ~Transfer(w) /\ ~Drained
      BY <3>1 DEF Transfer, Send, AnswerOK, AnswerBusy, RequestFails, BodyEnds, Waited,
                  WaitExpired, Drained, Alone
    <3>3. ~Pings /\ ~PingsEnd
      BY <3>1 DEF Pings, PingStart, Dial, DialOK, DialFails, LoadDone, PingsEnd, Quiet
    <3>4. ~Probes
      BY <3>1 DEF Probes, ProbeStart, TlsConnected, TlsVerified, TlsEnds, Stamp, Headers,
                  SkewMeasured, SkewFails, MtuEnds, Still
    <3>5. ~NextTest /\ ~Cancel
      BY <3>1 DEF NextTest, Cancel
    <3>6. "up" \in Transfers
      BY DEF Transfers
    <3> QED
      BY <3>2, <3>3, <3>4, <3>5, <3>6 DEF Next
  <2>3. ~PingDue
    BY <2>2 DEF Tick
  <2>4. CASE ping.pc = "dial"
    BY <2>1, <2>3, <2>4 DEF PingDue, PingOK, PingLoops, DialTimedOut
  <2>5. CASE ping.pc # "dial"
    BY <2>1, <2>3, <2>5 DEF PingDue, PingOK, PingLoops
  <2> QED
    BY <2>4, <2>5
<1> QED
  BY <1>1, TestsInvariant, PTL DEF Spec, EveryTickPinged
=============================================================================
