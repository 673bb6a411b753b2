------------------------------ MODULE HttpTests -------------------------------
(***************************************************************************)
(* The HTTP measurements of one POP, in the order of the runner: the TLS   *)
(* check, download, upload, jitter under load, MTU and clock skew, against *)
(* a POP that may answer late, partly, wrongly, "busy", or not at all.     *)
(* Time is discrete, in half seconds (the interval of the jitter pings),   *)
(* counted from the start of each test; the program reacts to a timer      *)
(* before the next half second begins.                                     *)
(***************************************************************************)
EXTENDS Integers

CONSTANTS
  Timeout,      \* per_test_timeout
  RetryAfters,  \* what a busy POP asks for, in seconds; 0 for nothing usable
  Fallback,     \* the wait when it asks for nothing: 5 s
  MaxAttempts   \* bwMaxAttempts

ASSUME TimesAssumption ==
  /\ Timeout \in Nat \ {0} /\ Fallback \in Nat \ {0} /\ RetryAfters \subseteq Nat
  /\ MaxAttempts \in Nat \ {0}

(* The jitter test is 30 s long, or what a short timeout leaves room for.  *)
Duration ==
  IF Timeout >= 64 THEN 60 ELSE IF Timeout - 4 < 1 THEN 1 ELSE Timeout - 4
LoadEnd  == Duration + 4     \* loadCtx
TestEnd  == Duration + 10    \* jctx
Horizon  == TestEnd + 1      \* a bound: the clock stops here

VARIABLES
  test,       \* the test that runs
  now,        \* the half seconds since it began
  cancelled,  \* the context of the run is cancelled
  xfer,       \* xfer[w]: the call of MeasureDownload or MeasureUpload for w
  ping,       \* the loop of MeasureJitter
  probe       \* the single request of the TLS check, MTU and clock skew

vars == <<test, now, cancelled, xfer, ping, probe>>

Order == [tls |-> "down", down |-> "up", up |-> "jitter", jitter |-> "mtu",
          mtu |-> "skew", skew |-> "over"]
Transfers == {"down", "up", "load"}
TestOf(w) == IF w = "load" THEN "jitter" ELSE w
Deadline(w) == IF w = "load" THEN LoadEnd ELSE Timeout
Times == 0..(Horizon + Timeout)

(* flight counts the half seconds the last attempt took, asked is the      *)
(* instant before which a busy POP wants no other request: both observed.  *)
NoTransfer == [pc |-> "idle", tries |-> 0, start |-> 0, until |-> 0, elapsed |-> 0,
               result |-> "none", flight |-> 0, asked |-> 0]
NoPing  == [pc |-> "idle", pend |-> FALSE, since |-> 0, net |-> "none", last |-> "none"]
NoProbe == [pc |-> "idle", connected |-> FALSE, verified |-> FALSE, root |-> FALSE,
            stamp |-> 0, local |-> 0, flight |-> 0, result |-> "none"]

TypeOK ==
  /\ test \in DOMAIN Order \union {"over"} /\ now \in 0..Horizon
  /\ cancelled \in BOOLEAN
  /\ xfer \in [Transfers ->
       [pc : {"idle", "sent", "body", "drain", "wait", "done"}, tries : 0..MaxAttempts,
        start : 0..Horizon, until : Nat, elapsed : 0..Horizon,
        result : {"none", "good", "failed"}, flight : 0..Horizon, asked : Nat]]
  /\ ping \in [pc : {"idle", "select", "dial", "drain", "done"}, pend : BOOLEAN,
               since : 0..Horizon, net : {"none", "answers", "refuses", "silent"},
               last : {"none", "sample", "drop"}]
  /\ probe \in [pc : {"idle", "dial", "shake", "asked", "stamped", "body", "done"},
                connected : BOOLEAN, verified : BOOLEAN, root : BOOLEAN,
                stamp : 0..Horizon, local : 0..Horizon, flight : 0..Horizon,
                result : {"none", "failed", "blocked", "intercepted", "clean", "pass",
                          "fragmented", "black_hole", "measured"}]

Init ==
  /\ test = "tls" /\ now = 0 /\ cancelled = FALSE
  /\ xfer = [w \in Transfers |-> NoTransfer]
  /\ ping = NoPing /\ probe = NoProbe

-----------------------------------------------------------------------------
(* MeasureDownload and MeasureUpload: w is the download, the upload, or    *)
(* the download that loads the link during the jitter test.                *)

Expired(w) == cancelled \/ now >= Deadline(w)
Set(w, rec) == xfer' = [xfer EXCEPT ![w] = rec]
End(rec, r) == [rec EXCEPT !.pc = "done", !.result = r]
Alone == UNCHANGED <<test, now, cancelled, ping, probe>>

(* Mutant: start is taken once, before the loop.                           *)
SendOldStart(w) ==
  /\ test = TestOf(w) /\ xfer[w].pc = "idle"
  /\ Set(w, IF Expired(w) THEN End(xfer[w], "failed")
              ELSE [xfer[w] EXCEPT !.pc = "sent", !.tries = @ + 1, !.flight = 0,
                                   !.start = IF xfer[w].tries = 0 THEN now ELSE @])
  /\ Alone

(* An attempt, with a start of its own.  On an expired context Do sends    *)
(* nothing.                                                                *)
Send(w) ==
  /\ test = TestOf(w) /\ xfer[w].pc = "idle"
  /\ Set(w, IF Expired(w) THEN End(xfer[w], "failed")
              ELSE [xfer[w] EXCEPT !.pc = "sent", !.tries = @ + 1, !.flight = 0,
                                   !.start = now])
  /\ Alone

(* The headers of a 2xx.  An upload is measured up to here.                *)
AnswerOK(w) ==
  /\ xfer[w].pc = "sent"
  /\ Set(w, IF w = "up"
              THEN [xfer[w] EXCEPT !.pc = "drain", !.elapsed = now - xfer[w].start]
              ELSE [xfer[w] EXCEPT !.pc = "body"])
  /\ Alone

(* Mutant: the seconds of the header are taken for the unit of the clock.  *)
AnswerBusyShort(w) ==
  /\ xfer[w].pc = "sent"
  /\ \E s \in RetryAfters :
       Set(w, [xfer[w] EXCEPT !.pc = "wait", !.asked = now + 2 * s,
                 !.until = now + (IF s = 0 THEN Fallback ELSE s)])
  /\ Alone

(* A 503, and parseRetryAfter.                                             *)
AnswerBusy(w) ==
  /\ xfer[w].pc = "sent"
  /\ \E s \in RetryAfters :
       Set(w, [xfer[w] EXCEPT !.pc = "wait", !.asked = now + 2 * s,
                 !.until = now + (IF s = 0 THEN Fallback ELSE 2 * s)])
  /\ Alone

(* Another status, a broken connection or body, or the context ends.       *)
RequestFails(w) ==
  /\ xfer[w].pc \in {"sent", "body"}
  /\ Set(w, End(xfer[w], "failed"))
  /\ Alone

(* The whole body came: only now is a download measured.                   *)
BodyEnds(w) ==
  /\ xfer[w].pc = "body"
  /\ Set(w, [End(xfer[w], "good") EXCEPT !.elapsed = now - xfer[w].start])
  /\ Alone

(* The body of an upload's answer is discarded, whole or broken.           *)
Drained ==
  /\ xfer["up"].pc = "drain"
  /\ Set("up", End(xfer["up"], "good"))
  /\ Alone

(* waitForRetry, also after the last attempt; when both the timer and the  *)
(* context are ready, select takes either.                                 *)
Waited(w) ==
  /\ xfer[w].pc = "wait" /\ now >= xfer[w].until
  /\ Set(w, IF xfer[w].tries < MaxAttempts THEN [xfer[w] EXCEPT !.pc = "idle"]
                                           ELSE End(xfer[w], "failed"))
  /\ Alone

WaitExpired(w) ==
  /\ xfer[w].pc = "wait" /\ Expired(w)
  /\ Set(w, End(xfer[w], "failed"))
  /\ Alone

(* A step of the program is due before the clock advances.                 *)
Due(w) ==
  /\ test = TestOf(w)
  /\ \/ xfer[w].pc = "idle"
     \/ xfer[w].pc # "done" /\ Expired(w)
     \/ xfer[w].pc = "wait" /\ now >= xfer[w].until

Transfer(w) ==
  \/ Send(w) \/ AnswerOK(w) \/ AnswerBusy(w) \/ RequestFails(w)
  \/ BodyEnds(w) \/ Waited(w) \/ WaitExpired(w)

-----------------------------------------------------------------------------
(* MeasureJitter: pings on a ticker, beside the load. *)

Quiet == UNCHANGED <<test, now, cancelled, xfer, probe>>

PingStart ==
  /\ test = "jitter" /\ ping.pc = "idle"
  /\ ping' = [ping EXCEPT !.pc = "select"]
  /\ Quiet

(* Mutant: the dial inherits the context of the ping window.               *)
DialCutShort == cancelled \/ now >= Duration

(* The context of the dial is that of the whole test, jctx.                *)
DialCut == cancelled \/ now >= TestEnd

(* A tick is received and a ping dialled; what the network will do with it *)
(* is observed.                                                            *)
Dial ==
  /\ ping.pc = "select" /\ ping.pend
  /\ \E net \in {"answers", "refuses", "silent"} :
       ping' = [ping EXCEPT !.pend = FALSE, !.since = now, !.net = net,
                            !.pc = IF DialCut THEN "select" ELSE "dial",
                            !.last = IF DialCut THEN "drop" ELSE "none"]
  /\ Quiet

DialOK ==
  /\ ping.pc = "dial" /\ ping.net = "answers"
  /\ ping' = [ping EXCEPT !.pc = "select", !.last = "sample"]
  /\ Quiet

(* Mutant: the timeout of a dial is longer than the interval.              *)
DialTimedOutLate == now >= ping.since + 2

DialTimedOut == now >= ping.since + 1

DialFails ==
  /\ ping.pc = "dial"
  /\ \/ ping.net = "refuses"
     \/ ping.net = "silent" /\ DialTimedOut
     \/ DialCut
  /\ ping' = [ping EXCEPT !.pc = "select", !.last = "drop"]
  /\ Quiet

(* The end of the window; a tick that is ready as well may be taken first. *)
WindowOver == cancelled \/ now >= Duration
PingsEnd ==
  /\ ping.pc = "select" /\ WindowOver
  /\ ping' = [ping EXCEPT !.pc = "drain"]
  /\ Quiet

(* Mutant: the test does not wait for the load.                            *)
LoadLeft ==
  /\ ping.pc = "drain"
  /\ ping' = [ping EXCEPT !.pc = "done"]
  /\ Quiet

(* Mutant: the end of the load is only told when it succeeded.             *)
LoadDoneGood ==
  /\ ping.pc = "drain" /\ xfer["load"].result = "good"
  /\ ping' = [ping EXCEPT !.pc = "done"]
  /\ Quiet

(* <-loadDone                                                              *)
LoadDone ==
  /\ ping.pc = "drain" /\ xfer["load"].pc = "done"
  /\ ping' = [ping EXCEPT !.pc = "done"]
  /\ Quiet

PingDue ==
  /\ test = "jitter"
  /\ \/ ping.pc = "idle"
     \/ ping.pc = "select" /\ (ping.pend \/ WindowOver)
     \/ ping.pc = "dial" /\ (DialTimedOut \/ DialCut)
     \/ ping.pc = "drain" /\ xfer["load"].pc = "done"

Pings == PingStart \/ Dial \/ DialOK \/ DialFails \/ LoadDone

-----------------------------------------------------------------------------
(* MeasureTLS, MeasureMTU and MeasureClockSkew. *)

Single == {"tls", "mtu", "skew"}
Still == UNCHANGED <<test, now, cancelled, xfer, ping>>
ProbeEnds(rec, r) == probe' = [rec EXCEPT !.pc = "done", !.result = r]

(* On a cancelled context the request fails at once.                       *)
ProbeStart ==
  /\ test \in Single /\ probe.pc = "idle"
  /\ IF cancelled
       THEN ProbeEnds(probe, CASE test = "tls" -> "blocked"
                               [] test = "mtu" -> "black_hole"
                               [] test = "skew" -> "failed")
       ELSE probe' = [probe EXCEPT !.pc = IF test = "tls" THEN "dial" ELSE "asked"]
  /\ Still

TlsConnected ==
  /\ probe.pc = "dial"
  /\ probe' = [probe EXCEPT !.pc = "shake", !.connected = TRUE]
  /\ Still

(* VerifyConnection: does a verified chain end at an expected root.        *)
TlsVerified ==
  /\ test = "tls" /\ probe.pc = "shake"
  /\ \E root \in BOOLEAN :
       probe' = [probe EXCEPT !.pc = "asked", !.verified = TRUE, !.root = root]
  /\ Still

TlsVerdict(p) ==
  CASE ~p.connected -> "blocked"
    [] p.connected /\ p.verified /\ p.root -> "clean"
    [] OTHER -> "intercepted"

(* Any answer, or any error at any point.                                  *)
TlsEnds ==
  /\ test = "tls" /\ probe.pc \in {"dial", "shake", "asked"}
  /\ ProbeEnds(probe, TlsVerdict(probe))
  /\ Still

(* The POP stamps its answer to /preflight/echo-ts, and the client reads   *)
(* its own clock when the headers are there.                               *)
Stamp ==
  /\ test = "skew" /\ probe.pc = "asked"
  /\ probe' = [probe EXCEPT !.pc = "stamped", !.stamp = now]
  /\ Still

Headers ==
  /\ \/ test = "mtu"  /\ probe.pc = "asked"
     \/ test = "skew" /\ probe.pc = "stamped"
  /\ probe' = [probe EXCEPT !.pc = "body", !.local = now]
  /\ Still

(* The skew is the offset of the two clocks plus local - stamp.            *)
SkewMeasured ==
  /\ test = "skew" /\ probe.pc = "body"
  /\ ProbeEnds(probe, "measured")
  /\ Still

SkewFails ==
  /\ test = "skew" /\ probe.pc \in {"asked", "stamped", "body"}
  /\ ProbeEnds(probe, "failed")
  /\ Still

(* By the length of the body, whatever the status; a transport error is    *)
(* a black hole.                                                           *)
MtuEnds ==
  /\ test = "mtu"
  /\ \/ /\ probe.pc = "body"
        /\ \E r \in {"pass", "fragmented", "black_hole"} : ProbeEnds(probe, r)
     \/ probe.pc = "asked" /\ ProbeEnds(probe, "black_hole")
  /\ Still

ProbeDue ==
  /\ test \in Single
  /\ probe.pc = "idle" \/ (probe.pc # "done" /\ (cancelled \/ now >= Timeout))

Probes ==
  \/ ProbeStart \/ TlsConnected \/ TlsVerified \/ TlsEnds \/ Stamp \/ Headers
  \/ SkewMeasured \/ SkewFails \/ MtuEnds

-----------------------------------------------------------------------------
Finished ==
  \/ test \in Single /\ probe.pc = "done"
  \/ test = "jitter" /\ ping.pc = "done"
  \/ test \in {"down", "up"} /\ xfer[test].pc = "done"

(* The runner goes on, also after a cancel: then every call fails at once. *)
NextTest ==
  /\ Finished
  /\ test' = Order[test] /\ now' = 0
  /\ xfer' = [w \in Transfers |-> IF TestOf(w) = test /\ xfer[w].pc = "done"
                                    THEN NoTransfer ELSE xfer[w]]
  /\ ping' = NoPing /\ probe' = NoProbe
  /\ UNCHANGED cancelled

Tick ==
  /\ test # "over" /\ now < Horizon /\ ~Finished
  /\ \A w \in Transfers : ~Due(w)
  /\ ~PingDue /\ ~ProbeDue
  /\ now' = now + 1
  /\ xfer' = [w \in Transfers |->
                IF xfer[w].pc \in {"sent", "body"}
                  THEN [xfer[w] EXCEPT !.flight = @ + 1] ELSE xfer[w]]
  /\ ping' = [ping EXCEPT !.pend = @ \/ ping.pc \in {"select", "dial"}]
  /\ probe' = [probe EXCEPT !.flight = @ + IF probe.pc \in {"asked", "stamped"}
                                             THEN 1 ELSE 0]
  /\ UNCHANGED <<test, cancelled>>

Cancel ==
  /\ test # "over" /\ ~cancelled
  /\ cancelled' = TRUE
  /\ UNCHANGED <<test, now, xfer, ping, probe>>

Next ==
  \/ \E w \in Transfers : Transfer(w)
  \/ Drained \/ Pings \/ PingsEnd \/ Probes \/ NextTest \/ Tick \/ Cancel

Spec == Init /\ [][Next]_vars

(* Time passes; timers, contexts and the program's own steps take effect;  *)
(* select, which chooses at random, does not take the tick for ever.       *)
Fairness ==
  /\ WF_vars(Tick) /\ WF_vars(NextTest) /\ WF_vars(Pings) /\ SF_vars(PingsEnd)
  /\ \A w \in Transfers : WF_vars(Transfer(w) \/ (w = "up" /\ Drained))
  /\ WF_vars(Probes)

FairSpec == Spec /\ Fairness

-----------------------------------------------------------------------------
(* Properties. *)

(* "Only the successful attempt's transfer time counts": no wait and no    *)
(* earlier attempt is in the time the Mbps are computed from, and of an    *)
(* upload not the answer's body; and the clock skew is off by at most the  *)
(* time the headers took to come, however slow the body is.                *)
MeasuredIsFlight ==
  /\ \A w \in Transfers : xfer[w].result = "good" => xfer[w].elapsed = xfer[w].flight
  /\ probe.result = "measured" => probe.local - probe.stamp \in 0..probe.flight

(* A busy POP gets no request before the time it asked for, and at most    *)
(* bwMaxAttempts for one measurement.                                      *)
RetriesAsAsked ==
  \A w \in Transfers : xfer[w].pc = "sent" =>
    xfer[w].start >= xfer[w].asked /\ xfer[w].tries <= MaxAttempts

(* No test outlasts its timeout, whatever the POP asks the client to wait; *)
(* nor does the load of the jitter test.                                   *)
InTime ==
  /\ test \in Single \union {"down", "up"} => now <= Timeout
  /\ test = "jitter" /\ xfer["load"].pc # "done" => now <= LoadEnd

(* One transfer at a time: the load of the jitter test is over before the  *)
(* next test begins, so that no measurement distorts another.              *)
OneTransfer ==
  \A w \in Transfers : xfer[w].pc # "idle" => test = TestOf(w)

(* The types, and that every test keeps to itself, in time and on the link.*)
TestsApart == TypeOK /\ InTime /\ OneTransfer

(* "Counting one phantom dropped packet every run": a ping of the window,  *)
(* the one of its last instant as well, is never counted as dropped when   *)
(* the network answers it, unless the run was cancelled.                   *)
NoPhantomDrop ==
  ping.last = "drop" /\ ping.net = "answers" /\ ping.since <= Duration => cancelled

(* "So a slow dial can't overlap the next tick": every tick of the window  *)
(* gets its ping, none is swallowed by the one before.                     *)
EveryTickPinged == [][ now' = now + 1 /\ ping.pend => WindowOver ]_vars

(* All tests end, whatever the POP does.                                   *)
AllReturn == <>(test = "over")

(* "So the link is saturated for the whole ping phase": the comment of     *)
(* MeasureJitter, which starts one download.                               *)
LoadCoversPings ==
  ping.pc = "dial" /\ now < Duration => xfer["load"].pc \in {"sent", "body"}

(* "Something on the path broke the handshake": the comment of MeasureTLS, *)
(* which says the same of a timeout or a cancel after the connection.      *)
InterceptedHasCause ==
  probe.result = "intercepted" /\ ~probe.verified => ~cancelled /\ now < Timeout
=============================================================================
