------------------------------- MODULE Runner --------------------------------
(***************************************************************************)
(* RunAll of internal/nettest: the quick check of every POP at once, the   *)
(* choice of the POPs that get the full tests, FullPOP on one of them at a *)
(* time, and the rows these emit, through a bounded channel that drops     *)
(* what does not fit and the forwarder of wizard.App, to the running       *)
(* screen.                                                                 *)
(***************************************************************************)
EXTENDS Integers, Sequences, FiniteSets, Functions

CONSTANTS
  POPs,         \* how many POPs the configuration lists: 1..POPs, by id
  Medians,      \* the median latencies a quick check may measure
  MaxLatency,   \* full_test_max_latency_ms
  Limits,       \* the values full_test_max_pops may have
  Echoes,       \* the POPs whose beacon echoes UDP (udp_echo)
  Cap,          \* the capacity of the progress channel; 0 for a nil channel
  Breakable,    \* the tests that may fail (a bound: any may)
  Shown         \* the tests whose rows are followed (a bound: all have one)

ASSUME POPsAssumption == POPs \in Nat
ASSUME MediansAssumption == Medians \subseteq Nat
ASSUME LimitsAssumption ==
  MaxLatency \in Nat /\ Limits \subseteq Nat \ {0} /\ Cap \in Nat

Ids == 1..POPs
ASSUME EchoesAssumption == Echoes \subseteq Ids

(* The rows of FullPOP, in order; the first two only repeat quick results. *)
FullTests == <<"tcp_8443", "udp_8443", "latency", "throughput_down", "throughput_up",
               "jitter", "mtu", "udp_stream_4172", "udp_stream_8443", "clock_skew">>
Repeated == {"tcp_8443", "udp_8443"}
Tests == {FullTests[k] : k \in DOMAIN FullTests}
Measured == Tests \ Repeated
ASSUME ShownAssumption == Shown \subseteq Tests \union {"quick"}
(* What an errors entry may name: QuickPOP adds a kind without a row (and   *)
(* an entry for a failed DNS lookup, which concerns nothing here).         *)
Blamed == Measured \union {"udp_4172"}

VARIABLES
  maxPOPs,    \* full_test_max_pops of this run
  quick,      \* quick[i]: how far QuickPOP of POP i is
  lat,        \* lat[i]: its median latency, 0 when not measured
  reach,      \* reach[i]: the UDP ports that answered the echo
  stage,      \* where runPOPs is
  chosen,     \* the POPs selected for the full tests, nearest first
  far,        \* the POPs whose quick row is still to be looked at
  at,         \* [n, t]: test t of the n-th chosen POP
  begun,      \* whether that test has started
  value,      \* value[i][t]: the field of the report, "nil", "good" or "bad"
  errs,       \* errs[i]: the tests with an errors entry
  chan,       \* the progress channel
  row,        \* row[i][t]: the state of a row of the running screen
  lost,       \* <<i, t>>: the last event of this row was dropped (observed)
  cancelled   \* the context of the run is cancelled

phases == <<maxPOPs, quick, lat, reach, stage, chosen, far, at, begun>>
results == <<value, errs>>
events == <<chan, lost>>
vars == <<maxPOPs, quick, lat, reach, stage, chosen, far, at, begun, value, errs,
          chan, row, lost, cancelled>>

RowState == {"none", "start", "done", "failed"}
Rows == Ids \X Shown
Row(i, t, s) == [pop |-> i, test |-> t, state |-> s]
Events == [pop : Ids, test : Tests \union {"quick"}, state : RowState \ {"none"}]

TypeOK ==
  /\ maxPOPs \in Limits
  /\ quick \in [Ids -> {"new", "latency", "ports", "done"}]
  /\ lat \in [Ids -> Medians \union {0}]
  /\ reach \in [Ids -> SUBSET {"4172", "8443"}]
  /\ stage \in {"locate", "quick", "far", "full", "over"}
  /\ chosen \in Seq(Ids) /\ far \subseteq Ids
  /\ at \in [n : Nat, t : 1..Len(FullTests)] /\ begun \in BOOLEAN
  /\ value \in [Ids -> [Measured -> {"nil", "good", "bad"}]]
  /\ errs \in [Ids -> SUBSET Blamed]
  /\ chan \in Seq(Events) /\ Len(chan) <= Cap
  /\ row \in [Rows -> RowState]
  /\ lost \subseteq Rows
  /\ cancelled \in BOOLEAN

Init ==
  /\ maxPOPs \in Limits
  /\ quick = [i \in Ids |-> "new"]
  /\ lat = [i \in Ids |-> 0]
  /\ reach = [i \in Ids |-> {}]
  /\ stage = "locate" /\ chosen = <<>> /\ far = {}
  /\ at = [n |-> 1, t |-> 1] /\ begun = FALSE
  /\ value = [i \in Ids |-> [t \in Measured |-> "nil"]]
  /\ errs = [i \in Ids |-> {}]
  /\ chan = <<>>
  /\ row = [r \in Rows |-> "none"]
  /\ lost = {}
  /\ cancelled = FALSE

-----------------------------------------------------------------------------
(* Mutant: emit waits for room in the channel.                             *)
EmitBlocking(i, t, s) ==
  /\ Len(chan) < Cap
  /\ chan' = Append(chan, Row(i, t, s))
  /\ lost' = lost \ {<<i, t>>}

(* emit never blocks: what does not fit in the channel is dropped.         *)
Emit(i, t, s) ==
  IF Len(chan) < Cap
    THEN chan' = Append(chan, Row(i, t, s)) /\ lost' = lost \ {<<i, t>>}
    ELSE lost' = lost \union ({<<i, t>>} \intersect Rows) /\ UNCHANGED chan

(* The forwarder of wizard.App, and applyProgress of main.js.              *)
Forward ==
  /\ chan # <<>>
  /\ chan' = Tail(chan)
  /\ LET e == Head(chan)
     IN  row' = [r \in Rows |-> IF r = <<e.pop, e.test>> THEN e.state ELSE row[r]]
  /\ UNCHANGED <<phases, results, lost, cancelled>>

Cancel ==
  /\ stage # "over"
  /\ cancelled' = TRUE
  /\ UNCHANGED <<phases, results, events, row>>

-----------------------------------------------------------------------------
(* Whoami and LookupClientGeo come first; a failure of theirs only leaves  *)
(* the address and the place unset.                                        *)
Locate ==
  /\ stage = "locate"
  /\ stage' = "quick"
  /\ UNCHANGED <<maxPOPs, quick, lat, reach, chosen, far, at, begun, results,
                 events, row, cancelled>>

-----------------------------------------------------------------------------
(* Phase 1: QuickPOP of every POP at once. *)

QuickStart(i) ==
  /\ stage = "quick" /\ quick[i] = "new"
  /\ quick' = [quick EXCEPT ![i] = "latency"]
  /\ Emit(i, "quick", "start")
  /\ UNCHANGED <<maxPOPs, lat, reach, stage, chosen, far, at, begun, results,
                 row, cancelled>>

QuickLatency(i) ==
  /\ quick[i] = "latency"
  /\ quick' = [quick EXCEPT ![i] = "ports"]
  /\ \/ /\ ~cancelled
        /\ \E ms \in Medians : lat' = [lat EXCEPT ![i] = ms]
        /\ value' = [value EXCEPT ![i]["latency"] = "good"]
        /\ Emit(i, "quick", "done")
        /\ UNCHANGED errs
     \/ /\ errs' = [errs EXCEPT ![i] = @ \union {"latency"}]
        /\ Emit(i, "quick", "failed")
        /\ UNCHANGED <<lat, value>>
  /\ UNCHANGED <<maxPOPs, reach, stage, chosen, far, at, begun, row, cancelled>>

(* The TCP, UDP and DNS checks; the last goroutine ends the phase.  A      *)
(* blocked UDP 4172 is an error, any other blocked port only a result.     *)
QuickPorts(i) ==
  /\ quick[i] = "ports"
  /\ quick' = [quick EXCEPT ![i] = "done"]
  /\ \E ports \in IF i \in Echoes THEN SUBSET {"4172", "8443"} ELSE {{}} :
       /\ reach' = [reach EXCEPT ![i] = ports]
       /\ errs' = [errs EXCEPT ![i] = @ \union
                     IF i \in Echoes /\ "4172" \notin ports THEN {"udp_4172"} ELSE {}]
  /\ UNCHANGED <<maxPOPs, lat, stage, chosen, far, at, begun, value, events,
                 row, cancelled>>

-----------------------------------------------------------------------------
(* SelectFullPOPs. *)

Candidates == {i \in Ids : "latency" \notin errs[i] /\ lat[i] > 0}

(* The sort: by median, ties by id.                                        *)
Before(i, j) == lat[i] < lat[j] \/ (lat[i] = lat[j] /\ i < j)
Rank(i, S) == Cardinality({j \in S : Before(j, i)}) + 1

(* Mutant: the limit applies to the nearest POP too.                       *)
SelectFullPOPsNear ==
  LET near == {i \in Candidates : lat[i] < MaxLatency}
      n == Cardinality(near)
  IN  [k \in 1..(IF n < maxPOPs THEN n ELSE maxPOPs) |->
         CHOOSE i \in near : Rank(i, near) = k]

(* The nearest always, the others below the limit, maxPOPs at most.        *)
SelectFullPOPs ==
  LET near == {i \in Candidates : Rank(i, Candidates) = 1 \/ lat[i] < MaxLatency}
      n == Cardinality(near)
  IN  [k \in 1..(IF n < maxPOPs THEN n ELSE maxPOPs) |->
         CHOOSE i \in near : Rank(i, near) = k]

(* Mutant: phase 2 does not wait for every quick check.                    *)
SelectEarly ==
  /\ stage = "quick"
  /\ \E i \in Ids : quick[i] = "done"
  /\ chosen' = SelectFullPOPs
  /\ far' = {i \in Ids : i \notin Range(chosen') /\ "latency" \notin errs[i]}
  /\ stage' = "far"
  /\ UNCHANGED <<maxPOPs, quick, lat, reach, at, begun, results, events, row,
                 cancelled>>

(* Mutant: "quick check only" also for POPs without a latency.             *)
SelectFailed ==
  /\ stage = "quick"
  /\ \A i \in Ids : quick[i] = "done"
  /\ chosen' = SelectFullPOPs
  /\ far' = Ids \ Range(chosen')
  /\ stage' = "far"
  /\ UNCHANGED <<maxPOPs, quick, lat, reach, at, begun, results, events, row,
                 cancelled>>

Select ==
  /\ stage = "quick"
  /\ \A i \in Ids : quick[i] = "done"           \* wg.Wait
  /\ chosen' = SelectFullPOPs
  /\ far' = {i \in Ids : i \notin Range(chosen') /\ "latency" \notin errs[i]}
  /\ stage' = "far"
  /\ UNCHANGED <<maxPOPs, quick, lat, reach, at, begun, results, events, row,
                 cancelled>>

(* "quick check only", in the order of the POPs.                           *)
FarRow ==
  /\ stage = "far" /\ far # {}
  /\ LET i == CHOOSE i \in far : \A j \in far : i <= j
     IN  far' = far \ {i} /\ Emit(i, "quick", "done")
  /\ UNCHANGED <<maxPOPs, quick, lat, reach, stage, chosen, at, begun, results,
                 row, cancelled>>

FarDone ==
  /\ stage = "far" /\ far = {}
  /\ stage' = IF chosen = <<>> THEN "over" ELSE "full"
  /\ UNCHANGED <<maxPOPs, quick, lat, reach, chosen, far, at, begun, results,
                 events, row, cancelled>>

-----------------------------------------------------------------------------
(* Phase 2: FullPOP, nearest first. *)

pop  == chosen[at.n]
test == FullTests[at.t]

(* A stream runs only on a port that answered; only the nearest POP        *)
(* measures clock skew.                                                    *)
Runs(t) ==
  CASE t = "udp_stream_4172" -> "4172" \in reach[pop]
    [] t = "udp_stream_8443" -> "8443" \in reach[pop]
    [] t = "clock_skew"      -> at.n = 1
    [] OTHER                 -> TRUE

Advance ==
  /\ begun' = FALSE
  /\ at' = IF at.t < Len(FullTests) THEN [at EXCEPT !.t = @ + 1]
                                    ELSE [n |-> at.n + 1, t |-> 1]
  /\ stage' = IF at.t = Len(FullTests) /\ at.n = Len(chosen) THEN "over" ELSE stage

FullSkip ==
  /\ stage = "full" /\ ~Runs(test)
  /\ Advance
  /\ UNCHANGED <<maxPOPs, quick, lat, reach, chosen, far, results, events, row,
                 cancelled>>

FullRepeat ==
  /\ stage = "full" /\ test \in Repeated
  /\ Emit(pop, test, "done")
  /\ Advance
  /\ UNCHANGED <<maxPOPs, quick, lat, reach, chosen, far, results, row,
                 cancelled>>

FullStart ==
  /\ stage = "full" /\ test \in Measured /\ Runs(test) /\ ~begun
  /\ Emit(pop, test, "start")
  /\ begun' = TRUE
  /\ UNCHANGED <<maxPOPs, quick, lat, reach, stage, chosen, far, at, results,
                 row, cancelled>>

(* What a test leaves: the field, and whether it returned an error.        *)
(* MeasureJitter has no error, also when no ping was answered; MeasureMTU  *)
(* has none for a transport error; a ladder keeps the steps before one.    *)
Outcome(v, e) == [field |-> v, error |-> e]
Failures(t) ==
  CASE t = "jitter"  -> {Outcome("bad", FALSE)}
    [] t = "mtu"     -> {Outcome("bad", FALSE), Outcome("bad", TRUE)}
    [] t = "latency" -> {Outcome(value[pop][t], TRUE)}
    [] t = "udp_stream_8443" -> {Outcome("nil", TRUE), Outcome("good", TRUE)}
    [] OTHER         -> {Outcome("nil", TRUE)}
Outcomes(t) ==
  (IF cancelled THEN {} ELSE {Outcome("good", FALSE)}) \union
  (IF cancelled \/ t \in Breakable THEN Failures(t) ELSE {})

(* Mutant: a test that failed emits no row.                                *)
FullEndSilent ==
  /\ stage = "full" /\ begun
  /\ \E o \in Outcomes(test) :
       /\ value' = [value EXCEPT ![pop][test] = o.field]
       /\ errs' = [errs EXCEPT ![pop] = IF o.error THEN @ \union {test} ELSE @]
       /\ IF o.error THEN UNCHANGED events ELSE Emit(pop, test, "done")
  /\ Advance
  /\ UNCHANGED <<maxPOPs, quick, lat, reach, chosen, far, row, cancelled>>

(* Mutant: the errors entry of a failed test is forgotten.                 *)
FullEndNoError ==
  /\ stage = "full" /\ begun
  /\ \E o \in Outcomes(test) :
       /\ value' = [value EXCEPT ![pop][test] = o.field]
       /\ Emit(pop, test, IF o.error THEN "failed" ELSE "done")
  /\ Advance
  /\ UNCHANGED <<maxPOPs, quick, lat, reach, chosen, far, errs, row, cancelled>>

FullEnd ==
  /\ stage = "full" /\ begun
  /\ \E o \in Outcomes(test) :
       /\ value' = [value EXCEPT ![pop][test] = o.field]
       /\ errs' = [errs EXCEPT ![pop] = IF o.error THEN @ \union {test} ELSE @]
       /\ Emit(pop, test, IF o.error THEN "failed" ELSE "done")
  /\ Advance
  /\ UNCHANGED <<maxPOPs, quick, lat, reach, chosen, far, row, cancelled>>

-----------------------------------------------------------------------------
QuickPOP(i) == QuickStart(i) \/ QuickLatency(i) \/ QuickPorts(i)
FullPOP == FullSkip \/ FullRepeat \/ FullStart \/ FullEnd

Next ==
  \/ Locate \/ \E i \in Ids : QuickPOP(i)
  \/ Select \/ FarRow \/ FarDone \/ FullPOP \/ Forward \/ Cancel

Spec == Init /\ [][Next]_vars

(* The goroutines of the run advance, and every test has a timeout; Whoami *)
(* has none and ends for certain only when the run is cancelled.  The      *)
(* forwarder, which hands events to the window, is not promised to run.    *)
Fairness ==
  /\ WF_vars(cancelled /\ Locate)
  /\ \A i \in Ids : WF_vars(QuickPOP(i))
  /\ WF_vars(Select \/ FarRow \/ FarDone \/ FullPOP)

FairSpec == Spec /\ Fairness

-----------------------------------------------------------------------------
(* Properties. *)

(* When the run is over and its events are forwarded, a row agrees with    *)
(* the report, unless its last event was dropped: no test is still shown   *)
(* as running, and a row failed exactly when the report blames the test.   *)
RowsSettle ==
  stage = "over" /\ chan = <<>> => \A i \in Ids, t \in Shown :
    <<i, t>> \notin lost =>
      /\ row[<<i, t>>] # "start"
      /\ row[<<i, t>>] = "failed" <=>
           /\ t # "quick" <=> i \in Range(chosen)
           /\ (IF t = "quick" THEN "latency" ELSE t) \in errs[i]

(* The running screen never shows two full tests in progress, or one       *)
(* beside a quick check: they would distort each other.  Only a dropped    *)
(* event leaves an old test on the screen.                                 *)
OneTestShown ==
  \A r, q \in Rows :
    /\ row[r] = "start" /\ r \notin lost
    /\ row[q] = "start" /\ q \notin lost
    => r = q \/ (r[2] = "quick" /\ q[2] = "quick")

(* A quick row that failed is never turned into "done".                    *)
FailedRowStays ==
  [][ \A i \in Ids : <<i, "quick">> \in Rows /\ row[<<i, "quick">>] = "failed"
                     => row'[<<i, "quick">>] = "failed" ]_vars

(* The nearest measured POP is always chosen, nearest first; any other     *)
(* choice is below the limit, and one below it is left out only for room.  *)
SelectionSound ==
  stage \in {"far", "full", "over"} =>
    /\ Len(chosen) <= maxPOPs
    /\ \A k, l \in DOMAIN chosen : k < l => Before(chosen[k], chosen[l])
    /\ \A k \in DOMAIN chosen : k > 1 => lat[chosen[k]] < MaxLatency
    /\ \A i \in {j \in Ids : lat[j] > 0} \ Range(chosen) :
         /\ chosen # <<>>
         /\ \A k \in DOMAIN chosen : Before(chosen[k], i)
         /\ lat[i] < MaxLatency => Len(chosen) = maxPOPs

(* The types, and the choice of the POPs.                                  *)
RunnerInv == TypeOK /\ SelectionSound

(* At the end every field a chosen POP lacks is explained in the report:   *)
(* by an errors entry of the test, for a stream by its port, which is an   *)
(* entry for 4172 and a blocked dot for 8443, or by its not being the      *)
(* nearest.                                                                *)
GapsExplained ==
  stage = "over" => \A k \in DOMAIN chosen, t \in Measured :
    value[chosen[k]][t] = "nil" =>
      \/ t \in errs[chosen[k]]
      \/ /\ t = "udp_stream_4172"
         /\ "udp_4172" \in errs[chosen[k]] \/ chosen[k] \notin Echoes
      \/ t = "udp_stream_8443" /\ "8443" \notin reach[chosen[k]]
      \/ t = "clock_skew" /\ k > 1

(* "A field is set only when its measurement worked": the comment of       *)
(* FullPOP, for the jitter field.                                          *)
JitterIsMeasured == \A i \in Ids : value[i]["jitter"] # "bad"

(* "The error field on the POPResult captures the specific cause": the     *)
(* comment of MeasureMTU about a black hole.                               *)
BlackHoleHasCause ==
  stage = "over" => \A i \in Ids : value[i]["mtu"] = "bad" => "mtu" \in errs[i]

(* RunAll returns, unless Whoami hangs and nobody cancels, even if the     *)
(* window takes no event.                                                  *)
RunAllReturns == <>(stage = "over") \/ []<>(stage = "locate" /\ ~cancelled)
=============================================================================
