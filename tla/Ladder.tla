------------------------------- MODULE Ladder --------------------------------
(***************************************************************************)
(* RunLadder of internal/nettest: one UDP stream per rate, up to the first *)
(* lossy one, and StreamStats, which sums up the packets of each stream in *)
(* the order they arrived.  How a stream comes about is module UdpStream.  *)
(***************************************************************************)
EXTENDS Integers, Sequences, FiniteSets, FiniteSetsExt

CONSTANTS
  Rates,       \* ladder_mbps
  Packets,     \* data packets the beacon sends at each rate
  LossLimit,   \* loss_limit_pct
  MaxArrivals  \* how many packets may arrive (a bound; duplicates arrive too)

ASSUME LadderAssumption ==
  Rates \in Seq(Nat) /\ LossLimit \in Nat /\ Packets \in Nat \ {0} /\ MaxArrivals \in Nat

VARIABLES
  steps,     \* the steps of the ladder: their statistics
  heard,     \* the arrivals and the E of each step
  clean,     \* MaxCleanMbps
  large,     \* LargePackets: "", "ok" or "dropped"
  done       \* how the ladder ended: "no", "yes", "error"

vars == <<steps, heard, clean, large, done>>

Arrivals == UNION {[1..n -> 0..Packets - 1] : n \in 0..MaxArrivals}

-----------------------------------------------------------------------------
(* StreamStats: one pass over the arrivals. *)

(* Mutant: a packet is compared with the previous one, not the highest.    *)
ScanPrevious(acc, s) ==
  IF s \in acc.seen THEN acc
  ELSE [seen      |-> acc.seen \union {s},
        reordered |-> acc.reordered + (IF acc.seen # {} /\ s < acc.max THEN 1 ELSE 0),
        max       |-> s]

Scan(acc, s) ==
  IF s \in acc.seen THEN acc
  ELSE [seen      |-> acc.seen \union {s},
        reordered |-> acc.reordered + (IF acc.seen # {} /\ s < acc.max THEN 1 ELSE 0),
        max       |-> IF acc.seen = {} \/ s > acc.max THEN s ELSE acc.max]

Unheard == [seen |-> {}, reordered |-> 0, max |-> 0]

(* The pass itself: what is known after the first n arrivals.              *)
Scanned(arrivals) ==
  LET pass[n \in 0..Len(arrivals)] ==
        IF n = 0 THEN Unheard ELSE Scan(pass[n - 1], arrivals[n])
  IN  pass

(* totalSent, or the highest sequence number + 1 when no E arrived.        *)
Total(totalSent, scan) ==
  IF totalSent <= 0 /\ scan.seen # {} THEN scan.max + 1 ELSE totalSent

StreamStats(rate, totalSent, arrivals) ==
  LET scan == Scanned(arrivals)[Len(arrivals)]
      received == Cardinality(scan.seen)
      total == Total(totalSent, scan)
  IN  [mbps |-> rate, sent |-> total, received |-> received,
       lost |-> IF total > received THEN total - received ELSE 0,
       reordered |-> scan.reordered,
       jitter |-> received > 1]        \* whether it is set

(* Mutant: a loss exactly at the limit is one above it.                    *)
LossyAtLimit(st) ==
  IF st.sent > 0 THEN st.lost * 100 >= LossLimit * st.sent ELSE 100 > LossLimit

(* LossPct against the limit; no packets at all count as 100.              *)
Lossy(st) ==
  IF st.sent > 0 THEN st.lost * 100 > LossLimit * st.sent ELSE 100 > LossLimit

-----------------------------------------------------------------------------
Init ==
  /\ steps = <<>> /\ heard = <<>>
  /\ clean = 0 /\ large = "" /\ done = "no"

Rung == Len(steps) + 1

(* A stream that ran: its E arrived, or some data did.                     *)
StepRuns ==
  /\ done = "no" /\ Rung <= Len(Rates)
  /\ \E arrivals \in Arrivals, end \in BOOLEAN :
       LET anyData == arrivals # <<>>
           st == StreamStats(Rates[Rung], IF end THEN Packets ELSE 0, arrivals)
           stop == ~anyData \/ Lossy(st)
       IN  /\ end \/ anyData
           /\ steps' = Append(steps, st)
           /\ heard' = Append(heard, [arrivals |-> arrivals, end |-> end])
           /\ large' = IF Rung = 1 THEN (IF anyData THEN "ok" ELSE "dropped") ELSE large
           /\ clean' = IF stop THEN clean ELSE Rates[Rung]
           /\ done' = IF stop THEN "yes" ELSE "no"

(* An error of a step ends the ladder; the steps before it are kept.       *)
StepFails ==
  /\ done = "no" /\ Rung <= Len(Rates)
  /\ done' = "error"
  /\ UNCHANGED <<steps, heard, clean, large>>

LadderEnds ==
  /\ done = "no" /\ Rung > Len(Rates)
  /\ done' = "yes"
  /\ UNCHANGED <<steps, heard, clean, large>>

Next == StepRuns \/ StepFails \/ LadderEnds

Spec == Init /\ [][Next]_vars

-----------------------------------------------------------------------------
(* Properties. *)

(* What each statistic means, said over the whole list of arrivals: the    *)
(* distinct packets, and those whose first arrival follows a later one.    *)
First(a, i) == \A j \in 1..i - 1 : a[j] # a[i]
Overtaken(a, i) == First(a, i) /\ \E j \in 1..i - 1 : a[j] > a[i]

StatsMeanWhatTheySay ==
  \A k \in DOMAIN steps :
    LET a == heard[k].arrivals
        distinct == {a[i] : i \in DOMAIN a}
        sent == IF heard[k].end THEN Packets ELSE Max(distinct) + 1
    IN  /\ steps[k].received = Cardinality(distinct)
        /\ steps[k].reordered = Cardinality({i \in DOMAIN a : Overtaken(a, i)})
        /\ steps[k].sent = sent
        /\ steps[k].lost = Cardinality((0..sent - 1) \ distinct)

(* Data came, and no more of it was lost than the limit allows.            *)
CleanStep(st) == st.received > 0 /\ st.lost * 100 <= LossLimit * st.sent

(* The clean rate is the highest one of the ladder that ran, with every    *)
(* rate below it, "at or under the limit": a loss exactly at the limit is  *)
(* clean.  No stream runs above a rate that was lossy, and large packets   *)
(* are called dropped exactly if the first stream ran without a data       *)
(* packet.                                                                 *)
CleanIsHighest ==
  LET good == {k \in DOMAIN steps : \A j \in 1..k : CleanStep(steps[j])}
  IN  /\ clean = IF good = {} THEN 0 ELSE Max({steps[k].mbps : k \in good})
      /\ \A k \in 1..Len(steps) - 1 : k \in good
      /\ large = IF steps = <<>> THEN "" ELSE IF steps[1].received = 0 THEN "dropped" ELSE "ok"
=============================================================================
