----------------------------- MODULE RunnerProofs -----------------------------
(***************************************************************************)
(* Theorems about Runner, for every list of POPs, capacity of the progress *)
(* channel and limits of the selection: what the report holds, which POPs  *)
(* get the full tests, and what the rows of the running screen show.       *)
(***************************************************************************)
EXTENDS Runner, FiniteSetTheorems, WellFoundedInduction, TLAPS

-----------------------------------------------------------------------------
(* The inductive invariant: the control of runPOPs. *)

Done(k, j) == k < at.n \/ (k = at.n /\ j < at.t)

Control ==
  /\ stage = "locate" => \A i \in Ids : quick[i] = "new"
  /\ stage \in {"far", "full", "over"} => \A i \in Ids : quick[i] = "done"
  /\ stage \in {"locate", "quick"} => chosen = <<>>
  /\ stage # "far" => far = {}
  /\ stage \in {"locate", "quick", "far"} => at = [n |-> 1, t |-> 1] /\ ~begun
  /\ stage = "full" => at.n \in DOMAIN chosen
  /\ stage = "over" => \A k \in DOMAIN chosen : k < at.n
  /\ begun => stage = "full" /\ test \in Measured /\ Runs(test)

(* What a quick check leaves in the report, before the full tests.         *)
QuickOK ==
  \A i \in Ids :
    /\ quick[i] \in {"new", "latency"} => errs[i] = {} /\ lat[i] = 0
    /\ stage \in {"locate", "quick", "far"} =>
         errs[i] \subseteq {"latency", "udp_4172"} /\ ("latency" \in errs[i] => lat[i] = 0)
    /\ quick[i] = "done" /\ i \in Echoes /\ "4172" \notin reach[i] => "udp_4172" \in errs[i]
    /\ i \in far => "latency" \notin errs[i]

(* Why the n-th chosen POP may lack the field of a test.                   *)
Explained(k, t) ==
  value[chosen[k]][t] = "nil" =>
    \/ t \in errs[chosen[k]]
    \/ /\ t = "udp_stream_4172"
       /\ "udp_4172" \in errs[chosen[k]] \/ chosen[k] \notin Echoes
    \/ t = "udp_stream_8443" /\ "8443" \notin reach[chosen[k]]
    \/ t = "clock_skew" /\ k > 1

(* A full test is blamed only when it is done, and a gap is explained then. *)
FullOK ==
  \A k \in DOMAIN chosen, j \in DOMAIN FullTests :
    /\ lat[chosen[k]] > 0
    /\ ~Done(k, j) => FullTests[j] \notin errs[chosen[k]]
    /\ Done(k, j) /\ FullTests[j] \in Measured => Explained(k, FullTests[j])

ReportInv == RunnerInv /\ Control /\ QuickOK /\ FullOK

-----------------------------------------------------------------------------
(* The inductive invariant: the rows.  Position 0 is what the screen       *)
(* shows of a row, position k what the k-th event of the channel says.     *)

Event(c, r, k) == k \in 1..Len(c) /\ <<c[k].pop, c[k].test>> = r
Shows(c, w, r, k, s) ==
  \/ k = 0 /\ w[r] = s
  \/ Event(c, r, k) /\ c[k].state = s
(* What the screen will show of it in the end.                             *)
Says(c, w, r, s) ==
  \E k \in 0..Len(c) : Shows(c, w, r, k, s) /\ \A l \in k + 1..Len(c) : ~Event(c, r, l)

Running(r) ==
  \/ r[2] = "quick" /\ quick[r[1]] = "latency"
  \/ begun /\ r = <<pop, test>>
Blames(r) ==
  IF r[2] = "quick" THEN "latency" \in errs[r[1]] /\ r[1] \notin Range(chosen)
                    ELSE r[2] \in errs[r[1]] /\ r[1] \in Range(chosen)
Fresh(r) ==
  /\ r[2] # "quick"
  /\ \A k \in DOMAIN chosen, j \in DOMAIN FullTests :
       r = <<chosen[k], FullTests[j]>> => ~Done(k, j) /\ ~(begun /\ k = at.n /\ j = at.t)
Settled(i) == quick[i] \in {"ports", "done"} /\ "latency" \in errs[i] /\ i \notin far

(* A row whose last event was not dropped ends as the report has it; a row *)
(* of a test to come is untouched; a quick check fails once and for all.   *)
RowOK(r) ==
  /\ r \notin lost => (Says(chan, row, r, "start") => Running(r))
                     /\ (Says(chan, row, r, "failed") <=> Blames(r))
  /\ Fresh(r) => row[r] = "none" /\ \A k \in 1..Len(chan) : ~Event(chan, r, k)
  /\ begun /\ r = <<pop, test>> /\ r \in lost => \A k \in 0..Len(chan) : ~Shows(chan, row, r, k, "start")
  /\ r[2] = "quick" => \A k \in 0..Len(chan) : Shows(chan, row, r, k, "failed") =>
       Settled(r[1]) /\ \A l \in k + 1..Len(chan) : ~Event(chan, r, l)
RowsOK == \A r \in Rows : RowOK(r)

(* Before the start of a full test is seen, so is an event after any other *)
(* start; and no quick check starts after it.                              *)
OrderOK ==
  \A r, q \in Rows : q[2] # "quick" =>
    \A a, b \in 0..Len(chan) : Shows(chan, row, r, a, "start") /\ Shows(chan, row, q, b, "start") =>
      /\ r[2] = "quick" => a <= b
      /\ r # q /\ r \notin lost /\ q \notin lost /\ a <= b =>
           \E c \in a + 1..b - 1 : Event(chan, r, c)

RunInv == ReportInv /\ RowsOK /\ OrderOK

-----------------------------------------------------------------------------
(* Ranks: Before orders the POPs strictly, so the ranks of a set of POPs   *)
(* are 1 to its size, each once.                                           *)

LEMMA IdsFinite == ASSUME NEW S \in SUBSET Ids PROVE IsFiniteSet(S) /\ Cardinality(S) \in Nat
<1>1. IsFiniteSet(Ids)
  BY POPsAssumption, FS_Interval DEF Ids
<1>2. IsFiniteSet(S)
  BY <1>1, FS_Subset
<1> QED
  BY <1>2, FS_CardinalityType

LEMMA BeforeOrders ==
  ASSUME lat \in [Ids -> Nat], NEW i \in Ids, NEW j \in Ids
  PROVE  /\ ~(Before(i, j) /\ Before(j, i))
         /\ i # j => Before(i, j) \/ Before(j, i)
         /\ \A k \in Ids : Before(i, j) /\ Before(j, k) => Before(i, k)
  BY DEF Before, Ids

LEMMA RankGrows ==
  ASSUME lat \in [Ids -> Nat], NEW S \in SUBSET Ids, NEW i \in S, NEW j \in S, Before(i, j)
  PROVE  Rank(i, S) < Rank(j, S)
<1> DEFINE B(x) == {y \in S : Before(y, x)}
<1>1. B(i) \subseteq B(j) /\ i \in B(j) /\ i \notin B(i)
  BY BeforeOrders
<1>2. IsFiniteSet(B(j)) /\ Cardinality(B(i)) \in Nat /\ Cardinality(B(j)) \in Nat
  <2>1. B(i) \in SUBSET Ids /\ B(j) \in SUBSET Ids
    OBVIOUS
  <2> QED
    BY <2>1, IdsFinite
<1>3. Cardinality(B(i)) <= Cardinality(B(j)) /\ Cardinality(B(i)) # Cardinality(B(j))
  BY <1>1, <1>2, FS_Subset
<1> QED
  BY <1>2, <1>3 DEF Rank

LEMMA RankBounds ==
  ASSUME lat \in [Ids -> Nat], NEW S \in SUBSET Ids, NEW i \in S
  PROVE  Rank(i, S) \in 1..Cardinality(S)
<1> DEFINE B == {y \in S : Before(y, i)}
<1>1. B \in SUBSET (S \ {i})
  BY BeforeOrders
<1>2. IsFiniteSet(S) /\ IsFiniteSet(S \ {i}) /\ Cardinality(S \ {i}) = Cardinality(S) - 1
  BY IdsFinite, FS_RemoveElement
<1>3. Cardinality(B) <= Cardinality(S) - 1 /\ Cardinality(B) \in Nat /\ Cardinality(S) \in Nat
  BY <1>1, <1>2, FS_Subset, FS_CardinalityType
<1> QED
  BY <1>3 DEF Rank

LEMMA RankHit ==
  ASSUME lat \in [Ids -> Nat], NEW S \in SUBSET Ids, NEW k \in 1..Cardinality(S)
  PROVE  \E i \in S : Rank(i, S) = k
<1> DEFINE f == [i \in S |-> Rank(i, S)]
           T == 1..Cardinality(S)
<1>1. IsFiniteSet(S) /\ Cardinality(S) \in Nat
  BY IdsFinite
<1>2. IsFiniteSet(T) /\ Cardinality(T) = Cardinality(S)
  BY <1>1, FS_Interval
<1>3. f \in [S -> T]
  BY RankBounds
<1>4. \A i, j \in S : f[i] = f[j] => i = j
  <2> SUFFICES ASSUME NEW i \in S, NEW j \in S, i # j PROVE Rank(i, S) # Rank(j, S)
    OBVIOUS
  <2>1. Rank(i, S) \in Int /\ Rank(j, S) \in Int
    BY RankBounds
  <2>2. Before(i, j) \/ Before(j, i)
    BY BeforeOrders
  <2> QED
    BY <2>1, <2>2, RankGrows
<1>5. f \in Injection(S, T)
  BY <1>3, <1>4 DEF Injection, IsInjective
<1>6. f \in Surjection(S, T)
  BY <1>1, <1>2, <1>5, FS_Injection
<1> QED
  BY <1>6 DEF Surjection

(* The choice is sound when it is made: the k-th chosen POP is the one of  *)
(* rank k among the near ones.                                             *)
LEMMA SelectIsSound ==
  ASSUME TypeOK, QuickOK, stage = "quick",
         NEW c, c = SelectFullPOPs
  PROVE  /\ c \in Seq(Ids) /\ Len(c) <= maxPOPs
         /\ \A k, l \in DOMAIN c : k < l => Before(c[k], c[l])
         /\ \A k \in DOMAIN c : lat[c[k]] > 0 /\ (k > 1 => lat[c[k]] < MaxLatency)
         /\ \A i \in {j \in Ids : lat[j] > 0} \ Range(c) :
              /\ c # <<>>
              /\ \A k \in DOMAIN c : Before(c[k], i)
              /\ lat[i] < MaxLatency => Len(c) = maxPOPs
<1> DEFINE near == {i \in Candidates : Rank(i, Candidates) = 1 \/ lat[i] < MaxLatency}
           n == Cardinality(near)
           m == IF n < maxPOPs THEN n ELSE maxPOPs
<1>1. lat \in [Ids -> Nat] /\ maxPOPs \in Nat \ {0} /\ MaxLatency \in Nat
  <2>1. lat \in [Ids -> Medians \union {0}] /\ maxPOPs \in Limits
    BY DEF TypeOK
  <2>2. Medians \union {0} \subseteq Nat
    BY MediansAssumption
  <2> QED
    BY <2>1, <2>2, LimitsAssumption
<1>2. Candidates \in SUBSET Ids /\ near \in SUBSET Ids /\ near \subseteq Candidates
  BY DEF Candidates
<1>3. n \in Nat /\ m \in Nat /\ m <= n /\ m <= maxPOPs /\ (m # n => m = maxPOPs)
  BY <1>1, <1>2, IdsFinite
<1>4. \A i \in Ids : lat[i] > 0 => i \in Candidates
  BY DEF QuickOK, Candidates
<1>5. c = [k \in 1..m |-> CHOOSE i \in near : Rank(i, near) = k]
  BY DEF SelectFullPOPs
<1> HIDE DEF near, n, m
<1>6. \A k \in 1..m : c[k] \in near /\ Rank(c[k], near) = k
  <2> TAKE k \in 1..m
  <2>1. k \in 1..Cardinality(near)
    BY <1>3 DEF n
  <2>2. \E i \in near : Rank(i, near) = k
    BY <1>1, <1>2, <2>1, RankHit
  <2> QED
    BY <1>5, <2>2
<1>7. c \in Seq(Ids) /\ Len(c) = m /\ DOMAIN c = 1..m
  BY <1>2, <1>3, <1>5, <1>6
<1>8. \A k \in 1..m : c[k] \in Ids /\ c[k] \in Candidates
  BY <1>2, <1>6
<1>9. \A k, l \in 1..m : k < l => Before(c[k], c[l])
  <2> TAKE k, l \in 1..m
  <2> HAVE k < l
  <2>1. CASE Before(c[l], c[k])
    BY <1>1, <1>2, <1>6, <2>1, RankGrows
  <2>2. c[k] # c[l]
    BY <1>6
  <2> QED
    BY <1>1, <1>8, <2>1, <2>2, BeforeOrders
<1>10. \A i \in Candidates : Rank(i, Candidates) \in Nat \ {0}
  BY <1>1, <1>2, RankBounds
<1>11. \A k \in 1..m : k > 1 => lat[c[k]] < MaxLatency
  <2> SUFFICES ASSUME NEW k \in 1..m, k > 1, ~(lat[c[k]] < MaxLatency) PROVE FALSE
    OBVIOUS
  <2>1. Rank(c[k], Candidates) = 1
    BY <1>6 DEF near
  <2>2. 1 \in 1..m /\ Before(c[1], c[k])
    BY <1>3, <1>9
  <2>3. Rank(c[1], Candidates) < 1
    BY <1>1, <1>2, <1>8, <2>1, <2>2, RankGrows
  <2> QED
    BY <1>8, <1>10, <2>2, <2>3
<1>12. ASSUME NEW i \in Candidates
       PROVE  m > 0
  <2>1. IsFiniteSet(Candidates) /\ Cardinality(Candidates) \in Nat
    BY <1>2, IdsFinite
  <2>2. 1 \in 1..Cardinality(Candidates)
    BY <2>1, FS_EmptySet
  <2>3. PICK j \in Candidates : Rank(j, Candidates) = 1
    BY <1>1, <1>2, <2>2, RankHit
  <2>4. j \in near
    BY <2>3 DEF near
  <2>5. IsFiniteSet(near)
    BY <1>2, IdsFinite
  <2>6. n # 0
    BY <2>4, <2>5, FS_EmptySet DEF n
  <2> QED
    BY <1>1, <1>3, <2>6
<1>13. ASSUME NEW i \in near, i \notin Range(c), NEW k \in 1..m
       PROVE  Before(c[k], i) /\ m = maxPOPs
  <2> DEFINE r == Rank(i, near)
  <2>1. r \in 1..n
    BY <1>1, <1>2, RankBounds DEF n
  <2>2. CASE r <= m
    <3>1. r \in 1..m /\ Rank(c[r], near) = r /\ c[r] \in near
      BY <1>3, <1>6, <2>1, <2>2
    <3>2. c[r] # i
      BY <1>7, <1>13, <3>1 DEF Range
    <3>3. i \in Ids /\ c[r] \in Ids
      BY <1>2, <3>1
    <3>4. Before(i, c[r]) \/ Before(c[r], i)
      BY <1>1, <3>2, <3>3, BeforeOrders
    <3>5. Rank(i, near) < Rank(c[r], near) \/ Rank(c[r], near) < Rank(i, near)
      BY <1>1, <1>2, <3>1, <3>4, RankGrows
    <3> QED
      BY <2>1, <3>1, <3>5
  <2>3. CASE r > m
    <3>1. m = maxPOPs
      BY <1>3, <2>1, <2>3
    <3>2. ~Before(i, c[k])
      <4> SUFFICES ASSUME Before(i, c[k]) PROVE FALSE
        OBVIOUS
      <4>1. Rank(i, near) < Rank(c[k], near)
        BY <1>1, <1>2, <1>6, RankGrows
      <4> QED
        BY <1>3, <1>6, <2>1, <2>3, <4>1
    <3>3. c[k] # i
      BY <1>7, <1>13 DEF Range
    <3> QED
      BY <1>1, <1>2, <1>8, <3>1, <3>2, <3>3, BeforeOrders
  <2> QED
    BY <1>3, <2>1, <2>2, <2>3
<1>14. ASSUME NEW i \in Candidates, i \notin near, NEW k \in 1..m
       PROVE  Before(c[k], i)
  <2>1. ~(lat[i] < MaxLatency) /\ Rank(i, Candidates) # 1
    BY <1>14 DEF near
  <2>2. c[k] \in near /\ c[k] \in Candidates /\ i \in Ids /\ c[k] \in Ids
    BY <1>2, <1>6
  <2>3. CASE lat[c[k]] < MaxLatency
    BY <1>1, <2>1, <2>2, <2>3 DEF Before
  <2>4. CASE Rank(c[k], Candidates) = 1
    <3>1. CASE Before(i, c[k])
      <4>1. Rank(i, Candidates) < Rank(c[k], Candidates)
        BY <1>1, <1>2, <2>2, <3>1, RankGrows
      <4> QED
        BY <1>10, <2>4, <4>1
    <3>2. c[k] # i
      BY <1>14, <2>2
    <3> QED
      BY <1>1, <2>2, <3>1, <3>2, BeforeOrders
  <2> QED
    BY <2>2, <2>3, <2>4 DEF near
<1>15. \A k \in 1..m : lat[c[k]] > 0
  BY <1>8 DEF Candidates
<1>16. ASSUME NEW i \in Ids, lat[i] > 0, i \notin Range(c)
       PROVE  /\ c # <<>>
              /\ \A k \in DOMAIN c : Before(c[k], i)
              /\ lat[i] < MaxLatency => Len(c) = maxPOPs
  <2>1. i \in Candidates /\ m > 0
    BY <1>4, <1>12, <1>16
  <2>2. c # <<>> /\ 1 \in 1..m
    BY <1>3, <1>7, <2>1
  <2>3. \A k \in 1..m : Before(c[k], i)
    BY <1>13, <1>14, <1>16, <2>1
  <2>4. lat[i] < MaxLatency => i \in near
    BY <2>1 DEF near
  <2>5. lat[i] < MaxLatency => m = maxPOPs
    BY <1>13, <1>16, <2>2, <2>4
  <2> QED
    BY <1>7, <2>2, <2>3, <2>5
<1> QED
  BY <1>3, <1>7, <1>9, <1>11, <1>15, <1>16

-----------------------------------------------------------------------------
(* The steps of a run: what an event, a test and the end of one leave.     *)

LEMMA TestsFacts ==
  /\ Len(FullTests) = 10 /\ DOMAIN FullTests = 1..10
  /\ \A k \in 1..10 : FullTests[k] \in Tests
  /\ \A k, l \in 1..10 : FullTests[k] = FullTests[l] => k = l
  /\ "udp_4172" \notin Tests /\ "quick" \notin Tests /\ "latency" \in Measured
  BY DEF FullTests, Tests, Measured, Repeated

LEMMA EmitType ==
  ASSUME chan \in Seq(Events), Len(chan) <= Cap, lost \subseteq Rows,
         NEW i \in Ids, NEW t \in Tests \union {"quick"}, NEW s \in {"start", "done", "failed"},
         Emit(i, t, s)
  PROVE  chan' \in Seq(Events) /\ Len(chan') <= Cap /\ lost' \subseteq Rows
<1>1. Row(i, t, s) \in Events
  <2>1. s \in RowState \ {"none"}
    BY DEF RowState
  <2> QED
    BY <2>1 DEF Row, Events
<1>2. Cap \in Nat
  BY LimitsAssumption
<1> QED
  BY <1>1, <1>2 DEF Emit

LEMMA TestRunning ==
  ASSUME TypeOK, Control, stage = "full"
  PROVE  /\ pop \in Ids /\ test \in Tests /\ at.n \in 1..Len(chosen) /\ at.t \in 1..10
         /\ Len(chosen) \in Nat /\ DOMAIN chosen = 1..Len(chosen)
<1>1. chosen \in Seq(Ids) /\ at \in [n : Nat, t : 1..10]
  BY TestsFacts DEF TypeOK
<1>2. at.n \in DOMAIN chosen
  BY DEF Control
<1> QED
  BY <1>1, <1>2, TestsFacts DEF pop, test

LEMMA AdvanceType ==
  ASSUME TypeOK, Control, stage = "full", Advance
  PROVE  /\ at' \in [n : Nat, t : 1..Len(FullTests)] /\ begun' = FALSE
         /\ stage' \in {"full", "over"}
         /\ stage' = "full" => at'.n \in DOMAIN chosen
         /\ stage' = "over" => \A k \in DOMAIN chosen : k < at'.n
         /\ \A k \in DOMAIN chosen, j \in 1..10 :
              (k < at'.n \/ (k = at'.n /\ j < at'.t)) <=> Done(k, j) \/ (k = at.n /\ j = at.t)
<1>1. at \in [n : Nat, t : 1..10] /\ Len(FullTests) = 10
  BY TestsFacts DEF TypeOK
<1>2. at.n \in 1..Len(chosen) /\ at.t \in 1..10 /\ Len(chosen) \in Nat /\ DOMAIN chosen = 1..Len(chosen)
  BY TestRunning
<1>3. at' = (IF at.t < 10 THEN [n |-> at.n, t |-> at.t + 1] ELSE [n |-> at.n + 1, t |-> 1])
  BY <1>1 DEF Advance
<1>4. at'.n = (IF at.t < 10 THEN at.n ELSE at.n + 1) /\ at'.t = (IF at.t < 10 THEN at.t + 1 ELSE 1)
  BY <1>3
<1>5. stage' = (IF at.t = 10 /\ at.n = Len(chosen) THEN "over" ELSE "full") /\ begun' = FALSE
  BY <1>1 DEF Advance
<1>6. at' \in [n : Nat, t : 1..Len(FullTests)]
  BY <1>1, <1>2, <1>3
<1>7. stage' = "full" => at'.n \in DOMAIN chosen
  BY <1>2, <1>4, <1>5
<1>8. stage' = "over" => \A k \in DOMAIN chosen : k < at'.n
  BY <1>2, <1>4, <1>5
<1>9. \A k \in DOMAIN chosen, j \in 1..10 :
        (k < at'.n \/ (k = at'.n /\ j < at'.t)) <=> Done(k, j) \/ (k = at.n /\ j = at.t)
  <2> TAKE k \in DOMAIN chosen, j \in 1..10
  <2>1. k \in Int /\ j \in 1..10 /\ at.n \in Int /\ at.t \in 1..10
    BY <1>2
  <2>2. CASE at.t < 10
    <3>1. at'.n = at.n /\ at'.t = at.t + 1
      BY <1>4, <2>2
    <3> QED
      BY <2>1, <3>1 DEF Done
  <2>3. CASE ~(at.t < 10)
    <3>1. at'.n = at.n + 1 /\ at'.t = 1 /\ at.t = 10
      BY <1>4, <2>1, <2>3
    <3> QED
      BY <2>1, <3>1 DEF Done
  <2> QED
    BY <2>2, <2>3
<1> QED
  BY <1>5, <1>6, <1>7, <1>8, <1>9

LEMMA OutcomeType ==
  ASSUME TypeOK, Control, stage = "full", test \in Measured, NEW o \in Outcomes(test)
  PROVE  /\ o.field \in {"nil", "good", "bad"} /\ o.error \in BOOLEAN
         /\ o.field = "nil" => o.error
<1>1. pop \in Ids
  BY TestRunning
<1>2. value[pop][test] \in {"nil", "good", "bad"}
  BY <1>1 DEF TypeOK
<1>3. o = Outcome("good", FALSE) \/ o \in Failures(test)
  BY DEF Outcomes
<1>4. o \in Failures(test) =>
        \/ o \in {Outcome("bad", FALSE), Outcome("bad", TRUE), Outcome("nil", TRUE)}
        \/ o \in {Outcome("good", TRUE), Outcome(value[pop][test], TRUE)}
  BY DEF Failures
<1>5. /\ Outcome("good", FALSE).field = "good" /\ Outcome("good", FALSE).error = FALSE
      /\ Outcome("bad", FALSE).field = "bad" /\ Outcome("bad", FALSE).error = FALSE
      /\ Outcome("bad", TRUE).field = "bad" /\ Outcome("bad", TRUE).error = TRUE
      /\ Outcome("nil", TRUE).field = "nil" /\ Outcome("nil", TRUE).error = TRUE
      /\ Outcome("good", TRUE).field = "good" /\ Outcome("good", TRUE).error = TRUE
      /\ Outcome(value[pop][test], TRUE).field = value[pop][test]
      /\ Outcome(value[pop][test], TRUE).error = TRUE
  BY DEF Outcome
<1> QED
  BY <1>2, <1>3, <1>4, <1>5

LEMMA NearestFar ==
  ASSUME far \in SUBSET Ids, far # {}
  PROVE  (CHOOSE i \in far : \A j \in far : i <= j) \in far
<1>1. far \subseteq Nat
  BY POPsAssumption DEF Ids
<1>2. PICK i \in far : \A j \in far : ~ (<<j, i>> \in OpToRel(<, Nat))
  BY <1>1, NatLessThanWellFounded, WFMin
<1>3. \A j \in far : ~ (j < i)
  BY <1>1, <1>2 DEF OpToRel
<1>4. \A j \in far : i <= j
  BY <1>1, <1>3
<1> QED
  BY <1>4

LEMMA ChosenApart ==
  ASSUME TypeOK, SelectionSound, stage \in {"far", "full", "over"}
  PROVE  \A k, l \in DOMAIN chosen : chosen[k] = chosen[l] => k = l
<1>1. lat \in [Ids -> Nat] /\ chosen \in Seq(Ids)
  <2>1. lat \in [Ids -> Medians \union {0}] /\ chosen \in Seq(Ids)
    BY DEF TypeOK
  <2>2. Medians \union {0} \subseteq Nat
    BY MediansAssumption
  <2> QED
    BY <2>1, <2>2
<1>2. \A k, l \in DOMAIN chosen : k < l => Before(chosen[k], chosen[l])
  BY DEF SelectionSound
<1>3. \A i \in Ids : ~Before(i, i)
  BY <1>1, BeforeOrders
<1> QED
  BY <1>1, <1>2, <1>3

-----------------------------------------------------------------------------
(* ReportInv is inductive. *)

LEMMA ReportInit == Init => ReportInv
<1> SUFFICES ASSUME Init PROVE ReportInv
  OBVIOUS
<1>1. Cap \in Nat /\ maxPOPs \in Limits
  BY LimitsAssumption DEF Init
<1>2. TypeOK
  <2>1. chan \in Seq(Events) /\ Len(chan) <= Cap /\ chosen \in Seq(Ids)
    BY <1>1 DEF Init
  <2>2. at \in [n : Nat, t : 1..Len(FullTests)]
    BY TestsFacts DEF Init
  <2> QED
    BY <1>1, <2>1, <2>2 DEF Init, TypeOK, RowState
<1>3. SelectionSound /\ Control
  BY DEF Init, SelectionSound, Control
<1>4. QuickOK /\ FullOK
  BY DEF Init, QuickOK, FullOK
<1> QED
  BY <1>2, <1>3, <1>4 DEF ReportInv, RunnerInv

LEMMA TypeStep == ASSUME TypeOK, Control, QuickOK, [Next]_vars PROVE TypeOK'
<1> DEFINE Full == {"nil", "good", "bad"}
           PhasesOK(mx, qk, lt, rc, st, ch, fr, a, bg) ==
             /\ mx \in Limits /\ qk \in [Ids -> {"new", "latency", "ports", "done"}]
             /\ lt \in [Ids -> Medians \union {0}] /\ rc \in [Ids -> SUBSET {"4172", "8443"}]
             /\ st \in {"locate", "quick", "far", "full", "over"}
             /\ ch \in Seq(Ids) /\ fr \subseteq Ids
             /\ a \in [n : Nat, t : 1..Len(FullTests)] /\ bg \in BOOLEAN
           ResultsOK(v, e) == v \in [Ids -> [Measured -> Full]] /\ e \in [Ids -> SUBSET Blamed]
           EventsOK(c, l) == c \in Seq(Events) /\ Len(c) <= Cap /\ l \subseteq Rows
           ScreenOK(r) == r \in [Rows -> RowState]
           Typed == /\ PhasesOK(maxPOPs, quick, lat, reach, stage, chosen, far, at, begun)
                    /\ ResultsOK(value, errs) /\ EventsOK(chan, lost) /\ ScreenOK(row)
                    /\ cancelled \in BOOLEAN
<1>1. TypeOK <=> Typed
  BY DEF TypeOK
<1>2. TypeOK' <=> Typed'
  BY DEF TypeOK
<1>3. Typed
  BY <1>1
<1>4. ASSUME NEW i \in Ids, NEW t \in Tests \union {"quick"}, NEW s \in {"start", "done", "failed"},
             Emit(i, t, s)
      PROVE  EventsOK(chan', lost')
  BY <1>3, <1>4, EmitType
<1>5. "quick" \in Tests \union {"quick"} /\ "latency" \in Measured /\ "latency" \in Blamed
  BY TestsFacts DEF Blamed
<1>6. CASE Locate
  BY <1>2, <1>3, <1>6 DEF Locate, results, events
<1>7. ASSUME NEW i \in Ids, QuickStart(i) PROVE TypeOK'
  <2>1. EventsOK(chan', lost')
    BY <1>4, <1>5, <1>7 DEF QuickStart
  <2> QED
    BY <1>2, <1>3, <1>7, <2>1 DEF QuickStart, results
<1>8. ASSUME NEW i \in Ids, QuickLatency(i) PROVE TypeOK'
  <2>1. EventsOK(chan', lost')
    BY <1>4, <1>5, <1>8 DEF QuickLatency
  <2>2. value' \in [Ids -> [Measured -> Full]]
    <3>1. value' = [value EXCEPT ![i]["latency"] = "good"] \/ value' = value
      BY <1>8 DEF QuickLatency
    <3>2. value \in [Ids -> [Measured -> Full]] /\ "latency" \in Measured /\ "good" \in Full
      BY <1>3, <1>5
    <3> QED
      BY <3>1, <3>2
  <2>3. errs' \in [Ids -> SUBSET Blamed]
    <3>1. errs' = [errs EXCEPT ![i] = @ \union {"latency"}] \/ errs' = errs
      BY <1>8 DEF QuickLatency
    <3> QED
      BY <1>3, <1>5, <3>1
  <2>4. lat' \in [Ids -> Medians \union {0}]
    <3>1. (\E ms \in Medians : lat' = [lat EXCEPT ![i] = ms]) \/ lat' = lat
      BY <1>8 DEF QuickLatency
    <3> QED
      BY <1>3, <3>1
  <2> QED
    BY <1>2, <1>3, <1>8, <2>1, <2>2, <2>3, <2>4 DEF QuickLatency
<1>9. ASSUME NEW i \in Ids, QuickPorts(i) PROVE TypeOK'
  <2>1. ResultsOK(value', errs') /\ reach' \in [Ids -> SUBSET {"4172", "8443"}]
    BY <1>3, <1>9 DEF QuickPorts, Blamed
  <2> QED
    BY <1>2, <1>3, <1>9, <2>1 DEF QuickPorts, events
<1>10. CASE FarRow
  <2> DEFINE i == CHOOSE i \in far : \A j \in far : i <= j
  <2>1. i \in Ids
    BY <1>3, <1>10, NearestFar DEF FarRow
  <2>2. Emit(i, "quick", "done") /\ far' = far \ {i}
    BY <1>10 DEF FarRow
  <2> HIDE DEF i
  <2>3. EventsOK(chan', lost')
    BY <1>4, <1>5, <2>1, <2>2
  <2> QED
    BY <1>2, <1>3, <1>10, <2>2, <2>3 DEF FarRow, results
<1>11. CASE FarDone
  BY <1>2, <1>3, <1>11 DEF FarDone, results, events
<1>12. CASE FullSkip
  <2>1. stage' \in {"full", "over"} /\ at' \in [n : Nat, t : 1..Len(FullTests)] /\ begun' = FALSE
    BY <1>12, AdvanceType DEF FullSkip
  <2> QED
    BY <1>2, <1>3, <1>12, <2>1 DEF FullSkip, results, events
<1>13. CASE FullRepeat
  <2>1. stage' \in {"full", "over"} /\ at' \in [n : Nat, t : 1..Len(FullTests)] /\ begun' = FALSE
    BY <1>13, AdvanceType DEF FullRepeat
  <2>2. pop \in Ids /\ test \in Tests
    BY <1>13, TestRunning DEF FullRepeat
  <2>3. EventsOK(chan', lost')
    BY <1>4, <1>13, <2>2 DEF FullRepeat
  <2> QED
    BY <1>2, <1>3, <1>13, <2>1, <2>3 DEF FullRepeat, results
<1>14. CASE FullStart
  <2>1. pop \in Ids /\ test \in Tests
    BY <1>14, TestRunning DEF FullStart
  <2>2. EventsOK(chan', lost')
    BY <1>4, <1>14, <2>1 DEF FullStart
  <2> QED
    BY <1>2, <1>3, <1>14, <2>2 DEF FullStart, results
<1>15. CASE FullEnd
  <2>1. stage' \in {"full", "over"} /\ at' \in [n : Nat, t : 1..Len(FullTests)] /\ begun' = FALSE
    BY <1>15, AdvanceType DEF FullEnd
  <2>2. pop \in Ids /\ test \in Tests /\ test \in Measured
    BY <1>15, TestRunning DEF FullEnd, Control
  <2>3. PICK o \in Outcomes(test) :
          /\ value' = [value EXCEPT ![pop][test] = o.field]
          /\ errs' = [errs EXCEPT ![pop] = IF o.error THEN @ \union {test} ELSE @]
          /\ Emit(pop, test, IF o.error THEN "failed" ELSE "done")
    BY <1>15 DEF FullEnd
  <2>4. o.field \in Full
    BY <1>15, <2>2, OutcomeType DEF FullEnd
  <2>5. EventsOK(chan', lost')
    BY <1>4, <2>2, <2>3
  <2>6. test \in Blamed
    BY <2>2 DEF Blamed
  <2>7. value' \in [Ids -> [Measured -> Full]]
    BY <1>3, <2>2, <2>3, <2>4
  <2>8. errs' \in [Ids -> SUBSET Blamed]
    BY <1>3, <2>2, <2>3, <2>6
  <2> QED
    BY <1>2, <1>3, <1>15, <2>1, <2>5, <2>7, <2>8 DEF FullEnd
<1>16. CASE Forward
  <2>1. Head(chan) \in Events /\ chan' \in Seq(Events) /\ Len(chan') <= Cap
    <3>1. chan \in Seq(Events) /\ chan # <<>> /\ Len(chan) <= Cap /\ Cap \in Nat
      BY <1>3, <1>16, LimitsAssumption DEF Forward
    <3> QED
      BY <1>16, <3>1 DEF Forward
  <2>2. Head(chan).state \in RowState
    BY <2>1 DEF Events
  <2>3. row' \in [Rows -> RowState]
    BY <1>3, <1>16, <2>2 DEF Forward
  <2> QED
    BY <1>2, <1>3, <1>16, <2>1, <2>3 DEF Forward, phases, results
<1>17. CASE Cancel
  BY <1>2, <1>3, <1>17 DEF Cancel, phases, results, events
<1>18. CASE UNCHANGED vars
  BY <1>2, <1>3, <1>18 DEF vars
<1>19. CASE Select
  <2>1. chosen' \in Seq(Ids)
    BY <1>19, SelectIsSound DEF Select
  <2>2. far' \in SUBSET Ids
    BY <1>19 DEF Select
  <2> QED
    BY <1>2, <1>3, <1>19, <2>1, <2>2 DEF Select, results, events
<1> QED
  BY <1>6, <1>7, <1>8, <1>9, <1>10, <1>11, <1>12, <1>13, <1>14, <1>15, <1>16, <1>17, <1>18, <1>19
     DEF Next, QuickPOP, FullPOP

(* A step that leaves the phases and the results alone.                    *)
LEMMA PhasesKept ==
  ASSUME ReportInv, UNCHANGED <<phases, results>>
  PROVE  SelectionSound' /\ Control' /\ QuickOK' /\ FullOK'
<1>1. SelectionSound'
  BY DEF ReportInv, RunnerInv, SelectionSound, Before, phases
<1>2. Control'
  BY DEF ReportInv, Control, test, Runs, pop, phases
<1>3. QuickOK'
  BY DEF ReportInv, QuickOK, phases, results
<1>4. FullOK'
  BY DEF ReportInv, FullOK, Done, Explained, phases, results
<1> QED
  BY <1>1, <1>2, <1>3, <1>4

(* A quick check: it ends before anything is chosen.                       *)
LEMMA QuickStep ==
  ASSUME ReportInv, NEW i \in Ids, QuickPOP(i), TypeOK'
  PROVE  SelectionSound' /\ Control' /\ QuickOK' /\ FullOK'
<1>1. stage = "quick" /\ stage' = "quick" /\ chosen = <<>> /\ chosen' = chosen
  <2>1. stage \in {"locate", "quick", "far", "full", "over"} /\ quick[i] # "done"
    BY DEF ReportInv, RunnerInv, TypeOK, QuickPOP, QuickStart, QuickLatency, QuickPorts
  <2>2. stage # "locate"
    BY DEF ReportInv, Control, QuickPOP, QuickStart, QuickLatency, QuickPorts
  <2> QED
    BY <2>1, <2>2 DEF ReportInv, Control, QuickPOP, QuickStart, QuickLatency, QuickPorts
<1>2. SelectionSound'
  BY <1>1 DEF SelectionSound
<1>3. Control'
  <2>1. UNCHANGED <<far, at, begun>>
    BY DEF QuickPOP, QuickStart, QuickLatency, QuickPorts
  <2> QED
    BY <1>1, <2>1 DEF ReportInv, Control
<1>4. FullOK'
  BY <1>1 DEF FullOK
<1>5. QuickOK'
  <2> DEFINE One(j, q, e, l, r) ==
        /\ q \in {"new", "latency"} => e = {} /\ l = 0
        /\ e \subseteq {"latency", "udp_4172"} /\ ("latency" \in e => l = 0)
        /\ q = "done" /\ j \in Echoes /\ "4172" \notin r => "udp_4172" \in e
  <2>1. far = {} /\ far' = {}
    BY <1>1 DEF ReportInv, Control, QuickPOP, QuickStart, QuickLatency, QuickPorts
  <2>2. \A j \in Ids : One(j, quick[j], errs[j], lat[j], reach[j])
    BY <1>1 DEF ReportInv, QuickOK
  <2>3. QuickOK' <=> \A j \in Ids : One(j, quick'[j], errs'[j], lat'[j], reach'[j])
    BY <1>1, <2>1 DEF QuickOK
  <2>4. /\ quick \in [Ids -> {"new", "latency", "ports", "done"}] /\ errs \in [Ids -> SUBSET Blamed]
        /\ lat \in [Ids -> Medians \union {0}] /\ reach \in [Ids -> SUBSET {"4172", "8443"}]
    BY DEF ReportInv, RunnerInv, TypeOK
  <2>5. CASE QuickStart(i)
    BY <2>2, <2>3, <2>4, <2>5 DEF QuickStart, results
  <2>6. CASE QuickLatency(i)
    <3>1. quick[i] = "latency" /\ quick' = [quick EXCEPT ![i] = "ports"] /\ reach' = reach
      BY <2>6 DEF QuickLatency
    <3>2. \/ errs' = [errs EXCEPT ![i] = @ \union {"latency"}] /\ lat' = lat
          \/ errs' = errs /\ \E ms \in Medians : lat' = [lat EXCEPT ![i] = ms]
      BY <2>6 DEF QuickLatency
    <3> QED
      BY <2>2, <2>3, <2>4, <3>1, <3>2
  <2>7. CASE QuickPorts(i)
    <3>1. /\ quick[i] = "ports" /\ quick' = [quick EXCEPT ![i] = "done"] /\ lat' = lat
          /\ \E ports \in SUBSET {"4172", "8443"} :
                /\ reach' = [reach EXCEPT ![i] = ports]
                /\ errs' = [errs EXCEPT ![i] = @ \union
                      IF i \in Echoes /\ "4172" \notin ports THEN {"udp_4172"} ELSE {}]
      BY <2>7 DEF QuickPorts
    <3> QED
      BY <2>2, <2>3, <2>4, <3>1
  <2> QED
    BY <2>5, <2>6, <2>7 DEF QuickPOP
<1> QED
  BY <1>2, <1>3, <1>4, <1>5

LEMMA SelectStep ==
  ASSUME ReportInv, Select, TypeOK'
  PROVE  SelectionSound' /\ Control' /\ QuickOK' /\ FullOK'
<1>1. /\ stage = "quick" /\ stage' = "far" /\ chosen' = SelectFullPOPs
      /\ UNCHANGED <<maxPOPs, quick, lat, reach, at, begun, results>>
      /\ far' = {i \in Ids : i \notin Range(chosen') /\ "latency" \notin errs[i]}
      /\ \A i \in Ids : quick[i] = "done"
  BY DEF Select
<1>2. TypeOK /\ QuickOK /\ Control
  BY DEF ReportInv, RunnerInv
<1>3. /\ chosen' \in Seq(Ids) /\ Len(chosen') <= maxPOPs
      /\ \A k, l \in DOMAIN chosen' : k < l => Before(chosen'[k], chosen'[l])
      /\ \A k \in DOMAIN chosen' : lat[chosen'[k]] > 0 /\ (k > 1 => lat[chosen'[k]] < MaxLatency)
      /\ \A i \in {j \in Ids : lat[j] > 0} \ Range(chosen') :
           /\ chosen' # <<>>
           /\ \A k \in DOMAIN chosen' : Before(chosen'[k], i)
           /\ lat[i] < MaxLatency => Len(chosen') = maxPOPs
  BY <1>1, <1>2, SelectIsSound
<1>4. SelectionSound'
  BY <1>1, <1>3 DEF SelectionSound, Before
<1>5. at' = [n |-> 1, t |-> 1] /\ ~begun'
  BY <1>1, <1>2 DEF Control
<1>6. Control'
  BY <1>1, <1>5 DEF Control
<1>7. QuickOK'
  BY <1>1, <1>2 DEF QuickOK, results
<1>8. FullOK'
  <2> SUFFICES ASSUME NEW k \in DOMAIN chosen', NEW j \in DOMAIN FullTests
               PROVE  /\ lat'[chosen'[k]] > 0
                      /\ FullTests[j] \notin errs'[chosen'[k]]
                      /\ ~Done(k, j)'
    BY DEF FullOK
  <2>1. lat'[chosen'[k]] > 0 /\ chosen'[k] \in Ids
    BY <1>1, <1>3
  <2>2. FullTests[j] \notin errs'[chosen'[k]]
    <3>1. errs'[chosen'[k]] \subseteq {"latency", "udp_4172"} /\ "latency" \notin errs'[chosen'[k]]
      BY <1>1, <1>7, <2>1 DEF QuickOK
    <3>2. FullTests[j] # "udp_4172"
      BY TestsFacts
    <3> QED
      BY <3>1, <3>2
  <2>3. k \in Nat \ {0} /\ j \in Nat \ {0}
    BY <1>3, TestsFacts
  <2>4. ~Done(k, j)'
    BY <1>5, <2>3 DEF Done
  <2> QED
    BY <2>1, <2>2, <2>4
<1> QED
  BY <1>4, <1>6, <1>7, <1>8

LEMMA FarStep ==
  ASSUME ReportInv, FarRow \/ FarDone \/ Locate, TypeOK'
  PROVE  SelectionSound' /\ Control' /\ QuickOK' /\ FullOK'
<1>1. UNCHANGED <<maxPOPs, quick, lat, reach, at, begun, chosen, results>> /\ far' \subseteq far
  BY DEF FarRow, FarDone, Locate
<1>2. \/ stage = "far" /\ stage' = "far"
      \/ stage = "locate" /\ stage' = "quick" /\ far' = far
      \/ stage = "far" /\ stage' = (IF chosen = <<>> THEN "over" ELSE "full") /\ far' = {}
  BY DEF FarRow, FarDone, Locate
<1>3. SelectionSound'
  BY <1>1, <1>2 DEF ReportInv, RunnerInv, SelectionSound, Before
<1>4. Control'
  <2>1. chosen \in Seq(Ids)
    BY DEF ReportInv, RunnerInv, TypeOK
  <2>2. chosen # <<>> => 1 \in DOMAIN chosen
    BY <2>1
  <2> QED
    BY <1>1, <1>2, <2>2 DEF ReportInv, Control
<1>5. QuickOK'
  BY <1>1, <1>2 DEF ReportInv, QuickOK, results
<1>6. FullOK'
  BY <1>1 DEF ReportInv, FullOK, Done, Explained, results
<1> QED
  BY <1>3, <1>4, <1>5, <1>6

(* A step of FullPOP: at most the report of the test of the moment changes. *)
LEMMA FullStep ==
  ASSUME ReportInv, FullPOP, TypeOK'
  PROVE  SelectionSound' /\ Control' /\ QuickOK' /\ FullOK'
<1>1. /\ TypeOK /\ SelectionSound /\ Control /\ QuickOK /\ FullOK
      /\ stage = "full" /\ UNCHANGED <<maxPOPs, quick, lat, reach, chosen, far>>
  BY DEF ReportInv, RunnerInv, FullPOP, FullSkip, FullRepeat, FullStart, FullEnd
<1>2. stage' \in {"full", "over"}
  BY <1>1, AdvanceType DEF FullPOP, FullSkip, FullRepeat, FullStart, FullEnd
<1>3. /\ pop \in Ids /\ test \in Tests /\ at.n \in 1..Len(chosen) /\ at.t \in 1..10
      /\ Len(chosen) \in Nat /\ DOMAIN chosen = 1..Len(chosen)
  BY <1>1, TestRunning
<1>4. SelectionSound'
  BY <1>1, <1>2 DEF SelectionSound, Before
<1>5. Control'
  <2>1. CASE FullStart
    <3>1. UNCHANGED <<stage, at>> /\ begun' = TRUE /\ test \in Measured /\ Runs(test)
      BY <2>1 DEF FullStart
    <3>2. test' = test /\ (Runs(test))' 
      BY <1>1, <3>1 DEF test, Runs, pop
    <3> QED
      BY <1>1, <3>1, <3>2 DEF Control
  <2>2. CASE Advance
    BY <1>1, <1>2, <2>2, AdvanceType DEF Control
  <2> QED
    BY <2>1, <2>2 DEF FullPOP, FullSkip, FullRepeat, FullEnd
<1>6. /\ value' \in [Ids -> [Measured -> {"nil", "good", "bad"}]]
      /\ \A i \in Ids : errs[i] \subseteq errs'[i] /\ errs'[i] \subseteq errs[i] \union {test}
      /\ \A i \in Ids : i # pop => errs'[i] = errs[i]
      /\ \A i \in Ids, t \in Measured : i # pop \/ t # test => value'[i][t] = value[i][t]
      /\ FullStart => errs' = errs
  <2>1. value' \in [Ids -> [Measured -> {"nil", "good", "bad"}]]
    BY DEF TypeOK
  <2>2. CASE UNCHANGED results
    BY <2>1, <2>2 DEF results
  <2>3. CASE FullEnd
    <3>1. PICK o \in Outcomes(test) :
            /\ value' = [value EXCEPT ![pop][test] = o.field]
            /\ errs' = [errs EXCEPT ![pop] = IF o.error THEN @ \union {test} ELSE @]
      BY <2>3 DEF FullEnd
    <3>2. value \in [Ids -> [Measured -> {"nil", "good", "bad"}]] /\ errs \in [Ids -> SUBSET Blamed]
      BY <1>1 DEF TypeOK
    <3>3. \A i \in Ids : errs[i] \subseteq errs'[i] /\ errs'[i] \subseteq errs[i] \union {test}
      BY <1>3, <3>1, <3>2
    <3>4. \A i \in Ids : i # pop => errs'[i] = errs[i]
      BY <1>3, <3>1, <3>2
    <3>5. \A i \in Ids, t \in Measured : i # pop \/ t # test => value'[i][t] = value[i][t]
      BY <1>3, <3>1, <3>2
    <3>6. ~FullStart
      BY <1>1, <2>3 DEF FullEnd, FullStart
    <3> QED
      BY <2>1, <3>3, <3>4, <3>5, <3>6
  <2> QED
    BY <2>1, <2>2, <2>3 DEF FullPOP, FullSkip, FullRepeat, FullStart
<1>7. QuickOK'
  BY <1>1, <1>2, <1>6 DEF QuickOK, Control
<1>8. FullOK'
  <2> SUFFICES ASSUME NEW k \in DOMAIN chosen, NEW j \in 1..10
               PROVE  /\ ~Done(k, j)' => FullTests[j] \notin errs'[chosen[k]]
                      /\ Done(k, j)' /\ FullTests[j] \in Measured => Explained(k, FullTests[j])'
    BY <1>1, TestsFacts DEF FullOK
  <2>1. /\ chosen[k] \in Ids /\ FullTests[j] \in Tests
        /\ ~Done(k, j) => FullTests[j] \notin errs[chosen[k]]
        /\ Done(k, j) /\ FullTests[j] \in Measured => Explained(k, FullTests[j])
    <3>1. chosen \in Seq(Ids) /\ j \in DOMAIN FullTests
      BY <1>1, TestsFacts DEF TypeOK
    <3>2. chosen[k] \in Ids /\ FullTests[j] \in Tests
      BY <3>1, TestsFacts
    <3> QED
      BY <1>1, <3>1, <3>2 DEF FullOK
  <2>2. k # at.n \/ j # at.t => chosen[k] # pop \/ FullTests[j] # test
    BY <1>1, <1>3, ChosenApart, TestsFacts DEF pop, test
  <2>3. CASE FullStart
    <3>1. UNCHANGED <<value, errs, at, chosen, reach>>
      BY <2>3 DEF FullStart, results
    <3> QED
      BY <2>1, <3>1 DEF Done, Explained
  <2>4. CASE Advance
    <3>1. Done(k, j)' <=> Done(k, j) \/ (k = at.n /\ j = at.t)
      BY <1>1, <2>4, AdvanceType DEF Done
    <3>2. CASE k # at.n \/ j # at.t
      <4>1. FullTests[j] \notin errs[chosen[k]] => FullTests[j] \notin errs'[chosen[k]]
        BY <1>6, <2>1, <2>2, <3>2
      <4>2. FullTests[j] \in Measured => value'[chosen[k]][FullTests[j]] = value[chosen[k]][FullTests[j]]
        BY <1>6, <2>1, <2>2, <3>2
      <4>3. errs[chosen[k]] \subseteq errs'[chosen[k]] /\ reach' = reach /\ chosen' = chosen
        BY <1>1, <1>6, <2>1
      <4>4. FullTests[j] \in Measured /\ Explained(k, FullTests[j]) => Explained(k, FullTests[j])'
        BY <4>2, <4>3 DEF Explained
      <4> QED
        BY <2>1, <3>1, <3>2, <4>1, <4>4
    <3>3. CASE k = at.n /\ j = at.t
      <4> SUFFICES ASSUME FullTests[j] \in Measured PROVE Explained(k, FullTests[j])'
        BY <2>1, <3>1, <3>3
      <4>1. chosen[k] = pop /\ FullTests[j] = test /\ chosen' = chosen /\ reach' = reach
        BY <1>1, <3>3 DEF pop, test
      <4>2. CASE FullEnd
        <5>1. PICK o \in Outcomes(test) :
                /\ value' = [value EXCEPT ![pop][test] = o.field]
                /\ errs' = [errs EXCEPT ![pop] = IF o.error THEN @ \union {test} ELSE @]
          BY <4>2 DEF FullEnd
        <5>2. o.field = "nil" => o.error
          BY <1>1, <4>1, OutcomeType
        <5>3. value \in [Ids -> [Measured -> {"nil", "good", "bad"}]] /\ errs \in [Ids -> SUBSET Blamed]
          BY <1>1 DEF TypeOK
        <5>4. value'[pop][test] = o.field
          BY <1>3, <4>1, <5>1, <5>3
        <5>5. o.error => test \in errs'[pop]
          BY <1>3, <5>1, <5>3
        <5> QED
          BY <4>1, <5>2, <5>4, <5>5 DEF Explained
      <4>3. CASE FullSkip
        <5>1. ~Runs(test) /\ UNCHANGED <<value, errs>>
          BY <4>3 DEF FullSkip, results
        <5>2. "4172" \notin reach[pop] => "udp_4172" \in errs[pop] \/ pop \notin Echoes
          BY <1>1, <1>3 DEF QuickOK, Control
        <5>3. at.n # 1 => k > 1
          BY <1>3, <3>3
        <5>4. \/ test = "udp_stream_4172" /\ "4172" \notin reach[pop]
              \/ test = "udp_stream_8443" /\ "8443" \notin reach[pop]
              \/ test = "clock_skew" /\ at.n # 1
          BY <5>1 DEF Runs
        <5> QED
          BY <4>1, <5>1, <5>2, <5>3, <5>4 DEF Explained
      <4>4. CASE FullRepeat
        BY <4>1, <4>4 DEF FullRepeat, Measured
      <4> QED
        BY <2>4, <3>3, <4>2, <4>3, <4>4, AdvanceType, <1>1 DEF FullPOP, FullStart
    <3> QED
      BY <3>2, <3>3
  <2> QED
    BY <2>3, <2>4 DEF FullPOP, FullSkip, FullRepeat, FullEnd
<1> QED
  BY <1>4, <1>5, <1>7, <1>8

LEMMA ReportStep == ReportInv /\ [Next]_vars => ReportInv'
<1> SUFFICES ASSUME ReportInv, [Next]_vars PROVE ReportInv'
  OBVIOUS
<1>1. TypeOK'
  BY TypeStep DEF ReportInv, RunnerInv
<1>2. CASE UNCHANGED <<phases, results>>
  BY <1>1, <1>2, PhasesKept DEF ReportInv, RunnerInv
<1>3. CASE \E i \in Ids : QuickPOP(i)
  BY <1>1, <1>3, QuickStep DEF ReportInv, RunnerInv
<1>4. CASE Select
  BY <1>1, <1>4, SelectStep DEF ReportInv, RunnerInv
<1>5. CASE Locate \/ FarRow \/ FarDone
  BY <1>1, <1>5, FarStep DEF ReportInv, RunnerInv
<1>6. CASE FullPOP
  BY <1>1, <1>6, FullStep DEF ReportInv, RunnerInv
<1>7. Forward \/ Cancel \/ UNCHANGED vars => UNCHANGED <<phases, results>>
  BY DEF Forward, Cancel, vars, phases, results
<1> QED
  BY <1>2, <1>3, <1>4, <1>5, <1>6, <1>7 DEF Next

(* The types hold, and the full tests go to the right POPs: the nearest    *)
(* one measured always, nearest first, the others below the latency limit, *)
(* and one below it is left out only for room (SelectFullPOPs).            *)
THEOREM SelectionIsSound == Spec => []RunnerInv
<1>1. ReportInv => RunnerInv
  BY DEF ReportInv
<1> QED
  BY ReportInit, ReportStep, <1>1, PTL DEF Spec

(* When the run is over, the report explains every field a chosen POP      *)
(* lacks: by the errors entry of the test, a blocked port, a beacon        *)
(* without an echo, or by its not being the nearest (FullPOP).             *)
THEOREM EveryGapIsExplained == Spec => []GapsExplained
<1>1. ReportInv => GapsExplained
  <2> SUFFICES ASSUME ReportInv, stage = "over", NEW k \in DOMAIN chosen, NEW t \in Measured
               PROVE  Explained(k, t)
    BY DEF GapsExplained, Explained
  <2>1. PICK j \in DOMAIN FullTests : t = FullTests[j]
    BY DEF Measured, Tests
  <2>2. Done(k, j)
    BY DEF ReportInv, Control, Done
  <2> QED
    BY <2>1, <2>2 DEF ReportInv, FullOK
<1> QED
  BY ReportInit, ReportStep, <1>1, PTL DEF Spec

-----------------------------------------------------------------------------
(* What the screen will show, when an event is forwarded or emitted.       *)

(* Forwarding moves every position one down, and into the screen at the    *)
(* end; what a row says in the end stays.                                  *)
LEMMA ForwardShifts ==
  ASSUME TypeOK, Forward, NEW r \in Rows
  PROVE  /\ Len(chan) \in Nat \ {0} /\ Len(chan') = Len(chan) - 1
         /\ \A k \in Int : Event(chan', r, k) <=> k >= 1 /\ Event(chan, r, k + 1)
         /\ \A k \in Int, s \in RowState :
              Shows(chan', row', r, k, s) <=>
                \/ k >= 0 /\ Event(chan, r, k + 1) /\ Shows(chan, row, r, k + 1, s)
                \/ k = 0 /\ ~Event(chan, r, 1) /\ Shows(chan, row, r, 0, s)
<1>1. /\ chan \in Seq(Events) /\ chan # <<>> /\ chan' = Tail(chan) /\ row \in [Rows -> RowState]
      /\ row' = [q \in Rows |-> IF q = <<Head(chan).pop, Head(chan).test>> THEN Head(chan).state
                                                                          ELSE row[q]]
  BY DEF TypeOK, Forward
<1>2. /\ Len(chan) \in Nat \ {0} /\ Len(chan') = Len(chan) - 1 /\ Head(chan) = chan[1]
      /\ \A k \in 1..Len(chan) - 1 : chan'[k] = chan[k + 1]
  BY <1>1
<1>3. \A k \in Int : Event(chan', r, k) <=> k >= 1 /\ Event(chan, r, k + 1)
  BY <1>2 DEF Event
<1>4. Event(chan, r, 1) <=> r = <<chan[1].pop, chan[1].test>>
  BY <1>2 DEF Event
<1>5. row'[r] = IF Event(chan, r, 1) THEN chan[1].state ELSE row[r]
  BY <1>1, <1>2, <1>4
<1>6. \A k \in Int, s \in RowState :
        Shows(chan', row', r, k, s) <=>
          \/ k >= 0 /\ Event(chan, r, k + 1) /\ Shows(chan, row, r, k + 1, s)
          \/ k = 0 /\ ~Event(chan, r, 1) /\ Shows(chan, row, r, 0, s)
  <2> TAKE k \in Int, s \in RowState
  <2>1. CASE k = 0
    BY <1>2, <1>5, <2>1 DEF Event, Shows
  <2>2. CASE k > 0
    BY <1>2, <2>2 DEF Event, Shows
  <2>3. CASE k < 0
    BY <1>2, <2>3 DEF Event, Shows
  <2> QED
    BY <2>1, <2>2, <2>3
<1> QED
  BY <1>2, <1>3, <1>6

LEMMA ForwardSays ==
  ASSUME TypeOK, Forward, NEW r \in Rows, NEW s \in RowState
  PROVE  Says(chan', row', r, s) <=> Says(chan, row, r, s)
<1> DEFINE n == Len(chan)
<1>1. /\ n \in Nat \ {0} /\ Len(chan') = n - 1
      /\ \A k \in Int : Event(chan', r, k) <=> k >= 1 /\ Event(chan, r, k + 1)
      /\ \A k \in Int :
           Shows(chan', row', r, k, s) <=>
             \/ k >= 0 /\ Event(chan, r, k + 1) /\ Shows(chan, row, r, k + 1, s)
             \/ k = 0 /\ ~Event(chan, r, 1) /\ Shows(chan, row, r, 0, s)
  BY ForwardShifts
<1>2. \A k \in Int : Shows(chan, row, r, k, s) => k = 0 \/ Event(chan, r, k)
  BY DEF Shows
<1>3. \A k \in Int : Event(chan, r, k) => k \in 1..n
  BY DEF Event
<1>4. Says(chan', row', r, s) <=>
        \E k \in 0..n - 1 : Shows(chan', row', r, k, s) /\ \A l \in k + 1..n - 1 : ~Event(chan', r, l)
  BY <1>1 DEF Says
<1>5. Says(chan, row, r, s) <=>
        \E k \in 0..n : Shows(chan, row, r, k, s) /\ \A l \in k + 1..n : ~Event(chan, r, l)
  BY DEF Says
<1> HIDE DEF n
<1>6. ASSUME NEW k \in 0..n - 1, Shows(chan', row', r, k, s), \A l \in k + 1..n - 1 : ~Event(chan', r, l)
      PROVE  Says(chan, row, r, s)
  <2>1. \A l \in k + 2..n : ~Event(chan, r, l)
    <3> TAKE l \in k + 2..n
    <3>1. l - 1 \in k + 1..n - 1 /\ l - 1 \in Int /\ (l - 1) + 1 = l /\ l - 1 >= 1
      BY <1>1
    <3> QED
      BY <1>1, <1>6, <3>1
  <2>2. CASE Event(chan, r, k + 1) /\ Shows(chan, row, r, k + 1, s)
    BY <1>1, <1>5, <2>1, <2>2
  <2>3. CASE k = 0 /\ ~Event(chan, r, 1) /\ Shows(chan, row, r, 0, s)
    BY <1>1, <1>5, <2>1, <2>3
  <2> QED
    BY <1>1, <1>6, <2>2, <2>3
<1>7. ASSUME NEW k \in 0..n, Shows(chan, row, r, k, s), \A l \in k + 1..n : ~Event(chan, r, l)
      PROVE  Says(chan', row', r, s)
  <2>1. CASE k = 0
    <3>1. Shows(chan', row', r, 0, s)
      BY <1>1, <1>7, <2>1
    <3>2. \A l \in 1..n - 1 : ~Event(chan', r, l)
      BY <1>1, <1>7, <2>1
    <3> QED
      BY <1>1, <1>4, <3>1, <3>2
  <2>2. CASE k # 0
    <3> DEFINE p == k - 1
    <3>1. p \in 0..n - 1 /\ p \in Int /\ p >= 0 /\ p + 1 = k
      BY <1>1, <2>2
    <3>2. Event(chan, r, p + 1) /\ Shows(chan, row, r, p + 1, s)
      BY <1>2, <1>7, <2>2, <3>1
    <3> HIDE DEF p
    <3>3. Shows(chan', row', r, p, s)
      BY <1>1, <3>1, <3>2
    <3>4. \A l \in p + 1..n - 1 : ~Event(chan', r, l)
      BY <1>1, <1>7, <3>1
    <3> QED
      BY <1>4, <3>1, <3>3, <3>4
  <2> QED
    BY <2>1, <2>2
<1> QED
  BY <1>4, <1>5, <1>6, <1>7

(* An event that fits is the last of the channel, and what its row says.   *)
LEMMA AppendShows ==
  ASSUME NEW c \in Seq(Events), NEW e \in Events, NEW w, NEW r
  PROVE  /\ Len(Append(c, e)) = Len(c) + 1
         /\ \A k \in Int :
              Event(Append(c, e), r, k) <=> Event(c, r, k) \/ (k = Len(c) + 1 /\ r = <<e.pop, e.test>>)
         /\ \A k \in Int, s \in RowState :
              Shows(Append(c, e), w, r, k, s) <=>
                Shows(c, w, r, k, s) \/ (k = Len(c) + 1 /\ r = <<e.pop, e.test>> /\ s = e.state)
<1> DEFINE d == Append(c, e)
<1>1. /\ Len(c) \in Nat /\ Len(d) = Len(c) + 1 /\ d[Len(c) + 1] = e
      /\ \A k \in 1..Len(c) : d[k] = c[k]
  OBVIOUS
<1> HIDE DEF d
<1>2. \A k \in Int :
        Event(d, r, k) <=> Event(c, r, k) \/ (k = Len(c) + 1 /\ r = <<e.pop, e.test>>)
  BY <1>1 DEF Event
<1>3. \A k \in Int, s \in RowState :
        Shows(d, w, r, k, s) <=>
          Shows(c, w, r, k, s) \/ (k = Len(c) + 1 /\ r = <<e.pop, e.test>> /\ s = e.state)
  BY <1>1 DEF Event, Shows
<1> QED
  BY <1>1, <1>2, <1>3 DEF d

LEMMA AppendSays ==
  ASSUME NEW c \in Seq(Events), NEW e \in Events, NEW w, NEW r, NEW s \in RowState
  PROVE  Says(Append(c, e), w, r, s) <=> IF r = <<e.pop, e.test>> THEN s = e.state ELSE Says(c, w, r, s)
<1> DEFINE d == Append(c, e)
           n == Len(c)
<1>1. /\ n \in Nat /\ Len(d) = n + 1
      /\ \A k \in Int : Event(d, r, k) <=> Event(c, r, k) \/ (k = n + 1 /\ r = <<e.pop, e.test>>)
      /\ \A k \in Int :
           Shows(d, w, r, k, s) <=>
             Shows(c, w, r, k, s) \/ (k = n + 1 /\ r = <<e.pop, e.test>> /\ s = e.state)
  BY AppendShows
<1>2. Says(d, w, r, s) <=> \E k \in 0..n + 1 : Shows(d, w, r, k, s) /\ \A l \in k + 1..n + 1 : ~Event(d, r, l)
  BY <1>1 DEF Says
<1>3. Says(c, w, r, s) <=> \E k \in 0..n : Shows(c, w, r, k, s) /\ \A l \in k + 1..n : ~Event(c, r, l)
  BY DEF Says
<1>4. \A k \in Int : (Event(c, r, k) => k \in 1..n) /\ (Shows(c, w, r, k, s) => k \in 0..n)
  BY <1>1 DEF Event, Shows
<1> HIDE DEF d, n
<1>5. CASE r = <<e.pop, e.test>>
  <2>1. Event(d, r, n + 1) /\ (Shows(d, w, r, n + 1, s) <=> s = e.state)
    BY <1>1, <1>4, <1>5
  <2>2. \A k \in 0..n : n + 1 \in k + 1..n + 1
    BY <1>1
  <2> QED
    <3>1. n + 1 \in 0..n + 1 /\ \A l \in n + 1 + 1..n + 1 : FALSE
      BY <1>1
    <3>2. s = e.state => Says(d, w, r, s)
      BY <1>2, <2>1, <3>1
    <3>3. ASSUME NEW k \in 0..n + 1, Shows(d, w, r, k, s), \A l \in k + 1..n + 1 : ~Event(d, r, l)
          PROVE  s = e.state
      <4>1. k \notin 0..n
        BY <2>1, <2>2, <3>3
      <4>2. k = n + 1
        BY <1>1, <4>1
      <4> QED
        BY <2>1, <3>3, <4>2
    <3> QED
      BY <1>2, <1>5, <3>2, <3>3 DEF d
<1>6. CASE r # <<e.pop, e.test>>
  <2>1. \A k \in Int : (Event(d, r, k) <=> Event(c, r, k)) /\ (Shows(d, w, r, k, s) <=> Shows(c, w, r, k, s))
    BY <1>1, <1>6
  <2>2. ASSUME NEW k \in 0..n + 1, Shows(d, w, r, k, s), \A l \in k + 1..n + 1 : ~Event(d, r, l)
        PROVE  Says(c, w, r, s)
    BY <1>1, <1>3, <1>4, <2>1, <2>2
  <2>3. ASSUME NEW k \in 0..n, Shows(c, w, r, k, s), \A l \in k + 1..n : ~Event(c, r, l)
        PROVE  Says(d, w, r, s)
    BY <1>1, <1>2, <1>4, <2>1, <2>3
  <2> QED
    BY <1>2, <1>3, <1>6, <2>2, <2>3 DEF d
<1> QED
  BY <1>5, <1>6

-----------------------------------------------------------------------------
(* What keeps RowOK: for a row without an event, and for one with a new    *)
(* event.                                                                  *)

RowKeeps(r) ==
  /\ Running(r) => Running(r)'
  /\ Blames(r)' <=> Blames(r)
  /\ Fresh(r)' => Fresh(r)
  /\ begun' /\ r = <<pop, test>>' => begun /\ r = <<pop, test>>
  /\ r[2] = "quick" /\ Settled(r[1]) => Settled(r[1])'

EventFits(r, s) ==
  /\ s = "start" => Running(r)'
  /\ s = "failed" <=> Blames(r)'
  /\ ~(Fresh(r)')
  /\ begun' /\ r = <<pop, test>>' => Fresh(r)
  /\ r[2] = "quick" => ~Settled(r[1])
  /\ r[2] = "quick" /\ s = "failed" => Settled(r[1])'

LEMMA RowKept ==
  ASSUME TypeOK, NEW r \in Rows, RowOK(r), RowKeeps(r), row' = row, r \in lost' <=> r \in lost,
         chan' = chan \/ \E e \in Events : chan' = Append(chan, e) /\ r # <<e.pop, e.test>>
  PROVE  RowOK(r)'
<1>1. chan \in Seq(Events)
  BY DEF TypeOK
<1>2. "start" \in RowState /\ "failed" \in RowState
  BY DEF RowState
<1>3. /\ \A k \in Int : Event(chan', r, k) <=> Event(chan, r, k)
      /\ \A k \in Int, s \in RowState : Shows(chan', row', r, k, s) <=> Shows(chan, row, r, k, s)
      /\ \A s \in RowState : Says(chan', row', r, s) <=> Says(chan, row, r, s)
  <2>1. CASE chan' = chan
    BY <2>1
  <2>2. CASE \E e \in Events : chan' = Append(chan, e) /\ r # <<e.pop, e.test>>
    <3>1. PICK e \in Events : chan' = Append(chan, e) /\ r # <<e.pop, e.test>>
      BY <2>2
    <3>2. \A k \in Int : Event(chan', r, k) <=> Event(chan, r, k)
      BY <1>1, <3>1, AppendShows
    <3>3. \A k \in Int, s \in RowState : Shows(chan', row', r, k, s) <=> Shows(chan, row, r, k, s)
      BY <1>1, <3>1, AppendShows
    <3>4. \A s \in RowState : Says(chan', row', r, s) <=> Says(chan, row, r, s)
      BY <1>1, <3>1, AppendSays
    <3> QED
      BY <3>2, <3>3, <3>4
  <2> QED
    BY <2>1, <2>2
<1>4. \A k \in Int :
        /\ Event(chan, r, k) => k \in 1..Len(chan)
        /\ Event(chan', r, k) => k \in 1..Len(chan')
        /\ \A s \in RowState : Shows(chan, row, r, k, s) => k \in 0..Len(chan)
  BY <1>1 DEF Event, Shows
<1>5. r \notin lost' => (Says(chan', row', r, "start") => Running(r)')
                        /\ (Says(chan', row', r, "failed") <=> Blames(r)')
  BY <1>2, <1>3 DEF RowOK, RowKeeps
<1>6. Fresh(r)' => row'[r] = "none" /\ \A k \in 1..Len(chan') : ~Event(chan', r, k)
  BY <1>3, <1>4 DEF RowOK, RowKeeps
<1>7. begun' /\ r = <<pop, test>>' /\ r \in lost' =>
        \A k \in 0..Len(chan') : ~Shows(chan', row', r, k, "start")
  BY <1>2, <1>3, <1>4 DEF RowOK, RowKeeps
<1>8. r[2] = "quick" => \A k \in 0..Len(chan') : Shows(chan', row', r, k, "failed") =>
        Settled(r[1])' /\ \A l \in k + 1..Len(chan') : ~Event(chan', r, l)
  BY <1>2, <1>3, <1>4 DEF RowOK, RowKeeps
<1> QED
  BY <1>5, <1>6, <1>7, <1>8 DEF RowOK

LEMMA RowEmitted ==
  ASSUME TypeOK, NEW i \in Ids, NEW t \in Tests \union {"quick"}, NEW s \in {"start", "done", "failed"},
         Emit(i, t, s), row' = row, NEW r \in Rows, r = <<i, t>>, RowOK(r), EventFits(r, s)
  PROVE  RowOK(r)'
<1> DEFINE e == Row(i, t, s)
<1>1. /\ chan \in Seq(Events) /\ e \in Events /\ r = <<e.pop, e.test>> /\ e.state = s
      /\ "start" \in RowState /\ "failed" \in RowState
  BY DEF TypeOK, Row, Events, RowState
<1> HIDE DEF e
<1>2. CASE chan' = Append(chan, e) /\ lost' = lost \ {r}
  <2>1. Says(chan', row', r, "start") => s = "start"
    BY <1>1, <1>2, AppendSays
  <2>2. Says(chan', row', r, "failed") <=> s = "failed"
    BY <1>1, <1>2, AppendSays
  <2>3. \A k \in Int : Shows(chan', row', r, k, "failed") =>
          Shows(chan, row, r, k, "failed") \/ (k = Len(chan) + 1 /\ s = "failed")
    BY <1>1, <1>2, AppendShows
  <2>4. Len(chan') = Len(chan) + 1 /\ Len(chan) \in Nat
    BY <1>1, <1>2, AppendShows
  <2>5. r[2] = "quick" => \A k \in 0..Len(chan') : Shows(chan', row', r, k, "failed") =>
          Settled(r[1])' /\ \A l \in k + 1..Len(chan') : ~Event(chan', r, l)
    <3> SUFFICES ASSUME r[2] = "quick", NEW k \in 0..Len(chan'), Shows(chan', row', r, k, "failed")
                 PROVE  Settled(r[1])' /\ \A l \in k + 1..Len(chan') : ~Event(chan', r, l)
      OBVIOUS
    <3>1. ~Shows(chan, row, r, k, "failed")
      <4> SUFFICES ASSUME Shows(chan, row, r, k, "failed") PROVE FALSE
        OBVIOUS
      <4>1. k \in 0..Len(chan)
        BY <2>4 DEF Shows, Event
      <4> QED
        BY <4>1 DEF RowOK, EventFits
    <3>2. k = Len(chan) + 1 /\ s = "failed"
      BY <2>3, <3>1
    <3> QED
      BY <2>4, <3>2 DEF EventFits
  <2> QED
    BY <1>2, <2>1, <2>2, <2>5 DEF RowOK, EventFits
<1>3. CASE chan' = chan /\ r \in lost'
  <2>1. begun' /\ r = <<pop, test>>' => \A k \in 0..Len(chan) : ~Shows(chan, row, r, k, "start")
    <3> SUFFICES ASSUME Fresh(r), NEW k \in 0..Len(chan) PROVE ~Shows(chan, row, r, k, "start")
      BY DEF EventFits
    <3>1. row[r] = "none" /\ \A l \in 1..Len(chan) : ~Event(chan, r, l)
      BY DEF RowOK
    <3> QED
      BY <3>1 DEF Shows, Event
  <2>2. r[2] = "quick" => \A k \in 0..Len(chan) : ~Shows(chan, row, r, k, "failed")
    BY DEF RowOK, EventFits
  <2>3. ~(Fresh(r)')
    BY DEF EventFits
  <2> QED
    BY <1>3, <2>1, <2>2, <2>3 DEF RowOK
<1> QED
  BY <1>2, <1>3 DEF Emit, e

(* A step that emits an event that fits, and keeps the other rows.         *)
LEMMA EmitRows ==
  ASSUME TypeOK, NEW i \in Ids, NEW t \in Tests \union {"quick"}, NEW s \in {"start", "done", "failed"},
         Emit(i, t, s), row' = row, RowsOK,
         \A r \in Rows : IF r = <<i, t>> THEN EventFits(r, s) ELSE RowKeeps(r)
  PROVE  RowsOK'
<1> SUFFICES ASSUME NEW r \in Rows PROVE RowOK(r)'
  BY DEF RowsOK, Rows
<1>1. RowOK(r)
  BY DEF RowsOK
<1>2. CASE r = <<i, t>>
  BY <1>1, <1>2, RowEmitted
<1>3. CASE r # <<i, t>>
  <2>1. Row(i, t, s) \in Events /\ <<Row(i, t, s).pop, Row(i, t, s).test>> = <<i, t>>
    BY DEF Row, Events, RowState
  <2>2. chan' = chan \/ chan' = Append(chan, Row(i, t, s))
    BY DEF Emit
  <2>3. r \in lost' <=> r \in lost
    BY <1>3 DEF Emit
  <2> QED
    BY <1>1, <1>3, <2>1, <2>2, <2>3, RowKept
<1> QED
  BY <1>2, <1>3

LEMMA QuietRows ==
  ASSUME TypeOK, UNCHANGED <<chan, row, lost>>, RowsOK, \A r \in Rows : RowKeeps(r)
  PROVE  RowsOK'
<1> SUFFICES ASSUME NEW r \in Rows PROVE RowOK(r)'
  BY DEF RowsOK, Rows
<1> QED
  BY RowKept DEF RowsOK

LEMMA ForwardRows ==
  ASSUME TypeOK, Forward, RowsOK
  PROVE  RowsOK'
<1> SUFFICES ASSUME NEW r \in Rows PROVE RowOK(r)'
  BY DEF RowsOK, Rows
<1> DEFINE n == Len(chan)
<1>1. /\ n \in Nat \ {0} /\ Len(chan') = n - 1
      /\ \A k \in Int : Event(chan', r, k) <=> k >= 1 /\ Event(chan, r, k + 1)
      /\ \A k \in Int, s \in RowState :
           Shows(chan', row', r, k, s) <=>
             \/ k >= 0 /\ Event(chan, r, k + 1) /\ Shows(chan, row, r, k + 1, s)
             \/ k = 0 /\ ~Event(chan, r, 1) /\ Shows(chan, row, r, 0, s)
  BY ForwardShifts
<1>2. {"none", "start", "failed"} \subseteq RowState
  BY DEF RowState
<1>3. /\ Running(r)' <=> Running(r)
      /\ Blames(r)' <=> Blames(r)
      /\ Fresh(r)' <=> Fresh(r)
      /\ Settled(r[1])' <=> Settled(r[1])
      /\ begun' = begun /\ <<pop, test>>' = <<pop, test>> /\ lost' = lost
  BY DEF Forward, phases, results, Running, Blames, Fresh, Settled, pop, test, Done
<1>4. \A k \in Int : Event(chan, r, k) => k \in 1..n
  BY DEF Event
<1>5. RowOK(r)
  BY DEF RowsOK
<1> HIDE DEF n
<1>6. r \notin lost' => (Says(chan', row', r, "start") => Running(r)')
                        /\ (Says(chan', row', r, "failed") <=> Blames(r)')
  BY <1>2, <1>3, <1>5, ForwardSays DEF RowOK
<1>7. Fresh(r)' => row'[r] = "none" /\ \A k \in 1..Len(chan') : ~Event(chan', r, k)
  <2> SUFFICES ASSUME Fresh(r) PROVE row'[r] = "none" /\ \A k \in 1..Len(chan') : ~Event(chan', r, k)
    BY <1>3
  <2>1. row[r] = "none" /\ \A k \in Int : ~Event(chan, r, k)
    BY <1>4, <1>5 DEF RowOK, n
  <2>2. \A k \in Int : ~Event(chan', r, k)
    BY <1>1, <2>1
  <2>3. Shows(chan', row', r, 0, "none")
    BY <1>1, <1>2, <2>1 DEF Shows
  <2> QED
    BY <1>1, <2>2, <2>3 DEF Shows
<1>8. begun' /\ r = <<pop, test>>' /\ r \in lost' =>
        \A k \in 0..Len(chan') : ~Shows(chan', row', r, k, "start")
  <2> SUFFICES ASSUME begun, r = <<pop, test>>, r \in lost, NEW k \in 0..n - 1
               PROVE  ~Shows(chan', row', r, k, "start")
    BY <1>1, <1>3
  <2>1. \A l \in 0..n : ~Shows(chan, row, r, l, "start")
    BY <1>5 DEF RowOK, n
  <2>2. k + 1 \in 0..n /\ 0 \in 0..n /\ k \in Int /\ "start" \in RowState
    BY <1>1, <1>2
  <2>3. ~Shows(chan, row, r, k + 1, "start") /\ ~Shows(chan, row, r, 0, "start")
    BY <2>1, <2>2
  <2> QED
    BY <1>1, <2>2, <2>3
<1>9. r[2] = "quick" => \A k \in 0..Len(chan') : Shows(chan', row', r, k, "failed") =>
        Settled(r[1])' /\ \A l \in k + 1..Len(chan') : ~Event(chan', r, l)
  <2> SUFFICES ASSUME r[2] = "quick", NEW k \in 0..n - 1, Shows(chan', row', r, k, "failed")
               PROVE  Settled(r[1]) /\ \A l \in k + 1..n - 1 : ~Event(chan', r, l)
    BY <1>1, <1>3
  <2>1. \A m \in 0..n : Shows(chan, row, r, m, "failed") =>
          Settled(r[1]) /\ \A l \in m + 1..n : ~Event(chan, r, l)
    BY <1>5 DEF RowOK, n
  <2>2. \E m \in {0, k + 1} : m <= k + 1 /\ Shows(chan, row, r, m, "failed")
    BY <1>1, <1>2
  <2>3. PICK m \in {0, k + 1} : m <= k + 1 /\ Shows(chan, row, r, m, "failed")
    BY <2>2
  <2>4. m \in 0..n
    BY <1>1, <2>3
  <2>5. Settled(r[1]) /\ \A l \in m + 1..n : ~Event(chan, r, l)
    BY <2>1, <2>3, <2>4
  <2>6. \A l \in k + 1..n - 1 : l + 1 \in m + 1..n
    BY <1>1, <2>3
  <2> QED
    BY <1>1, <2>5, <2>6
<1> QED
  BY <1>6, <1>7, <1>8, <1>9 DEF RowOK

-----------------------------------------------------------------------------
(* RowsOK is preserved by every step. *)

(* A row is that of a POP and a test, or of its quick check.               *)
LEMMA RowFacts ==
  ASSUME NEW r \in Rows
  PROVE  /\ r = <<r[1], r[2]>> /\ r[1] \in Ids /\ r[2] \in Tests \union {"quick"}
         /\ r[2] # "quick" => r[2] \in Tests
  BY ShownAssumption DEF Rows

(* Before the full tests no row of one has an event, and no test is blamed. *)
LEMMA EarlyRows ==
  ASSUME ReportInv, stage \in {"locate", "quick", "far"}, NEW r \in Rows, r[2] # "quick"
  PROVE  Fresh(r) /\ ~Running(r) /\ ~Blames(r)
<1>1. chosen \in Seq(Ids) /\ at = [n |-> 1, t |-> 1] /\ ~begun
  BY DEF ReportInv, RunnerInv, TypeOK, Control
<1>2. \A k \in DOMAIN chosen, j \in DOMAIN FullTests : ~Done(k, j) /\ FullTests[j] \notin errs[chosen[k]]
  <2>1. \A k \in DOMAIN chosen, j \in DOMAIN FullTests : ~Done(k, j)
    BY <1>1, TestsFacts DEF Done
  <2> QED
    BY <2>1 DEF ReportInv, FullOK
<1>3. Fresh(r) /\ ~Running(r)
  BY <1>1, <1>2 DEF Fresh, Running
<1>4. ~Blames(r)
  <2> SUFFICES ASSUME r[1] \in Range(chosen) PROVE r[2] \notin errs[r[1]]
    BY DEF Blames
  <2>1. PICK k \in DOMAIN chosen : r[1] = chosen[k]
    BY DEF Range
  <2>2. PICK j \in DOMAIN FullTests : r[2] = FullTests[j]
    BY RowFacts DEF Tests
  <2> QED
    BY <1>2, <2>1, <2>2
<1> QED
  BY <1>3, <1>4

LEMMA QuickRows ==
  ASSUME ReportInv, RowsOK, NEW i \in Ids, QuickPOP(i)
  PROVE  RowsOK'
<1>1. /\ TypeOK /\ stage = "quick" /\ chosen = <<>> /\ far = {} /\ ~begun /\ row' = row
      /\ UNCHANGED <<stage, chosen, far, at, begun>>
  <2>1. stage \in {"locate", "quick", "far", "full", "over"} /\ quick[i] # "done"
    BY DEF ReportInv, RunnerInv, TypeOK, QuickPOP, QuickStart, QuickLatency, QuickPorts
  <2>2. stage # "locate"
    BY DEF ReportInv, Control, QuickPOP, QuickStart, QuickLatency, QuickPorts
  <2>3. stage = "quick"
    BY <2>1, <2>2 DEF ReportInv, Control
  <2> QED
    BY <2>3 DEF ReportInv, RunnerInv, Control, QuickPOP, QuickStart, QuickLatency, QuickPorts
<1>2. quick \in [Ids -> {"new", "latency", "ports", "done"}] /\ errs \in [Ids -> SUBSET Blamed]
  BY <1>1 DEF TypeOK
<1>3. quick[i] \in {"new", "latency"} => errs[i] = {}
  BY DEF ReportInv, QuickOK
<1>4. \A r \in Rows : r[2] # "quick" => ~Blames(r) /\ ~(Blames(r)') /\ ~Running(r) /\ ~(Running(r)')
  BY <1>1 DEF Blames, Range, Running
<1>5. \A r \in Rows : r = <<r[1], r[2]>> /\ r[1] \in Ids
  BY RowFacts
<1>6. \A r \in Rows : Fresh(r)' <=> Fresh(r)
  BY <1>1 DEF Fresh, Done
<1>7. \A r \in Rows : r[2] = "quick" => (Blames(r) <=> "latency" \in errs[r[1]])
                                       /\ (Blames(r)' <=> "latency" \in errs'[r[1]])
  BY <1>1 DEF Blames, Range
<1>8. \A r \in Rows : r[2] = "quick" => (Running(r) <=> quick[r[1]] = "latency")
                                       /\ (Running(r)' <=> quick'[r[1]] = "latency")
  BY <1>1 DEF Running
<1>9. "quick" \in Tests \union {"quick"}
  OBVIOUS
<1>10. CASE QuickStart(i)
  <2>1. /\ quick[i] = "new" /\ quick' = [quick EXCEPT ![i] = "latency"]
        /\ errs' = errs /\ Emit(i, "quick", "start")
    BY <1>10 DEF QuickStart, results
  <2>2. \A r \in Rows : r = <<i, "quick">> => EventFits(r, "start")
    BY <1>1, <1>2, <1>3, <1>7, <1>8, <2>1 DEF EventFits, Fresh, Settled
  <2>3. \A r \in Rows : r # <<i, "quick">> => RowKeeps(r)
    BY <1>1, <1>2, <1>4, <1>5, <1>6, <1>7, <1>8, <2>1 DEF RowKeeps, Settled
  <2> QED
    BY <1>1, <1>9, <2>1, <2>2, <2>3, EmitRows
<1>11. CASE QuickLatency(i)
  <2>1. /\ quick[i] = "latency" /\ quick' = [quick EXCEPT ![i] = "ports"]
        /\ \/ errs' = errs /\ Emit(i, "quick", "done")
           \/ errs' = [errs EXCEPT ![i] = @ \union {"latency"}] /\ Emit(i, "quick", "failed")
    BY <1>11 DEF QuickLatency
  <2>2. /\ \A j \in Ids \ {i} : quick'[j] = quick[j] /\ errs'[j] = errs[j]
        /\ quick'[i] = "ports" /\ errs[i] = {}
    BY <1>2, <1>3, <2>1
  <2>3. \A r \in Rows : r # <<i, "quick">> => RowKeeps(r)
    BY <1>1, <1>2, <1>4, <1>5, <1>6, <1>7, <1>8, <2>1, <2>2 DEF RowKeeps, Settled
  <2>4. CASE errs' = errs /\ Emit(i, "quick", "done")
    <3>1. \A r \in Rows : r = <<i, "quick">> => EventFits(r, "done")
      BY <1>1, <1>7, <2>1, <2>2, <2>4 DEF EventFits, Fresh, Settled
    <3> QED
      BY <1>1, <1>9, <2>3, <2>4, <3>1, EmitRows
  <2>5. CASE errs' = [errs EXCEPT ![i] = @ \union {"latency"}] /\ Emit(i, "quick", "failed")
    <3>1. "latency" \in errs'[i]
      BY <1>2, <2>5
    <3>2. \A r \in Rows : r = <<i, "quick">> => EventFits(r, "failed")
      BY <1>1, <1>7, <2>1, <2>2, <3>1 DEF EventFits, Fresh, Settled
    <3> QED
      BY <1>1, <1>9, <2>3, <2>5, <3>2, EmitRows
  <2> QED
    BY <2>1, <2>4, <2>5
<1>12. CASE QuickPorts(i)
  <2>1. /\ quick[i] = "ports" /\ quick' = [quick EXCEPT ![i] = "done"] /\ UNCHANGED <<chan, lost>>
        /\ errs' = errs \/ errs' = [errs EXCEPT ![i] = @ \union {"udp_4172"}]
                        \/ errs' = [errs EXCEPT ![i] = @ \union {}]
    BY <1>12 DEF QuickPorts, events
  <2>2. \A j \in Ids : "latency" \in errs'[j] <=> "latency" \in errs[j]
    BY <1>2, <2>1
  <2>3. \A r \in Rows : RowKeeps(r)
    BY <1>1, <1>2, <1>4, <1>5, <1>6, <1>7, <1>8, <2>1, <2>2 DEF RowKeeps, Settled
  <2> QED
    BY <1>1, <2>1, <2>3, QuietRows
<1> QED
  BY <1>10, <1>11, <1>12 DEF QuickPOP

LEMMA FarRows ==
  ASSUME ReportInv, ReportInv', RowsOK, Locate \/ Select \/ FarRow \/ FarDone
  PROVE  RowsOK'
<1>1. /\ TypeOK /\ stage \in {"locate", "quick", "far"} /\ ~begun /\ ~(begun') /\ row' = row
      /\ UNCHANGED <<quick, errs, at>>
  <2>1. stage \in {"locate", "quick", "far"} /\ UNCHANGED <<quick, errs, at, row, begun>>
    BY DEF Locate, Select, FarRow, FarDone, results
  <2> QED
    BY <2>1 DEF ReportInv, RunnerInv, Control
<1>2. \A r \in Rows : r[2] # "quick" => Fresh(r) /\ ~Running(r) /\ ~Blames(r)
  BY <1>1, EarlyRows
<1>3. \A r \in Rows : r = <<r[1], r[2]>> /\ r[1] \in Ids
  BY RowFacts
<1>4. CASE Select
  <2>1. /\ stage = "quick" /\ chosen = <<>> /\ stage' = "far" /\ UNCHANGED <<chan, lost>>
        /\ far' = {i \in Ids : i \notin Range(chosen') /\ "latency" \notin errs[i]}
    BY <1>4 DEF Select, events, ReportInv, Control
  <2>2. \A i \in Range(chosen') : i \in Ids /\ "latency" \notin errs'[i]
    <3>1. \A k \in DOMAIN chosen' : lat'[chosen'[k]] > 0
      BY TestsFacts DEF ReportInv, FullOK
    <3>2. \A i \in Ids : "latency" \in errs'[i] => lat'[i] = 0
      BY <2>1 DEF ReportInv, QuickOK
    <3>3. chosen' \in Seq(Ids)
      BY DEF ReportInv, RunnerInv, TypeOK
    <3> QED
      BY <3>1, <3>2, <3>3 DEF Range
  <2>3. \A r \in Rows : r[2] # "quick" => ~(Blames(r)')
    <3> SUFFICES ASSUME NEW r \in Rows, r[2] # "quick", r[1] \in Range(chosen') PROVE r[2] \notin errs'[r[1]]
      BY DEF Blames
    <3>1. PICK k \in DOMAIN chosen' : r[1] = chosen'[k]
      BY DEF Range
    <3>2. PICK j \in DOMAIN FullTests : r[2] = FullTests[j]
      BY RowFacts DEF Tests
    <3>3. chosen' \in Seq(Ids) /\ at' = [n |-> 1, t |-> 1]
      BY <2>1 DEF ReportInv, RunnerInv, TypeOK, Control
    <3>4. ~(k < at'.n \/ (k = at'.n /\ j < at'.t))
      BY <3>3, TestsFacts
    <3> QED
      BY <3>1, <3>2, <3>4 DEF ReportInv, FullOK, Done
  <2>4. \A r \in Rows : r[2] = "quick" => (Blames(r)' <=> Blames(r))
    BY <1>1, <2>1, <2>2 DEF Blames, Range
  <2>5. \A r \in Rows : RowKeeps(r)
    BY <1>1, <1>2, <1>3, <2>1, <2>2, <2>3, <2>4 DEF RowKeeps, Running, Fresh, Settled
  <2> QED
    BY <1>1, <2>1, <2>5, QuietRows
<1>5. ASSUME chosen' = chosen, far' \subseteq far, NEW r \in Rows
      PROVE  RowKeeps(r)
  <2>1. Blames(r)' <=> Blames(r)
    BY <1>1, <1>5 DEF Blames
  <2> QED
    BY <1>1, <1>2, <1>5, <2>1 DEF RowKeeps, Running, Fresh, Settled
<1>6. CASE FarRow
  <2> DEFINE i == CHOOSE i \in far : \A j \in far : i <= j
  <2>1. i \in far /\ far \subseteq Ids
    BY <1>1, <1>6, NearestFar DEF FarRow, TypeOK
  <2>2. Emit(i, "quick", "done") /\ far' = far \ {i} /\ chosen' = chosen
    BY <1>6 DEF FarRow
  <2> HIDE DEF i
  <2>3. "latency" \notin errs[i]
    BY <2>1 DEF ReportInv, QuickOK
  <2>4. \A r \in Rows : r = <<i, "quick">> => EventFits(r, "done")
    BY <1>1, <2>1, <2>2, <2>3 DEF EventFits, Fresh, Settled, Blames
  <2> QED
    BY <1>1, <1>5, <2>1, <2>2, <2>4, EmitRows
<1>7. CASE Locate \/ FarDone
  <2>1. UNCHANGED <<chosen, far, chan, lost>>
    BY <1>7 DEF Locate, FarDone, events
  <2> QED
    BY <1>1, <1>5, <2>1, QuietRows
<1> QED
  BY <1>4, <1>6, <1>7

(* The row of the test of the moment is that of no other chosen POP and    *)
(* test; it is not done, and not blamed.                                   *)
LEMMA TestOfTheMoment ==
  ASSUME ReportInv, stage = "full"
  PROVE  /\ pop \in Ids /\ pop \in Range(chosen) /\ test \in Tests /\ test # "quick"
         /\ at.n \in DOMAIN chosen /\ at.t \in DOMAIN FullTests /\ ~Done(at.n, at.t)
         /\ test \notin errs[pop]
         /\ \A k \in DOMAIN chosen, j \in DOMAIN FullTests :
              <<pop, test>> = <<chosen[k], FullTests[j]>> <=> k = at.n /\ j = at.t
<1>1. TypeOK /\ Control /\ SelectionSound
  BY DEF ReportInv, RunnerInv
<1>2. /\ pop \in Ids /\ test \in Tests /\ at.n \in DOMAIN chosen /\ at.t \in DOMAIN FullTests
      /\ at.n \in Nat /\ at.t \in Nat
  BY <1>1, TestRunning, TestsFacts
<1>3. \A k \in DOMAIN chosen, j \in DOMAIN FullTests :
        <<pop, test>> = <<chosen[k], FullTests[j]>> <=> k = at.n /\ j = at.t
  BY <1>1, <1>2, ChosenApart, TestsFacts DEF pop, test
<1>4. ~Done(at.n, at.t)
  BY <1>2 DEF Done
<1>5. test \notin errs[pop]
  BY <1>2, <1>4 DEF ReportInv, FullOK, pop, test
<1>6. pop \in Range(chosen)
  BY <1>2 DEF pop, Range
<1> QED
  BY <1>2, <1>3, <1>4, <1>5, <1>6, TestsFacts

LEMMA FullRows ==
  ASSUME ReportInv, ReportInv', RowsOK, FullPOP
  PROVE  RowsOK'
<1>1. /\ TypeOK /\ Control /\ stage = "full" /\ row' = row /\ UNCHANGED <<quick, chosen, far>>
      /\ \A i \in Ids : quick[i] = "done"
  <2>1. stage = "full" /\ row' = row /\ UNCHANGED <<quick, chosen, far>>
    BY DEF FullPOP, FullSkip, FullRepeat, FullStart, FullEnd
  <2> QED
    BY <2>1 DEF ReportInv, RunnerInv, Control
<1>2. /\ pop \in Ids /\ pop \in Range(chosen) /\ test \in Tests /\ test # "quick"
      /\ at.n \in DOMAIN chosen /\ at.t \in DOMAIN FullTests /\ ~Done(at.n, at.t)
      /\ test \notin errs[pop]
      /\ \A k \in DOMAIN chosen, j \in DOMAIN FullTests :
           <<pop, test>> = <<chosen[k], FullTests[j]>> <=> k = at.n /\ j = at.t
  BY <1>1, TestOfTheMoment
<1>3. \A r \in Rows : r = <<r[1], r[2]>> /\ r[1] \in Ids /\ r[2] \in Tests \union {"quick"}
  BY RowFacts
<1>4. ASSUME Advance, NEW r \in Rows
      PROVE  (Fresh(r)' => Fresh(r)) /\ (r = <<pop, test>> => ~(Fresh(r)'))
  <2>1. begun' = FALSE /\ \A k \in DOMAIN chosen, j \in DOMAIN FullTests :
          (k < at'.n \/ (k = at'.n /\ j < at'.t)) <=> Done(k, j) \/ (k = at.n /\ j = at.t)
    BY <1>1, <1>4, AdvanceType, TestsFacts
  <2>2. Fresh(r)' <=> /\ r[2] # "quick"
                      /\ \A k \in DOMAIN chosen, j \in DOMAIN FullTests :
                           r = <<chosen[k], FullTests[j]>> => ~Done(k, j) /\ ~(k = at.n /\ j = at.t)
    BY <1>1, <2>1 DEF Fresh, Done
  <2> QED
    BY <1>2, <2>2 DEF Fresh
<1>5. \A r \in Rows : Running(r) <=> begun /\ r = <<pop, test>>
  BY <1>1, <1>3 DEF Running
<1>6. \A r \in Rows : r[2] = "quick" => (Settled(r[1])' <=> "latency" \in errs'[r[1]] /\ r[1] \notin far)
                                     /\ (Settled(r[1]) <=> "latency" \in errs[r[1]] /\ r[1] \notin far)
  BY <1>1, <1>3 DEF Settled
<1>7. ASSUME Advance, ~begun, errs' = errs
      PROVE  \A r \in Rows : RowKeeps(r)
  <2>1. begun' = FALSE
    BY <1>7 DEF Advance
  <2>2. \A r \in Rows : Blames(r)' <=> Blames(r)
    BY <1>1, <1>7 DEF Blames
  <2> QED
    BY <1>4, <1>5, <1>6, <1>7, <2>1, <2>2 DEF RowKeeps
<1>8. CASE FullSkip
  <2>1. Advance /\ ~begun /\ errs' = errs /\ UNCHANGED <<chan, lost>>
    BY <1>1, <1>8 DEF FullSkip, results, events, Control
  <2> QED
    BY <1>1, <1>7, <2>1, QuietRows
<1>9. CASE FullRepeat
  <2>1. Advance /\ ~begun /\ errs' = errs /\ Emit(pop, test, "done")
    BY <1>1, <1>9 DEF FullRepeat, results, Control, Measured
  <2>2. \A r \in Rows : r = <<pop, test>> => EventFits(r, "done")
    <3>1. \A r \in Rows : r = <<pop, test>> => ~(Blames(r)')
      BY <1>1, <1>2, <2>1 DEF Blames
    <3>2. begun' = FALSE
      BY <2>1 DEF Advance
    <3> QED
      BY <1>2, <1>4, <2>1, <3>1, <3>2 DEF EventFits
  <2> QED
    BY <1>1, <1>2, <1>7, <2>1, <2>2, EmitRows
<1>10. CASE FullStart
  <2>1. /\ ~begun /\ begun' = TRUE /\ UNCHANGED <<errs, at>> /\ Emit(pop, test, "start")
        /\ pop' = pop /\ test' = test
    BY <1>10 DEF FullStart, results, pop, test
  <2>2. \A r \in Rows : Blames(r)' <=> Blames(r)
    BY <1>1, <2>1 DEF Blames
  <2>3. \A r \in Rows : Fresh(r)' => Fresh(r)
    BY <1>1, <2>1 DEF Fresh, Done
  <2>4. \A r \in Rows : r = <<pop, test>> => Fresh(r) /\ ~(Fresh(r)') /\ Running(r)' /\ ~Blames(r)
    <3> SUFFICES ASSUME NEW r \in Rows, r = <<pop, test>>
                 PROVE  Fresh(r) /\ ~(Fresh(r)') /\ Running(r)' /\ ~Blames(r)
      OBVIOUS
    <3>1. Fresh(r)
      BY <1>2, <2>1 DEF Fresh
    <3>2. ~(Fresh(r)')
      BY <1>1, <1>2, <2>1 DEF Fresh
    <3>3. Running(r)' /\ ~Blames(r)
      BY <1>2, <2>1 DEF Running, Blames
    <3> QED
      BY <3>1, <3>2, <3>3
  <2>5. \A r \in Rows : r = <<pop, test>> => EventFits(r, "start")
    BY <1>2, <2>2, <2>4 DEF EventFits
  <2>6. \A r \in Rows : r # <<pop, test>> => RowKeeps(r)
    BY <1>5, <1>6, <2>1, <2>2, <2>3 DEF RowKeeps
  <2> QED
    BY <1>1, <1>2, <2>1, <2>5, <2>6, EmitRows
<1>11. CASE FullEnd
  <2>1. PICK o \in Outcomes(test) :
          /\ errs' = [errs EXCEPT ![pop] = IF o.error THEN @ \union {test} ELSE @]
          /\ Emit(pop, test, IF o.error THEN "failed" ELSE "done")
    BY <1>11 DEF FullEnd
  <2>2. o.error \in BOOLEAN
    BY <1>1, <1>11, OutcomeType DEF FullEnd, Control
  <2>3. Advance /\ begun' = FALSE
    BY <1>11 DEF FullEnd, Advance
  <2>4. errs \in [Ids -> SUBSET Blamed]
    BY <1>1 DEF TypeOK
  <2>5. \A i \in Ids : i # pop => errs'[i] = errs[i]
    BY <2>1, <2>4
  <2>6. errs'[pop] = IF o.error THEN errs[pop] \union {test} ELSE errs[pop]
    BY <1>2, <2>1, <2>4
  <2>7. \A r \in Rows : r # <<pop, test>> => RowKeeps(r)
    <3> SUFFICES ASSUME NEW r \in Rows, r # <<pop, test>> PROVE RowKeeps(r)
      OBVIOUS
    <3>1. r[2] # "quick" => (Blames(r)' <=> Blames(r))
      BY <1>1, <1>3, <2>5, <2>6 DEF Blames
    <3>2. r[2] = "quick" => (Blames(r)' <=> Blames(r))
      BY <1>1, <1>2, <1>3, <2>5 DEF Blames
    <3>3. errs[r[1]] \subseteq errs'[r[1]]
      BY <1>3, <2>5, <2>6
    <3> QED
      BY <1>4, <1>5, <1>6, <2>3, <3>1, <3>2, <3>3 DEF RowKeeps
  <2>8. \A r \in Rows : r = <<pop, test>> => EventFits(r, IF o.error THEN "failed" ELSE "done")
    <3> SUFFICES ASSUME NEW r \in Rows, r = <<pop, test>>
                 PROVE  EventFits(r, IF o.error THEN "failed" ELSE "done")
      OBVIOUS
    <3>1. Blames(r)' <=> o.error
      BY <1>1, <1>2, <2>2, <2>6 DEF Blames
    <3> QED
      BY <1>2, <1>4, <2>2, <2>3, <3>1 DEF EventFits
  <2>9. (IF o.error THEN "failed" ELSE "done") \in {"start", "done", "failed"}
    OBVIOUS
  <2> QED
    BY <1>1, <1>2, <2>1, <2>7, <2>8, <2>9, EmitRows
<1> QED
  BY <1>8, <1>9, <1>10, <1>11 DEF FullPOP

LEMMA RowsStep ==
  ASSUME ReportInv, ReportInv', RowsOK, [Next]_vars
  PROVE  RowsOK'
<1>1. TypeOK
  BY DEF ReportInv, RunnerInv
<1>2. CASE Cancel \/ UNCHANGED vars
  <2>1. UNCHANGED <<phases, results, chan, lost, row>>
    BY <1>2 DEF Cancel, vars, phases, results, events
  <2>2. \A r \in Rows : RowKeeps(r)
    BY <2>1 DEF RowKeeps, Running, Blames, Fresh, Settled, Done, pop, test, phases, results
  <2> QED
    BY <1>1, <2>1, <2>2, QuietRows
<1>3. CASE Forward
  BY <1>1, <1>3, ForwardRows
<1> QED
  BY <1>2, <1>3, QuickRows, FarRows, FullRows DEF Next

-----------------------------------------------------------------------------
(* OrderOK is preserved by every step. *)

LEMMA ForwardOrder ==
  ASSUME TypeOK, Forward, OrderOK
  PROVE  OrderOK'
<1> DEFINE n == Len(chan)
<1> SUFFICES ASSUME NEW r \in Rows, NEW q \in Rows, q[2] # "quick",
                    NEW a \in 0..Len(chan'), NEW b \in 0..Len(chan'),
                    Shows(chan', row', r, a, "start"), Shows(chan', row', q, b, "start")
             PROVE  /\ r[2] = "quick" => a <= b
                    /\ r # q /\ r \notin lost' /\ q \notin lost' /\ a <= b =>
                         \E c \in a + 1..b - 1 : Event(chan', r, c)
  BY DEF OrderOK, Rows
<1>1. "start" \in RowState /\ lost' = lost
  BY DEF RowState, Forward
<1>2. /\ n \in Nat \ {0} /\ Len(chan') = n - 1
      /\ \A k \in Int : Event(chan', r, k) <=> k >= 1 /\ Event(chan, r, k + 1)
  BY ForwardShifts
<1>3. \/ Event(chan, r, a + 1) /\ Shows(chan, row, r, a + 1, "start")
      \/ a = 0 /\ ~Event(chan, r, 1) /\ Shows(chan, row, r, 0, "start")
  BY <1>1, <1>2, ForwardShifts
<1>4. \/ Shows(chan, row, q, b + 1, "start")
      \/ b = 0 /\ Shows(chan, row, q, 0, "start")
  BY <1>1, <1>2, ForwardShifts
<1>5. a \in 0..n /\ a + 1 \in 0..n /\ b + 1 \in 0..n /\ 0 \in 0..n /\ a \in Int /\ b \in Int
  BY <1>2
<1>6. \A k, l \in 0..n : Shows(chan, row, r, k, "start") /\ Shows(chan, row, q, l, "start") =>
        /\ r[2] = "quick" => k <= l
        /\ r # q /\ r \notin lost /\ q \notin lost /\ k <= l =>
             \E c \in k + 1..l - 1 : Event(chan, r, c)
  BY DEF OrderOK
<1>7. r[2] # "quick" => \A k, l \in 0..n :
        Shows(chan, row, r, k, "start") /\ Shows(chan, row, q, l, "start") =>
        (q # r /\ q \notin lost /\ r \notin lost /\ l <= k => \E c \in l + 1..k - 1 : Event(chan, q, c))
  BY DEF OrderOK
<1> HIDE DEF n
<1>8. r[2] = "quick" => a <= b
  BY <1>3, <1>4, <1>5, <1>6
<1>9. ASSUME r # q, r \notin lost, q \notin lost, a <= b
      PROVE  \E c \in a + 1..b - 1 : Event(chan', r, c)
  <2>1. CASE /\ Event(chan, r, a + 1) /\ Shows(chan, row, r, a + 1, "start")
             /\ Shows(chan, row, q, b + 1, "start")
    <3>1. PICK c \in a + 2..b : Event(chan, r, c)
      BY <1>5, <1>6, <1>9, <2>1
    <3>2. c - 1 \in a + 1..b - 1 /\ c - 1 \in Int /\ c - 1 >= 1 /\ (c - 1) + 1 = c
      BY <1>5
    <3> QED
      BY <1>2, <3>1, <3>2
  <2>2. CASE /\ a = 0 /\ ~Event(chan, r, 1) /\ Shows(chan, row, r, 0, "start")
             /\ Shows(chan, row, q, b + 1, "start")
    <3>1. PICK c \in 1..b : Event(chan, r, c)
      BY <1>5, <1>6, <1>9, <2>2
    <3>2. c # 1
      BY <2>2, <3>1
    <3>3. c - 1 \in a + 1..b - 1 /\ c - 1 \in Int /\ c - 1 >= 1 /\ (c - 1) + 1 = c
      BY <1>5, <2>2, <3>2
    <3> QED
      BY <1>2, <3>1, <3>3
  <2>3. CASE b = 0 /\ Shows(chan, row, r, a + 1, "start") /\ Shows(chan, row, q, 0, "start")
    <3>1. a = 0 /\ a + 1 = 1
      BY <1>5, <1>9, <2>3
    <3>2. r[2] # "quick"
      BY <1>5, <1>6, <2>3, <3>1
    <3>3. \E c \in 0 + 1..1 - 1 : Event(chan, q, c)
      BY <1>5, <1>7, <1>9, <2>3, <3>1, <3>2
    <3> QED
      BY <3>3
  <2>4. CASE a = 0 /\ b = 0 /\ Shows(chan, row, r, 0, "start") /\ Shows(chan, row, q, 0, "start")
    BY <1>5, <1>6, <1>9, <2>4
  <2> QED
    BY <1>3, <1>4, <2>1, <2>2, <2>3, <2>4
<1> QED
  BY <1>1, <1>8, <1>9

(* A step after which no start is new and no lost row with a start is      *)
(* followed again.                                                         *)
LEMMA OrderKept ==
  ASSUME OrderOK,
         \A r \in Rows, k \in Int : Event(chan, r, k) => Event(chan', r, k),
         \A r \in Rows, k \in Int : Shows(chan', row', r, k, "start") =>
           k \in 0..Len(chan) /\ Shows(chan, row, r, k, "start"),
         \A r \in Rows : r \in lost /\ r \notin lost' =>
           \A k \in 0..Len(chan) : ~Shows(chan, row, r, k, "start")
  PROVE  OrderOK'
<1> SUFFICES ASSUME NEW r \in Rows, NEW q \in Rows, q[2] # "quick",
                    NEW a \in 0..Len(chan'), NEW b \in 0..Len(chan'),
                    Shows(chan', row', r, a, "start"), Shows(chan', row', q, b, "start")
             PROVE  /\ r[2] = "quick" => a <= b
                    /\ r # q /\ r \notin lost' /\ q \notin lost' /\ a <= b =>
                         \E c \in a + 1..b - 1 : Event(chan', r, c)
  BY DEF OrderOK, Rows
<1>1. /\ a \in 0..Len(chan) /\ Shows(chan, row, r, a, "start")
      /\ b \in 0..Len(chan) /\ Shows(chan, row, q, b, "start")
  OBVIOUS
<1>2. (r \notin lost' => r \notin lost) /\ (q \notin lost' => q \notin lost)
  BY <1>1
<1>3. \A c \in a + 1..b - 1 : c \in Int
  OBVIOUS
<1> QED
  BY <1>1, <1>2, <1>3 DEF OrderOK

LEMMA EndOrder ==
  ASSUME TypeOK, OrderOK, NEW i \in Ids, NEW t \in Tests \union {"quick"}, NEW s \in {"done", "failed"},
         Emit(i, t, s), row' = row,
         \A r \in Rows : r = <<i, t>> /\ r \in lost =>
           \A k \in 0..Len(chan) : ~Shows(chan, row, r, k, "start")
  PROVE  OrderOK'
<1> DEFINE e == Row(i, t, s)
<1>1. chan \in Seq(Events) /\ e \in Events /\ e.state # "start" /\ "start" \in RowState
      /\ <<e.pop, e.test>> = <<i, t>>
  BY DEF TypeOK, Row, Events, RowState
<1>2. chan' = Append(chan, e) \/ chan' = chan
  BY DEF Emit
<1>3. \A r \in Rows : r \in lost /\ r \notin lost' => r = <<i, t>>
  BY DEF Emit
<1> HIDE DEF e
<1>4. \A r \in Rows, k \in Int :
        /\ Event(chan, r, k) => Event(Append(chan, e), r, k)
        /\ Shows(Append(chan, e), row, r, k, "start") => Shows(chan, row, r, k, "start")
  <2> TAKE r \in Rows, k \in Int
  <2> QED
    BY <1>1, AppendShows
<1>5. \A r \in Rows, k \in Int :
        /\ Event(chan, r, k) => Event(chan', r, k)
        /\ Shows(chan', row', r, k, "start") => Shows(chan, row, r, k, "start")
  BY <1>2, <1>4
<1>6. \A r \in Rows, k \in Int : Shows(chan, row, r, k, "start") => k \in 0..Len(chan)
  BY <1>1 DEF Shows, Event
<1> QED
  BY <1>3, <1>5, <1>6, OrderKept

(* Before the full tests no start of one is shown.                         *)
LEMMA EarlyStarts ==
  ASSUME ReportInv, RowsOK, stage \in {"locate", "quick", "far"}, NEW r \in Rows, r[2] # "quick"
  PROVE  \A k \in Int : ~Shows(chan, row, r, k, "start")
<1>1. row[r] = "none" /\ \A k \in 1..Len(chan) : ~Event(chan, r, k)
  BY EarlyRows DEF RowsOK, RowOK
<1> QED
  BY <1>1 DEF Shows, Event

LEMMA EarlyOrder ==
  ASSUME ReportInv, RowsOK, stage \in {"locate", "quick", "far"},
         NEW i \in Ids, NEW s \in {"start", "done", "failed"}, Emit(i, "quick", s), row' = row
  PROVE  OrderOK'
<1> DEFINE e == Row(i, "quick", s)
<1>1. chan \in Seq(Events) /\ e \in Events /\ e.test = "quick" /\ "start" \in RowState
  BY DEF ReportInv, RunnerInv, TypeOK, Row, Events, RowState
<1>2. chan' = Append(chan, e) \/ chan' = chan
  BY DEF Emit
<1> HIDE DEF e
<1>3. ASSUME NEW q \in Rows, q[2] # "quick", NEW b \in Int
      PROVE  ~Shows(chan', row', q, b, "start")
  <2>1. ~Shows(chan, row, q, b, "start") /\ q # <<e.pop, e.test>>
    BY <1>1, <1>3, EarlyStarts
  <2>2. ~Shows(Append(chan, e), row, q, b, "start")
    BY <1>1, <2>1, AppendShows
  <2> QED
    BY <1>2, <2>1, <2>2
<1> QED
  BY <1>3 DEF OrderOK, Rows

(* The start of a full test comes after the last event of every other row  *)
(* whose start is shown: what was started is over.                         *)
LEMMA StartOrder ==
  ASSUME ReportInv, RowsOK, OrderOK, FullStart
  PROVE  OrderOK'
<1> DEFINE e == Row(pop, test, "start")
           x == <<pop, test>>
           n == Len(chan)
<1>1. /\ TypeOK /\ stage = "full" /\ ~begun /\ row' = row /\ Emit(pop, test, "start")
      /\ \A i \in Ids : quick[i] = "done"
  BY DEF ReportInv, RunnerInv, FullStart, Control
<1>2. /\ pop \in Ids /\ test \in Tests /\ test # "quick" /\ ~Done(at.n, at.t)
      /\ \A k \in DOMAIN chosen, j \in DOMAIN FullTests :
           <<pop, test>> = <<chosen[k], FullTests[j]>> <=> k = at.n /\ j = at.t
  BY <1>1, TestOfTheMoment
<1>3. /\ chan \in Seq(Events) /\ e \in Events /\ e.state = "start" /\ "start" \in RowState
      /\ <<e.pop, e.test>> = x /\ n \in Nat
  BY <1>1, <1>2 DEF TypeOK, Row, Events, RowState
<1>4. (chan' = Append(chan, e) /\ lost' = lost \ {x}) \/ (chan' = chan /\ lost \subseteq lost')
  BY <1>1 DEF Emit
<1>5. \A r \in Rows : r = x => \A k \in Int : ~Shows(chan, row, r, k, "start") /\ ~Event(chan, r, k)
  <2> SUFFICES ASSUME NEW r \in Rows, r = x, NEW k \in Int
               PROVE  ~Shows(chan, row, r, k, "start") /\ ~Event(chan, r, k)
    OBVIOUS
  <2>1. Fresh(r)
    BY <1>1, <1>2 DEF Fresh
  <2>2. row[r] = "none" /\ \A l \in 1..Len(chan) : ~Event(chan, r, l)
    BY <2>1 DEF RowsOK, RowOK
  <2> QED
    BY <2>2 DEF Shows, Event
<1>6. \A r \in Rows : r \notin lost => ~Says(chan, row, r, "start")
  <2>1. \A r \in Rows : ~Running(r)
    BY <1>1, RowFacts DEF Running
  <2> QED
    BY <2>1 DEF RowsOK, RowOK
<1>7. /\ \A r \in Rows, k \in Int : Event(chan, r, k) => k \in 1..n
      /\ \A r \in Rows, k \in Int : Shows(chan, row, r, k, "start") => k \in 0..n
  BY <1>3 DEF Shows, Event
<1>8. \A r \in Rows : r \notin lost => \A k \in 0..n : Shows(chan, row, r, k, "start") =>
        \E l \in k + 1..n : Event(chan, r, l)
  BY <1>6 DEF Says
<1> HIDE DEF e, x, n
<1>9. CASE chan' = chan /\ lost \subseteq lost'
  BY <1>1, <1>7, <1>9, OrderKept DEF n
<1>10. CASE chan' = Append(chan, e) /\ lost' = lost \ {x}
  <2>1. Len(chan') = n + 1
    BY <1>3, <1>10, AppendShows DEF n
  <2>2. \A r \in Rows, k \in Int : Event(chan', r, k) <=> Event(chan, r, k) \/ (k = n + 1 /\ r = x)
    BY <1>3, <1>10, AppendShows DEF n
  <2>3. \A r \in Rows, k \in Int :
          Shows(chan', row', r, k, "start") <=> Shows(chan, row, r, k, "start") \/ (k = n + 1 /\ r = x)
    <3> TAKE r \in Rows, k \in Int
    <3>1. Shows(Append(chan, e), row, r, k, "start") <=>
            Shows(chan, row, r, k, "start") \/ (k = n + 1 /\ r = x)
      BY <1>3, AppendShows DEF n
    <3> QED
      BY <1>1, <1>10, <3>1
  <2> SUFFICES ASSUME NEW r \in Rows, NEW q \in Rows, q[2] # "quick",
                      NEW a \in 0..n + 1, NEW b \in 0..n + 1,
                      Shows(chan', row', r, a, "start"), Shows(chan', row', q, b, "start")
               PROVE  /\ r[2] = "quick" => a <= b
                      /\ r # q /\ r \notin lost' /\ q \notin lost' /\ a <= b =>
                           \E c \in a + 1..b - 1 : Event(chan', r, c)
    BY <2>1 DEF OrderOK, Rows
  <2>4. x[2] # "quick"
    BY <1>2 DEF x
  <2>5. CASE r # x /\ q # x
    <3>1. a \in 0..n /\ b \in 0..n /\ Shows(chan, row, r, a, "start") /\ Shows(chan, row, q, b, "start")
      BY <1>7, <2>3, <2>5
    <3>2. (r \notin lost' => r \notin lost) /\ (q \notin lost' => q \notin lost)
      BY <1>10, <2>5
    <3>3. \A c \in a + 1..b - 1 : c \in Int
      OBVIOUS
    <3> QED
      BY <2>2, <3>1, <3>2, <3>3 DEF OrderOK, n
  <2>6. CASE r # x /\ q = x
    <3>1. a \in 0..n /\ Shows(chan, row, r, a, "start") /\ b = n + 1
      BY <1>5, <1>7, <2>3, <2>6
    <3>2. r \notin lost' => \E l \in a + 1..n : Event(chan, r, l)
      BY <1>8, <1>10, <2>6, <3>1
    <3>3. \A l \in a + 1..n : l \in Int /\ l \in a + 1..b - 1
      BY <1>3, <3>1
    <3> QED
      BY <1>3, <2>2, <3>1, <3>2, <3>3
  <2>7. CASE r = x
    <3>1. a = n + 1
      BY <1>5, <2>3, <2>7
    <3>2. q # x => b \in 0..n
      BY <1>7, <2>3
    <3> QED
      BY <1>3, <2>4, <2>7, <3>1, <3>2
  <2> QED
    BY <2>5, <2>6, <2>7
<1> QED
  BY <1>4, <1>9, <1>10

LEMMA OrderStep ==
  ASSUME ReportInv, RowsOK, OrderOK, [Next]_vars
  PROVE  OrderOK'
<1>1. TypeOK /\ Control /\ chan \in Seq(Events)
  BY DEF ReportInv, RunnerInv, TypeOK
<1>2. \A r \in Rows, k \in Int : Shows(chan, row, r, k, "start") => k \in 0..Len(chan)
  BY <1>1 DEF Shows, Event
<1>3. ASSUME UNCHANGED <<chan, row, lost>> PROVE OrderOK'
  BY <1>2, <1>3, OrderKept
<1>4. CASE Locate \/ Select \/ FarDone \/ FullSkip \/ Cancel \/ UNCHANGED vars
  BY <1>3, <1>4 DEF Locate, Select, FarDone, FullSkip, Cancel, vars, events
<1>5. CASE Forward
  BY <1>1, <1>5, ForwardOrder
<1>6. ASSUME NEW i \in Ids, QuickPOP(i) PROVE OrderOK'
  <2>1. CASE QuickPorts(i)
    BY <1>3, <2>1 DEF QuickPorts, events
  <2>2. CASE QuickStart(i) \/ QuickLatency(i)
    <3>1. row' = row /\ \E s \in {"start", "done", "failed"} : Emit(i, "quick", s)
      BY <2>2 DEF QuickStart, QuickLatency
    <3>2. stage \in {"locate", "quick", "far", "full", "over"} /\ quick[i] # "done"
      BY <1>1, <2>2 DEF TypeOK, QuickStart, QuickLatency
    <3>3. stage \in {"locate", "quick", "far"}
      BY <1>1, <3>2 DEF Control
    <3> QED
      BY <3>1, <3>3, EarlyOrder
  <2> QED
    BY <1>6, <2>1, <2>2 DEF QuickPOP
<1>7. CASE FarRow
  <2> DEFINE i == CHOOSE i \in far : \A j \in far : i <= j
  <2>1. i \in Ids
    BY <1>1, <1>7, NearestFar DEF FarRow, TypeOK
  <2>2. Emit(i, "quick", "done") /\ row' = row /\ stage = "far"
    BY <1>7 DEF FarRow
  <2> HIDE DEF i
  <2> QED
    BY <2>1, <2>2, EarlyOrder
<1>8. CASE FullStart
  BY <1>8, StartOrder
<1>9. CASE FullRepeat \/ FullEnd
  <2>1. /\ stage = "full" /\ row' = row
        /\ Emit(pop, test, "done") \/ Emit(pop, test, "failed")
        /\ FullRepeat => ~begun
        /\ FullEnd => begun
    BY <1>1, <1>9 DEF FullRepeat, FullEnd, Control, Measured
  <2>2. /\ pop \in Ids /\ test \in Tests /\ test # "quick" /\ ~Done(at.n, at.t)
        /\ \A k \in DOMAIN chosen, j \in DOMAIN FullTests :
             <<pop, test>> = <<chosen[k], FullTests[j]>> <=> k = at.n /\ j = at.t
    BY <2>1, TestOfTheMoment
  <2>3. ASSUME NEW r \in Rows, r = <<pop, test>>, r \in lost
        PROVE  \A k \in 0..Len(chan) : ~Shows(chan, row, r, k, "start")
    <3>1. CASE begun
      BY <2>3, <3>1 DEF RowsOK, RowOK
    <3>2. CASE ~begun
      <4>1. Fresh(r)
        BY <2>2, <2>3, <3>2 DEF Fresh
      <4>2. row[r] = "none" /\ \A k \in 1..Len(chan) : ~Event(chan, r, k)
        BY <4>1 DEF RowsOK, RowOK
      <4> QED
        BY <4>2 DEF Shows, Event
    <3> QED
      BY <3>1, <3>2
  <2> QED
    BY <1>1, <2>1, <2>2, <2>3, EndOrder
<1> QED
  BY <1>4, <1>5, <1>6, <1>7, <1>8, <1>9 DEF Next, FullPOP

-----------------------------------------------------------------------------
LEMMA RunInit == Init => RunInv
<1> SUFFICES ASSUME Init PROVE RunInv
  OBVIOUS
<1>1. ReportInv
  BY ReportInit
<1>2. /\ chan = <<>> /\ ~begun /\ lost = {} /\ chosen = <<>>
      /\ \A r \in Rows : row[r] = "none"
      /\ \A i \in Ids : errs[i] = {} /\ quick[i] = "new"
  BY DEF Init
<1>3. \A r : \A k \in Int : ~Event(chan, r, k)
  BY <1>2 DEF Event
<1>4. \A r \in Rows, k \in Int : ~Shows(chan, row, r, k, "start") /\ ~Shows(chan, row, r, k, "failed")
  BY <1>2, <1>3 DEF Shows
<1>5. \A r \in Rows : ~Says(chan, row, r, "start") /\ ~Says(chan, row, r, "failed") /\ ~Blames(r)
  BY <1>2, <1>4, RowFacts DEF Says, Blames
<1>6. RowsOK
  BY <1>2, <1>3, <1>4, <1>5 DEF RowsOK, RowOK
<1>7. OrderOK
  BY <1>4 DEF OrderOK
<1> QED
  BY <1>1, <1>6, <1>7 DEF RunInv

LEMMA RunStep == RunInv /\ [Next]_vars => RunInv'
<1> SUFFICES ASSUME RunInv, [Next]_vars PROVE RunInv'
  OBVIOUS
<1>1. ReportInv'
  BY ReportStep DEF RunInv
<1> QED
  BY <1>1, RowsStep, OrderStep DEF RunInv

(* The inductive invariant of the run, its report and its rows.            *)
THEOREM RunInvariant == Spec => []RunInv
  BY RunInit, RunStep, PTL DEF Spec

(* When the run is over and its events are forwarded, every row whose last *)
(* event was not dropped agrees with the report: none is left running, and *)
(* it failed exactly when the report blames its test.                      *)
THEOREM RowsAgreeWithReport == Spec => []RowsSettle
<1>1. RunInv => RowsSettle
  <2> SUFFICES ASSUME RunInv, stage = "over", chan = <<>>,
                      NEW i \in Ids, NEW t \in Shown, <<i, t>> \notin lost
               PROVE  /\ row[<<i, t>>] # "start"
                      /\ row[<<i, t>>] = "failed" <=>
                           /\ t # "quick" <=> i \in Range(chosen)
                           /\ (IF t = "quick" THEN "latency" ELSE t) \in errs[i]
    BY DEF RowsSettle
  <2> DEFINE r == <<i, t>>
  <2>1. r \in Rows /\ r[1] = i /\ r[2] = t
    BY DEF Rows
  <2>2. Says(chan, row, r, "start") <=> row[r] = "start"
    BY DEF Says, Shows, Event
  <2>3. Says(chan, row, r, "failed") <=> row[r] = "failed"
    BY DEF Says, Shows, Event
  <2>4. ~Running(r)
    BY <2>1 DEF RunInv, ReportInv, Control, Running
  <2>5. Blames(r) <=> /\ t # "quick" <=> i \in Range(chosen)
                      /\ (IF t = "quick" THEN "latency" ELSE t) \in errs[i]
    BY <2>1 DEF Blames
  <2>6. (Says(chan, row, r, "start") => Running(r)) /\ (Says(chan, row, r, "failed") <=> Blames(r))
    BY <2>1 DEF RunInv, RowsOK, RowOK
  <2> QED
    BY <2>2, <2>3, <2>4, <2>5, <2>6
<1> QED
  BY <1>1, RunInvariant, PTL

(* The running screen never shows two full tests in progress, or one       *)
(* beside a quick check, unless an event was dropped (emit, FullPOP).      *)
THEOREM OneFullTestShown == Spec => []OneTestShown
<1>1. RunInv => OneTestShown
  <2>1. ASSUME RunInv, NEW r \in Rows, NEW q \in Rows, q[2] # "quick", r # q,
               row[r] = "start", r \notin lost, row[q] = "start", q \notin lost
        PROVE  FALSE
    <3>1. Len(chan) \in Nat
      BY <2>1 DEF RunInv, ReportInv, RunnerInv, TypeOK
    <3>2. 0 \in 0..Len(chan) /\ Shows(chan, row, r, 0, "start") /\ Shows(chan, row, q, 0, "start")
      BY <2>1, <3>1 DEF Shows
    <3> QED
      BY <2>1, <3>2 DEF RunInv, OrderOK
  <2> QED
    BY <2>1 DEF OneTestShown
<1> QED
  BY <1>1, RunInvariant, PTL

(* A quick row that failed is never turned into "done": not by a late      *)
(* event, nor by "quick check only" (applyProgress, hasLatencyError).      *)
THEOREM FailedQuickRowStays == Spec => FailedRowStays
<1> DEFINE Stays == \A i \in Ids : <<i, "quick">> \in Rows /\ row[<<i, "quick">>] = "failed"
                                  => row'[<<i, "quick">>] = "failed"
<1>1. RunInv /\ [Next]_vars => Stays
  <2> SUFFICES ASSUME RunInv, [Next]_vars, NEW i \in Ids,
                      <<i, "quick">> \in Rows, row[<<i, "quick">>] = "failed"
               PROVE  row'[<<i, "quick">>] = "failed"
    OBVIOUS
  <2> DEFINE r == <<i, "quick">>
  <2>1. CASE row' = row
    BY <2>1
  <2>2. CASE Forward
    <3>1. TypeOK /\ chan \in Seq(Events) /\ chan # <<>> /\ "failed" \in RowState
      BY <2>2 DEF RunInv, ReportInv, RunnerInv, TypeOK, Forward, RowState
    <3>2. Shows(chan, row, r, 0, "failed") /\ 0 \in 0..Len(chan) /\ 1 \in 1..Len(chan)
      BY <3>1 DEF Shows
    <3>3. RowOK(r) /\ r[2] = "quick"
      BY DEF RunInv, RowsOK
    <3>4. ~Event(chan, r, 1)
      BY <3>2, <3>3 DEF RowOK
    <3>5. r # <<Head(chan).pop, Head(chan).test>>
      BY <3>1, <3>2, <3>4 DEF Event
    <3> QED
      BY <2>2, <3>5 DEF Forward
  <2>3. row' = row \/ Forward
    BY DEF Next, Locate, QuickPOP, QuickStart, QuickLatency, QuickPorts, Select, FarRow, FarDone,
           FullPOP, FullSkip, FullRepeat, FullStart, FullEnd, Cancel, vars
  <2> QED
    BY <2>1, <2>2, <2>3
<1> HIDE DEF Stays
<1>2. Spec => [][Stays]_vars
  BY <1>1, RunInvariant, PTL DEF Spec
<1> QED
  BY <1>2 DEF FailedRowStays, Stays
=============================================================================
