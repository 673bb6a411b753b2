----------------------------- MODULE LadderProofs -----------------------------
(***************************************************************************)
(* Theorems about Ladder, for every ladder of rates, number of packets,    *)
(* loss limit and length of the series of arrivals: what the one pass of   *)
(* StreamStats counts, and which rate the ladder calls clean.              *)
(***************************************************************************)
EXTENDS Ladder, FiniteSetTheorems, WellFoundedInduction, TLAPS

-----------------------------------------------------------------------------
(* What holds at 0 and is handed on up to n holds up to n: there is no     *)
(* least exception.                                                        *)
LEMMA UpTo ==
  ASSUME NEW N \in Nat, NEW P, 0 \in P, \A n \in 1..N : n - 1 \in P => n \in P
  PROVE  0..N \subseteq P
<1> DEFINE T == (0..N) \ P
<1> SUFFICES ASSUME T # {} PROVE FALSE
  OBVIOUS
<1>1. T \subseteq Nat
  OBVIOUS
<1>2. PICK t \in T : \A y \in T : ~ (<<y, t>> \in OpToRel(<, Nat))
  BY <1>1, NatLessThanWellFounded, WFMin
<1>3. \A y \in T : ~ (y < t)
  BY <1>1, <1>2 DEF OpToRel
<1>4. t \in 1..N
  <2>1. t \in 0..N /\ t # 0
    OBVIOUS
  <2> QED
    BY <2>1
<1>5. t - 1 \in 0..N /\ t - 1 < t
  BY <1>4
<1>6. t - 1 \in P
  BY <1>3, <1>5
<1> QED
  BY <1>4, <1>6

(* The pass is defined: after n arrivals it is what the n-th makes of what *)
(* it was before.                                                          *)
LEMMA PassUnfolds ==
  ASSUME NEW a, Len(a) \in Nat
  PROVE  Scanned(a) = [n \in 0..Len(a) |-> IF n = 0 THEN Unheard ELSE Scan(Scanned(a)[n - 1], a[n])]
<1> DEFINE Is(g, m) == g = [n \in 0..m |-> IF n = 0 THEN Unheard ELSE Scan(g[n - 1], a[n])]
           P == {m \in Nat : \E g : Is(g, m)}
<1>1. 0 \in P
  <2> DEFINE g == [n \in 0..0 |-> Unheard]
  <2>1. Is(g, 0)
    OBVIOUS
  <2> QED
    BY <2>1
<1>2. ASSUME NEW m \in 1..Len(a), m - 1 \in P PROVE m \in P
  <2>1. PICK g : Is(g, m - 1)
    BY <1>2
  <2> DEFINE h == [n \in 0..m |-> IF n = m THEN Scan(g[m - 1], a[m]) ELSE g[n]]
  <2>2. m \in Nat \ {0} /\ m - 1 \in Nat
    OBVIOUS
  <2>3. DOMAIN h = 0..m /\ h[m] = Scan(g[m - 1], a[m]) /\ \A n \in 0..m - 1 : h[n] = g[n]
    BY <2>2
  <2> HIDE DEF h
  <2>4. \A n \in 0..m - 1 : g[n] = IF n = 0 THEN Unheard ELSE Scan(g[n - 1], a[n])
    BY <2>1
  <2>5. \A n \in 0..m : h[n] = IF n = 0 THEN Unheard ELSE Scan(h[n - 1], a[n])
    <3> TAKE n \in 0..m
    <3>1. CASE n = m
      <4>1. h[m - 1] = g[m - 1]
        BY <2>2, <2>3
      <4> QED
        BY <2>2, <2>3, <3>1, <4>1
    <3>2. CASE n \in 0..m - 1
      <4>1. n # 0 => n - 1 \in 0..m - 1
        BY <3>2
      <4> QED
        BY <2>3, <2>4, <3>2, <4>1
    <3> QED
      BY <2>2, <3>1, <3>2
  <2>6. h = [n \in 0..m |-> h[n]]
    BY <2>3 DEF h
  <2>7. Is(h, m)
    BY <2>5, <2>6
  <2> QED
    BY <2>2, <2>7
<1> HIDE DEF P
<1>3. Len(a) \in P
  <2>1. 0..Len(a) \subseteq P
    BY <1>1, <1>2, UpTo
  <2>2. Len(a) \in 0..Len(a)
    OBVIOUS
  <2> QED
    BY <2>1, <2>2
<1>4. \E g : Is(g, Len(a))
  BY <1>3 DEF P
<1> QED
  BY <1>4 DEF Scanned

-----------------------------------------------------------------------------
(* What the pass counts. *)

Heard(a, n) == {a[i] : i \in 1..n}
Late(a, n) == {i \in 1..n : Overtaken(a, i)}

(* What is known after n arrivals: the packets heard, the highest of them, *)
(* and how many were overtaken.                                            *)
Known(a, n, acc) ==
  /\ acc.seen = Heard(a, n)
  /\ acc.reordered = Cardinality(Late(a, n))
  /\ acc.max \in Nat
  /\ n > 0 => acc.max \in Heard(a, n) /\ \A s \in Heard(a, n) : s <= acc.max

LEMMA HeardFinite ==
  ASSUME NEW n \in Nat, NEW a
  PROVE  /\ IsFiniteSet(1..n) /\ IsFiniteSet(Heard(a, n)) /\ IsFiniteSet(Late(a, n))
         /\ Cardinality(Heard(a, n)) \in Nat /\ Cardinality(Late(a, n)) \in Nat
         /\ Cardinality(Heard(a, n)) = 0 <=> n = 0
<1>1. IsFiniteSet(1..n)
  BY FS_Interval
<1>2. IsFiniteSet(Late(a, n))
  BY <1>1, FS_Subset DEF Late
<1>3. IsFiniteSet(Heard(a, n))
  <2> DEFINE f == [i \in 1..n |-> a[i]]
  <2>1. f \in Surjection(1..n, Heard(a, n))
    BY DEF Surjection, Heard
  <2> QED
    BY <1>1, <2>1, FS_Surjection
<1>4. Cardinality(Heard(a, n)) = 0 <=> Heard(a, n) = {}
  BY <1>3, FS_EmptySet
<1>5. Heard(a, n) = {} <=> n = 0
  <2>1. CASE n = 0
    BY <2>1 DEF Heard
  <2>2. CASE n # 0
    <3>1. 1 \in 1..n
      BY <2>2
    <3> QED
      BY <2>2, <3>1 DEF Heard
  <2> QED
    BY <2>1, <2>2
<1> QED
  BY <1>1, <1>2, <1>3, <1>4, <1>5, FS_CardinalityType

LEMMA PassKnows ==
  ASSUME NEW N \in Nat, NEW a \in [1..N -> Nat]
  PROVE  \A n \in 0..N : Known(a, n, Scanned(a)[n])
<1> DEFINE P == {n \in 0..N : Known(a, n, Scanned(a)[n])}
<1>1. Len(a) = N
  OBVIOUS
<1>2. \A n \in 0..N : Scanned(a)[n] = IF n = 0 THEN Unheard ELSE Scan(Scanned(a)[n - 1], a[n])
  BY <1>1, PassUnfolds
<1>3. 0 \in P
  <2>1. Heard(a, 0) = {} /\ Late(a, 0) = {}
    BY DEF Heard, Late
  <2>2. Scanned(a)[0] = Unheard
    BY <1>2
  <2>3. Known(a, 0, Unheard)
    BY <2>1, FS_EmptySet DEF Known, Unheard
  <2> QED
    BY <2>2, <2>3
<1>4. ASSUME NEW n \in 1..N, n - 1 \in P PROVE n \in P
  <2> DEFINE m == n - 1
             old == Scanned(a)[m]
             new == Scanned(a)[n]
  <2>1. m \in Nat /\ n = m + 1 /\ n \in Nat /\ a[n] \in Nat /\ Known(a, m, old)
    BY <1>4
  <2>2. new = Scan(old, a[n])
    BY <1>2
  <2>3. /\ IsFiniteSet(Late(a, m)) /\ Cardinality(Late(a, m)) \in Nat /\ IsFiniteSet(Heard(a, m))
    BY <2>1, HeardFinite
  <2> HIDE DEF m, old, new
  <2>4. Heard(a, n) = Heard(a, m) \union {a[n]}
    BY <2>1 DEF Heard
  <2>5. Late(a, n) = IF Overtaken(a, n) THEN Late(a, m) \union {n} ELSE Late(a, m)
    BY <2>1 DEF Late
  <2>6. n \notin Late(a, m)
    BY <2>1 DEF Late
  <2>7. First(a, n) <=> a[n] \notin Heard(a, m)
    BY <2>1 DEF First, Heard
  <2>8. (\E j \in 1..n - 1 : a[j] > a[n]) <=> (\E s \in Heard(a, m) : s > a[n])
    BY <2>1 DEF Heard
  <2>9. Heard(a, m) \subseteq Nat /\ (m = 0 <=> Heard(a, m) = {})
    <3>1. \A i \in 1..m : a[i] \in Nat
      BY <2>1
    <3>2. m = 0 <=> Heard(a, m) = {}
      BY <2>1, HeardFinite, FS_EmptySet
    <3> QED
      BY <3>1, <3>2 DEF Heard
  <2>10. (\E s \in Heard(a, m) : s > a[n]) <=> old.seen # {} /\ a[n] < old.max
    BY <2>1, <2>9 DEF Known
  <2>11. ASSUME a[n] \in old.seen PROVE Known(a, n, new)
    <3>1. new = old /\ Heard(a, n) = Heard(a, m) /\ ~Overtaken(a, n)
      BY <2>1, <2>2, <2>4, <2>7, <2>11 DEF Known, Scan, Overtaken
    <3>2. m > 0
      BY <2>1, <2>9, <2>11 DEF Known
    <3>3. Late(a, n) = Late(a, m)
      BY <2>5, <3>1
    <3>4. /\ old.seen = Heard(a, n)
          /\ old.reordered = Cardinality(Late(a, n))
          /\ old.max \in Nat
          /\ old.max \in Heard(a, n) /\ \A s \in Heard(a, n) : s <= old.max
      BY <2>1, <3>1, <3>2, <3>3 DEF Known
    <3> QED
      BY <3>1, <3>4 DEF Known
  <2>12. ASSUME a[n] \notin old.seen PROVE Known(a, n, new)
    <3>1. /\ new.seen = old.seen \union {a[n]}
          /\ new.reordered = old.reordered + (IF old.seen # {} /\ a[n] < old.max THEN 1 ELSE 0)
          /\ new.max = IF old.seen = {} \/ a[n] > old.max THEN a[n] ELSE old.max
      BY <2>2, <2>12 DEF Scan
    <3>2. Overtaken(a, n) <=> old.seen # {} /\ a[n] < old.max
      BY <2>1, <2>7, <2>8, <2>10, <2>12 DEF Known, Overtaken
    <3>3. Cardinality(Late(a, n)) = Cardinality(Late(a, m)) + (IF Overtaken(a, n) THEN 1 ELSE 0)
      <4>1. Cardinality(Late(a, m) \union {n}) = Cardinality(Late(a, m)) + 1
        BY <2>3, <2>6, FS_AddElement
      <4> QED
        BY <2>3, <2>5, <4>1
    <3>4. new.reordered = Cardinality(Late(a, n))
      BY <2>1, <3>1, <3>2, <3>3 DEF Known
    <3>5. new.max \in Nat /\ new.max \in Heard(a, n) /\ \A s \in Heard(a, n) : s <= new.max
      <4>1. CASE old.seen = {} \/ a[n] > old.max
        <5>1. new.max = a[n] /\ \A s \in Heard(a, m) : s < a[n]
          BY <2>1, <2>9, <3>1, <4>1 DEF Known
        <5> QED
          BY <2>1, <2>4, <2>9, <5>1
      <4>2. CASE old.seen # {} /\ ~(a[n] > old.max)
        <5>1. new.max = old.max /\ m > 0 /\ old.max \in Heard(a, m) /\ old.max \in Nat
          BY <2>1, <2>9, <3>1, <4>2 DEF Known
        <5>2. \A s \in Heard(a, m) : s <= old.max
          BY <2>1, <5>1 DEF Known
        <5> QED
          BY <2>1, <2>4, <4>2, <5>1, <5>2
      <4> QED
        BY <4>1, <4>2
    <3>6. new.seen = Heard(a, n)
      BY <2>1, <2>4, <3>1 DEF Known
    <3> QED
      BY <3>4, <3>5, <3>6 DEF Known
  <2>13. Known(a, n, new)
    BY <2>11, <2>12
  <2> QED
    BY <2>13 DEF new
<1>5. 0..N \subseteq P
  BY <1>3, <1>4, UpTo
<1> QED
  BY <1>5

-----------------------------------------------------------------------------
(* What StreamStats returns for one stream. *)

Distinct(a) == {a[i] : i \in DOMAIN a}
Sent(a, end) == IF end THEN Packets ELSE Max(Distinct(a)) + 1

(* The statistics mean what they say of the arrivals a and the E: the body *)
(* of StatsMeanWhatTheySay, of one step.                                   *)
Means(st, a, end) ==
  /\ st.received = Cardinality(Distinct(a))
  /\ st.reordered = Cardinality({i \in DOMAIN a : Overtaken(a, i)})
  /\ st.sent = Sent(a, end)
  /\ st.lost = Cardinality((0..Sent(a, end) - 1) \ Distinct(a))

LEMMA GreatestIsMax ==
  ASSUME NEW S \in SUBSET Int, NEW x \in S, \A y \in S : y <= x
  PROVE  Max(S) = x
<1>1. Max(S) \in S /\ \A y \in S : Max(S) >= y
  BY DEF Max
<1>2. Max(S) \in Int /\ x \in Int
  BY <1>1
<1>3. Max(S) >= x /\ x >= Max(S)
  BY <1>1, <1>2
<1> QED
  BY <1>2, <1>3

LEMMA StatsMean ==
  ASSUME NEW a \in Arrivals, NEW end \in BOOLEAN, NEW rate, end \/ a # <<>>
  PROVE  LET st == StreamStats(rate, IF end THEN Packets ELSE 0, a)
         IN  /\ Means(st, a, end)
             /\ st.mbps = rate
             /\ st.received \in Nat /\ st.sent \in Nat /\ st.lost \in Nat
             /\ st.received <= st.sent
             /\ st.received = 0 <=> a = <<>>
<1> DEFINE sent0 == IF end THEN Packets ELSE 0
           st == StreamStats(rate, sent0, a)
<1>1. PICK N \in 0..MaxArrivals : a \in [1..N -> 0..Packets - 1]
  BY DEF Arrivals
<1>2. N \in Nat /\ a \in [1..N -> Nat] /\ Packets \in Nat \ {0}
  BY <1>1, LadderAssumption
<1>3. Len(a) = N /\ DOMAIN a = 1..N /\ (a = <<>> <=> N = 0)
  BY <1>2
<1> DEFINE scan == Scanned(a)[N]
<1>4. Known(a, N, scan)
  BY <1>2, PassKnows
<1>5. Heard(a, N) = Distinct(a) /\ Late(a, N) = {i \in DOMAIN a : Overtaken(a, i)}
  BY <1>3 DEF Heard, Late, Distinct
<1>6. /\ IsFiniteSet(Distinct(a))
      /\ Cardinality(Distinct(a)) \in Nat
      /\ Cardinality(Distinct(a)) = 0 <=> N = 0
      /\ Distinct(a) = {} <=> N = 0
  BY <1>2, <1>5, HeardFinite, FS_EmptySet
<1>7. Distinct(a) \subseteq 0..Packets - 1
  BY <1>1 DEF Distinct
<1>8. Total(sent0, scan) = Sent(a, end)
  <2>1. CASE end
    BY <1>2, <2>1 DEF Total, Sent
  <2>2. CASE ~end
    <3>1. N # 0
      BY <1>3, <2>2
    <3>2. scan.max \in Distinct(a) /\ \A s \in Distinct(a) : s <= scan.max
      BY <1>2, <1>4, <1>5, <3>1 DEF Known
    <3>3. Max(Distinct(a)) = scan.max
      BY <1>7, <3>2, GreatestIsMax
    <3>4. scan.seen # {}
      BY <1>4, <1>5, <1>6, <3>1 DEF Known
    <3> QED
      BY <2>2, <3>3, <3>4 DEF Total, Sent
  <2> QED
    BY <2>1, <2>2
<1>9. Sent(a, end) \in Nat /\ Distinct(a) \subseteq 0..Sent(a, end) - 1
  <2>1. CASE end
    BY <1>2, <1>7, <2>1 DEF Sent
  <2>2. CASE ~end
    <3>1. N # 0
      BY <1>3, <2>2
    <3>2. scan.max \in Distinct(a) /\ \A s \in Distinct(a) : s <= scan.max
      BY <1>2, <1>4, <1>5, <3>1 DEF Known
    <3>3. Max(Distinct(a)) = scan.max
      BY <1>7, <3>2, GreatestIsMax
    <3> QED
      BY <1>2, <1>7, <2>2, <3>2, <3>3 DEF Sent
  <2> QED
    BY <2>1, <2>2
<1>10. /\ Cardinality((0..Sent(a, end) - 1) \ Distinct(a)) = Sent(a, end) - Cardinality(Distinct(a))
       /\ Cardinality(Distinct(a)) <= Sent(a, end)
  <2> DEFINE all == 0..Sent(a, end) - 1
  <2>1. IsFiniteSet(all) /\ Cardinality(all) = Sent(a, end)
    <3>1. 0 \in Int /\ Sent(a, end) - 1 \in Int
      BY <1>9
    <3> HIDE DEF Means
    <3>2. /\ IsFiniteSet(all)
          /\ Cardinality(all) = IF 0 > Sent(a, end) - 1 THEN 0 ELSE Sent(a, end) - 1 - 0 + 1
      BY <3>1, FS_Interval
    <3> QED
      BY <1>9, <3>2
  <2>2. all \cap Distinct(a) = Distinct(a)
    BY <1>9
  <2>3. Cardinality(Distinct(a)) <= Cardinality(all)
    BY <1>9, <2>1, FS_Subset
  <2>4. Cardinality(all \ Distinct(a)) = Cardinality(all) - Cardinality(all \cap Distinct(a))
    BY <2>1, FS_Difference
  <2> QED
    BY <2>1, <2>2, <2>3, <2>4
<1>11. scan.seen = Distinct(a) /\ scan.reordered = Cardinality({i \in DOMAIN a : Overtaken(a, i)})
  BY <1>4, <1>5 DEF Known
<1>12. /\ st.mbps = rate
       /\ st.sent = Total(sent0, scan)
       /\ st.received = Cardinality(scan.seen)
       /\ st.lost = IF Total(sent0, scan) > Cardinality(scan.seen)
                    THEN Total(sent0, scan) - Cardinality(scan.seen) ELSE 0
       /\ st.reordered = scan.reordered
  BY <1>3 DEF StreamStats
<1> HIDE DEF scan, st, sent0
<1>13. st.lost = Sent(a, end) - Cardinality(Distinct(a))
  BY <1>6, <1>8, <1>9, <1>10, <1>11, <1>12
<1>14. Means(st, a, end)
  BY <1>8, <1>10, <1>11, <1>12, <1>13 DEF Means
<1>15. st.received \in Nat /\ (st.received = 0 <=> a = <<>>)
  BY <1>3, <1>6, <1>11, <1>12
<1>16. st.sent \in Nat /\ st.lost \in Nat /\ st.received <= st.sent
  BY <1>6, <1>8, <1>9, <1>10, <1>11, <1>12, <1>13
<1> QED
  BY <1>12, <1>14, <1>15, <1>16 DEF st, sent0

-----------------------------------------------------------------------------
(* The inductive invariant. *)

Good(st) == ~Lossy(st) /\ st.received > 0

StreamHeard == [arrivals : Arrivals, end : BOOLEAN]

(* Step k of the ladder is what StreamStats makes of what was heard at the *)
(* k-th rate, and something was heard.                                     *)
StepIs(st, k, h) ==
  /\ h.end \/ h.arrivals # <<>>
  /\ st = StreamStats(Rates[k], IF h.end THEN Packets ELSE 0, h.arrivals)

Steps == {StreamStats(rate, sent, a) : rate \in Nat, sent \in {0, Packets}, a \in Arrivals}

StepsAre(ss, hs) ==
  /\ Len(hs) = Len(ss) /\ Len(ss) <= Len(Rates)
  /\ ss \in Seq(Steps) /\ hs \in Seq(StreamHeard)
  /\ \A k \in 1..Len(ss) : StepIs(ss[k], k, hs[k])

(* Only the last step can be a bad one, and then the ladder has ended.     *)
OnlyLastIsBad(ss, end) ==
  \A k \in 1..Len(ss) : k < Len(ss) \/ end = "no" => Good(ss[k])

CleanIsOfLastGood(ss, rate) ==
  rate = IF Len(ss) = 0 THEN 0
         ELSE IF Good(ss[Len(ss)]) THEN Rates[Len(ss)]
         ELSE IF Len(ss) > 1 THEN Rates[Len(ss) - 1] ELSE 0

LargeIsOfFirst(ss, word) ==
  word = IF ss = <<>> THEN "" ELSE IF ss[1].received = 0 THEN "dropped" ELSE "ok"

LadderInv ==
  /\ StepsAre(steps, heard)
  /\ OnlyLastIsBad(steps, done)
  /\ CleanIsOfLastGood(steps, clean)
  /\ LargeIsOfFirst(steps, large)

LEMMA InitLadder == ASSUME Init PROVE LadderInv
<1>1. steps = <<>> /\ heard = <<>> /\ clean = 0 /\ large = "" /\ done = "no"
  BY DEF Init
<1>2. Len(<<>>) = 0 /\ Len(Rates) \in Nat
  BY LadderAssumption
<1>3. StepsAre(<<>>, <<>>)
  BY <1>2 DEF StepsAre
<1>4. OnlyLastIsBad(<<>>, "no")
  BY DEF OnlyLastIsBad
<1>5. CleanIsOfLastGood(<<>>, 0)
  BY <1>2 DEF CleanIsOfLastGood
<1>6. LargeIsOfFirst(<<>>, "")
  BY DEF LargeIsOfFirst
<1> QED
  BY <1>1, <1>3, <1>4, <1>5, <1>6 DEF LadderInv

(* A step that ran is summed up, and received a packet exactly if there    *)
(* was any data.                                                           *)
LEMMA RunKeeps == ASSUME LadderInv, StepRuns PROVE LadderInv'
<1> DEFINE n == Len(steps)
<1>1. /\ Len(heard) = n /\ n <= Len(Rates)
      /\ steps \in Seq(Steps) /\ heard \in Seq(StreamHeard)
      /\ \A k \in 1..n : StepIs(steps[k], k, heard[k])
  BY DEF LadderInv, StepsAre
<1>2. n \in Nat /\ Len(Rates) \in Nat
  BY <1>1, LadderAssumption
<1>3. done = "no" /\ n + 1 <= Len(Rates)
  BY DEF StepRuns, Rung
<1>4. Rates[n + 1] \in Nat
  BY <1>2, <1>3, LadderAssumption
<1>5. PICK a \in Arrivals, end \in BOOLEAN :
        LET st == StreamStats(Rates[n + 1], IF end THEN Packets ELSE 0, a)
            stop == a = <<>> \/ Lossy(st)
        IN  /\ end \/ a # <<>>
            /\ steps' = Append(steps, st)
            /\ heard' = Append(heard, [arrivals |-> a, end |-> end])
            /\ large' = IF n + 1 = 1 THEN (IF a # <<>> THEN "ok" ELSE "dropped") ELSE large
            /\ clean' = IF stop THEN clean ELSE Rates[n + 1]
            /\ done' = IF stop THEN "yes" ELSE "no"
  BY DEF StepRuns, Rung
<1> DEFINE st == StreamStats(Rates[n + 1], IF end THEN Packets ELSE 0, a)
           h == [arrivals |-> a, end |-> end]
<1>6. st \in Steps /\ h \in StreamHeard
  BY <1>4 DEF Steps, StreamHeard
<1>7. StepIs(st, n + 1, h)
  BY <1>5 DEF StepIs
<1>8. st.received \in Nat /\ (st.received = 0 <=> a = <<>>)
  BY <1>5, StatsMean
<1>9. Good(st) <=> ~(a = <<>> \/ Lossy(st))
  BY <1>8 DEF Good
<1>10. /\ steps' = Append(steps, st) /\ heard' = Append(heard, h)
       /\ large' = IF n + 1 = 1 THEN (IF a # <<>> THEN "ok" ELSE "dropped") ELSE large
       /\ clean' = IF Good(st) THEN Rates[n + 1] ELSE clean
       /\ done' = IF Good(st) THEN "no" ELSE "yes"
  BY <1>5, <1>9
<1> HIDE DEF st, h, n
<1>11. /\ steps' \in Seq(Steps) /\ Len(steps') = n + 1
       /\ steps'[n + 1] = st /\ \A k \in 1..n : steps'[k] = steps[k]
  BY <1>1, <1>6, <1>10 DEF n
<1>12. /\ heard' \in Seq(StreamHeard) /\ Len(heard') = n + 1
       /\ heard'[n + 1] = h /\ \A k \in 1..n : heard'[k] = heard[k]
  BY <1>1, <1>6, <1>10
<1>13. \A k \in 1..n + 1 : k \in 1..n \/ k = n + 1
  BY <1>2
<1>14. \A k \in 1..n + 1 : StepIs(steps'[k], k, heard'[k])
  BY <1>1, <1>7, <1>11, <1>12, <1>13
<1>15. StepsAre(steps', heard')
  BY <1>2, <1>3, <1>11, <1>12, <1>14 DEF StepsAre
<1>16. \A k \in 1..n : Good(steps[k])
  BY <1>3 DEF LadderInv, OnlyLastIsBad, n
<1>17. OnlyLastIsBad(steps', done')
  <2>1. \A k \in 1..n + 1 : k < n + 1 \/ done' = "no" => Good(steps'[k])
    BY <1>2, <1>10, <1>11, <1>13, <1>16
  <2> QED
    BY <1>11, <2>1 DEF OnlyLastIsBad
<1>18. CleanIsOfLastGood(steps', clean')
  <2>1. clean = IF n > 0 THEN Rates[n] ELSE 0
    <3>1. n > 0 => Good(steps[n])
      BY <1>2, <1>16
    <3> QED
      BY <1>2, <3>1 DEF LadderInv, CleanIsOfLastGood, n
  <2>2. clean' = IF Good(steps'[n + 1]) THEN Rates[n + 1] ELSE IF n > 0 THEN Rates[n] ELSE 0
    BY <1>10, <1>11, <2>1
  <2>3. n + 1 # 0 /\ (n + 1 > 1 <=> n > 0) /\ n + 1 - 1 = n
    BY <1>2
  <2> QED
    BY <1>2, <1>11, <2>2, <2>3 DEF CleanIsOfLastGood
<1>19. LargeIsOfFirst(steps', large')
  <2>1. steps' # <<>> /\ (n = 0 <=> steps = <<>>)
    BY <1>1, <1>2, <1>11 DEF n
  <2>2. CASE n = 0
    <3>1. n + 1 = 1 /\ steps'[1] = st
      BY <1>11, <2>2
    <3>2. large' = IF st.received = 0 THEN "dropped" ELSE "ok"
      BY <1>8, <1>10, <3>1
    <3> QED
      BY <2>1, <3>1, <3>2 DEF LargeIsOfFirst
  <2>3. CASE n # 0
    <3>1. 1 \in 1..n /\ n + 1 # 1
      BY <1>2, <2>3
    <3> QED
      BY <1>10, <1>11, <2>1, <2>3, <3>1 DEF LadderInv, LargeIsOfFirst
  <2> QED
    BY <2>2, <2>3
<1> QED
  BY <1>15, <1>17, <1>18, <1>19 DEF LadderInv

LEMMA NextLadder == ASSUME LadderInv, [Next]_vars PROVE LadderInv'
<1>1. CASE StepRuns
  BY <1>1, RunKeeps
<1>2. CASE StepFails \/ LadderEnds
  <2>1. UNCHANGED <<steps, heard, clean, large>> /\ done = "no"
    BY <1>2 DEF StepFails, LadderEnds
  <2>2. OnlyLastIsBad(steps, done')
    BY <2>1 DEF LadderInv, OnlyLastIsBad
  <2> QED
    BY <2>1, <2>2 DEF LadderInv
<1>3. CASE UNCHANGED vars
  BY <1>3 DEF vars, LadderInv
<1> QED
  BY <1>1, <1>2, <1>3 DEF Next

(* Whatever the ladder and whatever arrives: each step is summed up from   *)
(* what was heard at its own rate, every step before the last one is good, *)
(* the clean rate is that of the last good step, and large packets are     *)
(* judged by the first step alone.                                         *)
THEOREM LadderInvariant == Spec => []LadderInv
<1>1. Init => LadderInv
  BY InitLadder
<1>2. LadderInv /\ [Next]_vars => LadderInv'
  BY NextLadder
<1> QED
  BY <1>1, <1>2, PTL DEF Spec

-----------------------------------------------------------------------------
(* What the statistics of a ladder say. *)

LEMMA StepsMean ==
  ASSUME LadderInv, NEW k \in 1..Len(steps)
  PROVE  /\ Means(steps[k], heard[k].arrivals, heard[k].end)
         /\ steps[k].mbps = Rates[k] /\ steps[k].received \in Nat
         /\ Good(steps[k]) <=> CleanStep(steps[k])
<1>1. heard[k] \in StreamHeard /\ StepIs(steps[k], k, heard[k])
  <2>1. k \in 1..Len(heard) /\ heard \in Seq(StreamHeard)
    BY DEF LadderInv, StepsAre
  <2> QED
    BY <2>1 DEF LadderInv, StepsAre
<1>2. heard[k].arrivals \in Arrivals /\ heard[k].end \in BOOLEAN
  BY <1>1 DEF StreamHeard
<1>3. heard[k].end \/ heard[k].arrivals # <<>>
  BY <1>1 DEF StepIs
<1> DEFINE a == heard[k].arrivals
           end == heard[k].end
           st == StreamStats(Rates[k], IF end THEN Packets ELSE 0, a)
<1>4. /\ Means(st, a, end) /\ st.mbps = Rates[k] /\ st.received \in Nat
      /\ st.sent \in Nat /\ st.lost \in Nat /\ st.received <= st.sent
  <2>1. a \in Arrivals /\ end \in BOOLEAN /\ (end \/ a # <<>>)
    BY <1>2, <1>3
  <2> HIDE DEF a, end
  <2> QED
    BY <2>1, StatsMean
<1>5. steps[k] = st
  BY <1>1 DEF StepIs
<1>6. Good(st) <=> CleanStep(st)
  <2> HIDE DEF st
  <2>1. LossLimit * st.sent \in Int /\ st.lost * 100 \in Int
    BY <1>4, LadderAssumption
  <2> QED
    BY <1>4, <2>1 DEF Good, Lossy, CleanStep
<1> QED
  BY <1>4, <1>5, <1>6

(* For arrivals of any length, in any order and with any duplicates, the   *)
(* one pass of StreamStats counts what the whole list says: each packet    *)
(* once, as reordered those overtaken before their first arrival, as lost  *)
(* those of the packets sent that never came, never below zero.            *)
THEOREM StatsCountTheArrivals == Spec => []StatsMeanWhatTheySay
<1>1. LadderInv => StatsMeanWhatTheySay
  <2> SUFFICES ASSUME LadderInv, NEW k \in DOMAIN steps
               PROVE  LET a == heard[k].arrivals
                          distinct == {a[i] : i \in DOMAIN a}
                          sent == IF heard[k].end THEN Packets ELSE Max(distinct) + 1
                      IN  /\ steps[k].received = Cardinality(distinct)
                          /\ steps[k].reordered = Cardinality({i \in DOMAIN a : Overtaken(a, i)})
                          /\ steps[k].sent = sent
                          /\ steps[k].lost = Cardinality((0..sent - 1) \ distinct)
    BY DEF StatsMeanWhatTheySay
  <2>1. k \in 1..Len(steps)
    BY DEF LadderInv, StepsAre
  <2>2. Means(steps[k], heard[k].arrivals, heard[k].end)
    BY <2>1, StepsMean
  <2> QED
    BY <2>2 DEF Means, Sent, Distinct
<1> QED
  BY <1>1, LadderInvariant, PTL

(* The steps up to which every one is at or under the limit and heard      *)
(* data: an initial piece of the ladder that ran, all but its last step.   *)
GoodSteps == {k \in DOMAIN steps : \A j \in 1..k : CleanStep(steps[j])}

LEMMA GoodStepsArePrefix ==
  ASSUME LadderInv
  PROVE  /\ GoodSteps = IF Len(steps) > 0 /\ ~Good(steps[Len(steps)])
                        THEN 1..Len(steps) - 1 ELSE 1..Len(steps)
         /\ 1..Len(steps) - 1 \subseteq GoodSteps
         /\ Len(steps) \in Nat /\ Len(steps) <= Len(Rates)
<1> DEFINE n == Len(steps)
<1>1. n \in Nat /\ DOMAIN steps = 1..n /\ n <= Len(Rates)
  BY DEF LadderInv, StepsAre
<1>2. \A k \in 1..n - 1 : Good(steps[k])
  BY <1>1 DEF LadderInv, OnlyLastIsBad
<1>3. GoodSteps = {k \in 1..n : \A j \in 1..k : Good(steps[j])}
  <2>1. \A j \in 1..n : CleanStep(steps[j]) <=> Good(steps[j])
    BY StepsMean
  <2>2. \A k \in 1..n : 1..k \subseteq 1..n
    BY <1>1
  <2> HIDE DEF n
  <2> QED
    BY <1>1, <2>1, <2>2 DEF GoodSteps
<1> HIDE DEF n
<1>4. 1..n - 1 \subseteq GoodSteps
  BY <1>1, <1>2, <1>3
<1>5. n \in GoodSteps <=> n > 0 /\ Good(steps[n])
  BY <1>1, <1>2, <1>3
<1>6. GoodSteps = IF n > 0 /\ ~Good(steps[n]) THEN 1..n - 1 ELSE 1..n
  <2>1. GoodSteps \subseteq 1..n
    BY <1>3
  <2>2. \A k \in 1..n : k \in 1..n - 1 \/ k = n
    BY <1>1
  <2>3. n \notin 1..n - 1 /\ (n = 0 => 1..n = {}) /\ (n > 0 => n \in 1..n)
    BY <1>1
  <2>4. CASE n \in GoodSteps
    BY <1>4, <1>5, <2>1, <2>2, <2>4
  <2>5. CASE n \notin GoodSteps /\ n > 0
    BY <1>4, <1>5, <2>1, <2>2, <2>3, <2>5
  <2>6. CASE n = 0
    BY <1>1, <2>1, <2>3, <2>6
  <2> QED
    BY <1>1, <2>4, <2>5, <2>6
<1> QED
  BY <1>1, <1>4, <1>6 DEF n

(* MaxCleanMbps is "the rate of the last step at or under the limit (0 if  *)
(* none)".                                                                 *)
CleanIsOfLast == clean = IF GoodSteps = {} THEN 0 ELSE Rates[Max(GoodSteps)]

LEMMA CleanLast == ASSUME LadderInv PROVE CleanIsOfLast
<1> DEFINE n == Len(steps)
<1>1. n \in Nat
  BY GoodStepsArePrefix
<1>2. CleanIsOfLastGood(steps, clean)
  BY DEF LadderInv
<1>3. GoodSteps = IF n > 0 /\ ~Good(steps[n]) THEN 1..n - 1 ELSE 1..n
  BY GoodStepsArePrefix
<1>4. clean = IF n = 0 THEN 0 ELSE IF Good(steps[n]) THEN Rates[n] ELSE IF n > 1 THEN Rates[n - 1] ELSE 0
  BY <1>2 DEF CleanIsOfLastGood
<1> HIDE DEF n
<1>5. ASSUME NEW m \in Nat, GoodSteps = 1..m PROVE CleanIsOfLast <=> clean = IF m = 0 THEN 0 ELSE Rates[m]
  <2>1. CASE m = 0
    BY <1>5, <2>1 DEF CleanIsOfLast
  <2>2. CASE m # 0
    <3>1. m \in 1..m /\ (1..m) \subseteq Int /\ \A k \in 1..m : k <= m
      BY <2>2
    <3>2. Max(1..m) = m
      BY <3>1, GreatestIsMax
    <3> QED
      BY <1>5, <2>2, <3>1, <3>2 DEF CleanIsOfLast
  <2> QED
    BY <2>1, <2>2
<1>6. CASE n > 0 /\ ~Good(steps[n])
  <2>1. n - 1 \in Nat /\ GoodSteps = 1..n - 1
    BY <1>1, <1>3, <1>6
  <2>2. clean = IF n - 1 = 0 THEN 0 ELSE Rates[n - 1]
    BY <1>1, <1>4, <1>6
  <2> QED
    BY <1>5, <2>1, <2>2
<1>7. CASE ~(n > 0 /\ ~Good(steps[n]))
  <2>1. GoodSteps = 1..n
    BY <1>3, <1>7
  <2>2. clean = IF n = 0 THEN 0 ELSE Rates[n]
    BY <1>1, <1>4, <1>7
  <2> QED
    BY <1>1, <1>5, <2>1, <2>2
<1> QED
  BY <1>6, <1>7

(* On every ladder, whatever the order of its rates: MaxCleanMbps is the   *)
(* rate of the last step at or under the limit, 0 if there is none, and no *)
(* stream is run after one that was not.                                   *)
THEOREM CleanIsLastGoodRate == Spec => [](CleanIsOfLast /\ 1..Len(steps) - 1 \subseteq GoodSteps)
<1>1. LadderInv => CleanIsOfLast /\ 1..Len(steps) - 1 \subseteq GoodSteps
  BY CleanLast, GoodStepsArePrefix
<1> QED
  BY <1>1, LadderInvariant, PTL

-----------------------------------------------------------------------------
(* A ladder that climbs, as the built-in one does.  RunLadder itself does  *)
(* not ask for it: on a ladder that falls, the last clean rate is not the  *)
(* highest one.                                                            *)
Ascending == \A k, l \in 1..Len(Rates) : k <= l => Rates[k] <= Rates[l]

LEMMA LastIsHighest ==
  ASSUME Ascending, LadderInv, GoodSteps # {}
  PROVE  Max({steps[k].mbps : k \in GoodSteps}) = Rates[Max(GoodSteps)]
<1>1. PICK m \in Nat : m # 0 /\ GoodSteps = 1..m /\ m <= Len(steps)
  BY GoodStepsArePrefix
<1>2. Len(steps) \in Nat /\ Len(steps) <= Len(Rates) /\ Len(Rates) \in Nat
  BY GoodStepsArePrefix, LadderAssumption
<1>3. \A k \in 1..m : Rates[k] \in Nat /\ steps[k].mbps = Rates[k]
  <2> TAKE k \in 1..m
  <2>1. k \in 1..Len(steps) /\ k \in 1..Len(Rates)
    BY <1>1, <1>2
  <2> QED
    BY <2>1, StepsMean, LadderAssumption
<1>4. m \in 1..m /\ (1..m) \subseteq Int /\ \A k \in 1..m : k <= m
  BY <1>1
<1>5. Max(GoodSteps) = m
  BY <1>1, <1>4, GreatestIsMax
<1> DEFINE rates == {steps[k].mbps : k \in GoodSteps}
<1>6. rates = {Rates[k] : k \in 1..m}
  BY <1>1, <1>3
<1>7. rates \subseteq Int /\ Rates[m] \in rates
  <2>1. \A y \in rates : y \in Nat
    BY <1>3, <1>6
  <2> QED
    BY <1>4, <1>6, <2>1
<1>8. \A y \in rates : y <= Rates[m]
  <2>1. \A k \in 1..m : Rates[k] <= Rates[m]
    BY <1>1, <1>2, <1>4 DEF Ascending
  <2> QED
    BY <1>6, <2>1
<1>9. Max(rates) = Rates[m]
  BY <1>7, <1>8, GreatestIsMax
<1> QED
  BY <1>5, <1>9

(* On a ladder that climbs, the rate reported as clean is the highest one  *)
(* that ran, with every rate below it, at or under the loss limit, and     *)
(* large packets are called dropped exactly if the first stream ran        *)
(* without a data packet.                                                  *)
THEOREM CleanIsHighestIfAscending ==
  ASSUME Ascending
  PROVE  Spec => []CleanIsHighest
<1>1. LadderInv => CleanIsHighest
  <2> SUFFICES ASSUME LadderInv PROVE CleanIsHighest
    OBVIOUS
  <2>1. clean = IF GoodSteps = {} THEN 0 ELSE Max({steps[k].mbps : k \in GoodSteps})
    BY CleanLast, LastIsHighest DEF CleanIsOfLast
  <2>2. \A k \in 1..Len(steps) - 1 : k \in GoodSteps
    BY GoodStepsArePrefix
  <2>3. LargeIsOfFirst(steps, large)
    BY DEF LadderInv
  <2> QED
    BY <2>1, <2>2, <2>3 DEF CleanIsHighest, GoodSteps, LargeIsOfFirst
<1> QED
  BY <1>1, LadderInvariant, PTL
=============================================================================
