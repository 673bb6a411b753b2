------------------------------ MODULE Aggregate ------------------------------
(***************************************************************************)
(* AggregateSamples of internal/nettest: the order statistics of a series  *)
(* of round trips, checked against what a nearest-rank percentile is.      *)
(***************************************************************************)
EXTENDS Naturals, Sequences, FiniteSets

CONSTANT Series    \* the series of samples looked at, in whole milliseconds

ASSUME SeriesAssumption == Series \subseteq Seq(Nat) \ {<<>>}

(* Mutant: the rank is rounded down.                                       *)
PercentileDown(sorted, pct) ==
  LET rank == (pct * Len(sorted)) \div 100
  IN  sorted[IF rank < 1 THEN 1 ELSE rank]

(* The rank is rounded up.  The floating-point product rounds up to the    *)
(* same rank as the exact one: 0.95 is off by less than the products are   *)
(* rounded, and 0.5 is exact.                                              *)
Percentile(sorted, pct) ==
  LET rank == (pct * Len(sorted) + 99) \div 100
  IN  sorted[IF rank < 1 THEN 1 ELSE IF rank > Len(sorted) THEN Len(sorted) ELSE rank]

(* sort.Float64s: the place of a sample is the number of those that come   *)
(* no later, the first of two equal ones first.                            *)
Place(s, k) ==
  Cardinality({j \in DOMAIN s : s[j] < s[k] \/ (s[j] = s[k] /\ j <= k)})
Sorted(s) == [i \in DOMAIN s |-> s[CHOOSE k \in DOMAIN s : Place(s, k) = i]]

AggregateSamples(rtts) ==
  LET sorted == Sorted(rtts)
  IN  [min |-> sorted[1], median |-> Percentile(sorted, 50),
       p95 |-> Percentile(sorted, 95), max |-> sorted[Len(sorted)]]

(* v is the pct-th percentile of s by nearest rank: the smallest sample    *)
(* that pct in a hundred samples do not exceed.                            *)
IsPercentile(v, s, pct) ==
  /\ v \in {s[k] : k \in DOMAIN s}
  /\ 100 * Cardinality({k \in DOMAIN s : s[k] <= v}) >= pct * Len(s)
  /\ 100 * Cardinality({k \in DOMAIN s : s[k] < v})  <  pct * Len(s)

(* The series whose statistics are wrong; TLC evaluates this set once.     *)
WrongSeries ==
  {s \in Series :
    LET r == AggregateSamples(s)
    IN  ~ /\ \A k \in DOMAIN s : r.min <= s[k] /\ s[k] <= r.max
          /\ r.min \in {s[k] : k \in DOMAIN s} /\ r.max \in {s[k] : k \in DOMAIN s}
          /\ IsPercentile(r.median, s, 50) /\ IsPercentile(r.p95, s, 95)}
=============================================================================
