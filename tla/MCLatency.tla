------------------------------ MODULE MCLatency ------------------------------
(* Instances of Latency for TLC: the hosts are interchangeable.  The       *)
(* series are all short ones, and falling ones of the lengths used.        *)
EXTENDS Latency, Aggregate, TLC
Symmetry == Permutations(Hosts)
MCSeries == UNION {[1..n -> 1..3] : n \in 1..5} \union
            {[k \in 1..n |-> n - k] : n \in {10, 20}}

(* The latency of a report, by which the nearest POP is chosen, is made of *)
(* the order statistics its fields are named for, in whatever order the    *)
(* samples came: the comment of percentile says "nearest-rank".            *)
AggregateIsRight == (\E h \in Hosts : step[h] = "ok") => WrongSeries = {}
=============================================================================
