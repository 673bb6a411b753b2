---------------------------- MODULE LatencyProofs ----------------------------
(***************************************************************************)
(* Theorems about Latency, for any set of hosts and any number of samples, *)
(* and about the percentiles of Aggregate, for any series.                 *)
(***************************************************************************)
EXTENDS MCLatency, FiniteSetTheorems, TLAPS

USE SamplesAssumption, KernelAssumption

-----------------------------------------------------------------------------
(* The inductive invariant. *)

Taken(h) == Cardinality(samples[h])

(* While echoes are sent each ping has its own sequence number, a read is  *)
(* for a number not sampled yet, and nothing counts as dropped; while TCP  *)
(* connects are made each one is a sample or a drop.                       *)
Counted(h) ==
  /\ samples[h] \subseteq 1..seq[h]
  /\ step[h] # "failed" \/ result[h].dropped = dropped[h]
  /\ step[h] \in {"icmp", "read"} => pings[h] = seq[h] /\ dropped[h] = 0
  /\ step[h] = "tcp" => pings[h] = seq[h] /\ dropped[h] + Taken(h) = seq[h]

CountsInv == TypeOK /\ LossIsReal /\ \A h \in Hosts : Counted(h)

-----------------------------------------------------------------------------
LEMMA Finite ==
  ASSUME NEW n \in 0..Samples, NEW S, S \subseteq 1..n
  PROVE  /\ IsFiniteSet(S) /\ Cardinality(S) \in 0..n
         /\ n < Samples => Cardinality(S \union {n + 1}) = Cardinality(S) + 1
         /\ S = {} <=> Cardinality(S) = 0
<1>1. IsFiniteSet(1..n) /\ Cardinality(1..n) = n
  BY FS_Interval
<1>2. IsFiniteSet(S) /\ Cardinality(S) <= n
  BY <1>1, FS_Subset
<1>3. Cardinality(S) \in Nat
  BY <1>2, FS_CardinalityType
<1>4. n + 1 \notin S
  OBVIOUS
<1>5. Cardinality(S \union {n + 1}) = Cardinality(S) + 1
  BY <1>2, <1>4, FS_AddElement
<1>6. S = {} <=> Cardinality(S) = 0
  BY <1>2, FS_EmptySet
<1> QED
  BY <1>2, <1>3, <1>5, <1>6

LEMMA InitCountsInv == Init => CountsInv
<1> SUFFICES ASSUME Init PROVE CountsInv
  OBVIOUS
<1>1. 0 \in 0..Samples
  OBVIOUS
<1>2. TypeOK
  BY <1>1 DEF Init, TypeOK, Steps
<1>3. LossIsReal
  BY DEF Init, LossIsReal
<1>4. ASSUME NEW h \in Hosts PROVE Counted(h)
  BY DEF Init, Counted
<1> QED
  BY <1>2, <1>3, <1>4 DEF CountsInv

Returned(h) ==
  /\ step[h] = "ok" => result[h].attempts = pings[h]
  /\ step[h] \in {"ok", "failed"} => result[h].dropped = pings[h] - Taken(h)

LEMMA LossByHost == LossIsReal <=> \A h \in Hosts : Returned(h)
  BY DEF LossIsReal, Returned, Taken

(* A step of h that leaves what is counted of the other hosts alone.       *)
LEMMA HostKeeps ==
  ASSUME CountsInv, NEW h \in Hosts, TypeOK', Counted(h)', Returned(h)',
         \A g \in Hosts \ {h} :
           /\ step'[g] = step[g] /\ seq'[g] = seq[g] /\ samples'[g] = samples[g]
           /\ pings'[g] = pings[g] /\ dropped'[g] = dropped[g] /\ result'[g] = result[g]
  PROVE  CountsInv'
<1>1. ASSUME NEW g \in Hosts PROVE Counted(g)' /\ Returned(g)'
  BY LossByHost DEF CountsInv, Counted, Returned, Taken
<1>2. (\A g \in Hosts : Returned(g))' => LossIsReal'
  BY DEF LossIsReal, Returned, Taken
<1> QED
  BY <1>1, <1>2 DEF CountsInv

(* What is known of a host before its step.                                *)
LEMMA HostFacts ==
  ASSUME CountsInv, NEW h \in Hosts
  PROVE  /\ TypeOK /\ Counted(h) /\ step[h] \in Steps
         /\ seq[h] \in 0..Samples /\ pings[h] \in 0..Samples /\ dropped[h] \in 0..Samples
         /\ samples[h] \subseteq 1..Samples
         /\ Taken(h) \in 0..seq[h] /\ (samples[h] = {} <=> Taken(h) = 0)
<1>1. /\ TypeOK /\ Counted(h) /\ step[h] \in Steps
      /\ seq[h] \in 0..Samples /\ pings[h] \in 0..Samples /\ dropped[h] \in 0..Samples
      /\ samples[h] \subseteq 1..Samples
  BY DEF CountsInv, TypeOK
<1>2. Taken(h) \in 0..seq[h] /\ (samples[h] = {} <=> Taken(h) = 0)
  BY <1>1, Finite DEF Counted, Taken
<1> QED
  BY <1>1, <1>2

(* One ping more, answered or not, and its sequence number is a new one.   *)
LEMMA NextNumber ==
  ASSUME CountsInv, NEW h \in Hosts, seq[h] < Samples
  PROVE  /\ seq[h] + 1 \in 1..Samples /\ samples[h] \subseteq 1..seq[h] + 1
         /\ samples[h] \union {seq[h] + 1} \subseteq 1..seq[h] + 1
         /\ Cardinality(samples[h] \union {seq[h] + 1}) = Taken(h) + 1
<1>1. seq[h] \in 0..Samples /\ samples[h] \subseteq 1..seq[h]
  BY HostFacts DEF Counted
<1>2. Cardinality(samples[h] \union {seq[h] + 1}) = Taken(h) + 1
  BY <1>1, Finite DEF Taken
<1> QED
  BY <1>1, <1>2

LEMMA IcmpSendKeeps == ASSUME CountsInv, NEW h \in Hosts, IcmpSend(h) PROVE CountsInv'
<1>1. /\ seq' = [seq EXCEPT ![h] = @ + 1] /\ pings' = [pings EXCEPT ![h] = @ + 1]
      /\ step' \in {step, [step EXCEPT ![h] = "read"]}
      /\ echoed' \in {echoed, [echoed EXCEPT ![h] = @ \union {seq[h] + 1}]}
      /\ UNCHANGED <<inbox, samples, source, dropped, result>>
      /\ step[h] = "icmp" /\ seq[h] < Samples
  BY HostFacts DEF IcmpSend, TypeOK
<1>2. TypeOK /\ Counted(h) /\ pings[h] = seq[h]
  BY <1>1, HostFacts DEF Counted
<1>3. seq[h] + 1 \in 1..Samples /\ samples[h] \subseteq 1..seq[h] + 1
  BY <1>1, NextNumber
<1>4. TypeOK'
  BY <1>1, <1>2, <1>3 DEF TypeOK, Steps
<1>5. Counted(h)' /\ Returned(h)'
  BY <1>1, <1>2, <1>3 DEF TypeOK, Counted, Returned
<1> QED
  BY <1>1, <1>2, <1>4, <1>5, HostKeeps DEF TypeOK

(* Replies change only what waits at the sockets.                          *)
LEMMA EchoReplyKeeps == ASSUME CountsInv, NEW h \in Hosts, EchoReply(h) PROVE CountsInv'
<1>1. PICK n \in echoed[h] :
        inbox' = [g \in Hosts |-> IF Socket(g) /\ (g = h \/ Shared)
                                     THEN inbox[g] \union {Reply(h, n)} ELSE inbox[g]]
  BY DEF EchoReply
<1>2. UNCHANGED <<step, seq, echoed, samples, source, pings, dropped, result>>
  BY DEF EchoReply
<1>3. Reply(h, n) \in [from : Hosts, seq : 1..Samples]
  BY DEF CountsInv, TypeOK, Reply
<1>4. TypeOK'
  <2>1. inbox' \in [Hosts -> SUBSET [from : Hosts, seq : 1..Samples]]
    BY <1>1, <1>3 DEF CountsInv, TypeOK
  <2> QED
    BY <1>2, <2>1 DEF CountsInv, TypeOK
<1>5. Counted(h)' /\ Returned(h)'
  BY <1>2, LossByHost DEF CountsInv, Counted, Returned, Taken
<1> QED
  BY <1>2, <1>4, <1>5, HostKeeps

LEMMA ReadKeeps == ASSUME CountsInv, NEW h \in Hosts, Read(h) PROVE CountsInv'
<1>1. PICK m \in inbox[h] :
        /\ inbox' = [inbox EXCEPT ![h] = @ \ {m}]
        /\ IF Matches(h, m)
             THEN /\ samples' = [samples EXCEPT ![h] = @ \union {seq[h]}]
                  /\ source' = [source EXCEPT ![h] = @ \union {m.from}]
                  /\ step' = [step EXCEPT ![h] = "icmp"]
             ELSE UNCHANGED <<samples, source, step>>
  BY DEF Read
<1>2. UNCHANGED <<seq, echoed, pings, dropped, result>> /\ step[h] = "read"
  BY DEF Read
<1>3. TypeOK /\ Counted(h) /\ seq[h] \in 0..Samples
  BY HostFacts
<1>4. m \in [from : Hosts, seq : 1..Samples]
  BY <1>3 DEF TypeOK
<1>5. TypeOK'
  <2>1. inbox' \in [Hosts -> SUBSET [from : Hosts, seq : 1..Samples]]
    BY <1>1, <1>3 DEF TypeOK
  <2>2. Matches(h, m) => seq[h] \in 1..Samples
    BY <1>4 DEF Matches
  <2>3. samples' \in [Hosts -> SUBSET (1..Samples)]
    BY <1>1, <1>3, <2>2 DEF TypeOK
  <2>4. source' \in [Hosts -> SUBSET Hosts]
    <3>1. m.from \in Hosts /\ source \in [Hosts -> SUBSET Hosts]
      BY <1>3, <1>4 DEF TypeOK
    <3>2. source' = source \/ source' = [source EXCEPT ![h] = @ \union {m.from}]
      BY <1>1
    <3> QED
      BY <3>1, <3>2
  <2>5. step' \in [Hosts -> Steps]
    BY <1>1, <1>3 DEF TypeOK, Steps
  <2> QED
    BY <1>2, <1>3, <2>1, <2>3, <2>4, <2>5 DEF TypeOK
<1>6. Counted(h)' /\ Returned(h)'
  <2>1. Matches(h, m) => seq[h] \in 1..seq[h]
    BY <1>3, <1>4 DEF Matches
  <2> QED
    BY <1>1, <1>2, <1>3, <2>1 DEF TypeOK, Counted, Returned
<1> QED
  BY <1>1, <1>2, <1>3, <1>5, <1>6, HostKeeps DEF TypeOK

LEMMA IcmpTimeoutKeeps == ASSUME CountsInv, NEW h \in Hosts, IcmpTimeout(h) PROVE CountsInv'
<1>1. /\ step' = [step EXCEPT ![h] = "icmp"] /\ step[h] = "read"
      /\ UNCHANGED <<seq, echoed, inbox, samples, source, pings, dropped, result>>
  BY DEF IcmpTimeout
<1>2. TypeOK /\ Counted(h)
  BY HostFacts
<1>3. TypeOK' /\ Counted(h)' /\ Returned(h)'
  BY <1>1, <1>2 DEF TypeOK, Steps, Counted, Returned
<1> QED
  BY <1>1, <1>2, <1>3, HostKeeps DEF TypeOK

(* The fallback begins with nothing sampled, pinged or dropped.            *)
LEMMA ToTCPKeeps ==
  ASSUME CountsInv, NEW h \in Hosts, step[h] = "icmp", ToTCP(h) PROVE CountsInv'
<1>1. /\ step' = [step EXCEPT ![h] = "tcp"] /\ seq' = [seq EXCEPT ![h] = 0]
      /\ samples' = [samples EXCEPT ![h] = {}] /\ source' = [source EXCEPT ![h] = {}]
      /\ pings' = [pings EXCEPT ![h] = 0] /\ UNCHANGED <<echoed, inbox, dropped, result>>
  BY DEF ToTCP
<1>2. TypeOK /\ Counted(h) /\ 0 \in 0..Samples
  BY HostFacts
<1>3. TypeOK'
  BY <1>1, <1>2 DEF TypeOK, Steps
<1>4. Counted(h)' /\ Returned(h)'
  <2>1. /\ step'[h] = "tcp" /\ seq'[h] = 0 /\ samples'[h] = {} /\ pings'[h] = 0
        /\ dropped'[h] = 0
    BY <1>1, <1>2 DEF TypeOK, Counted
  <2> QED
    BY <2>1, FS_EmptySet DEF Counted, Returned, Taken
<1> QED
  BY <1>1, <1>2, <1>3, <1>4, HostKeeps DEF TypeOK

LEMMA IcmpEndKeeps ==
  ASSUME CountsInv, NEW h \in Hosts, IcmpFailed(h) \/ IcmpDone(h) PROVE CountsInv'
<1>1. CASE ToTCP(h) /\ step[h] = "icmp"
  BY <1>1, ToTCPKeeps
<1>2. CASE /\ step[h] = "icmp" /\ seq[h] = Samples
           /\ Return(h, "ok", Samples, Samples - Cardinality(samples[h]))
           /\ UNCHANGED <<seq, echoed, inbox, samples, source, pings, dropped>>
  <2>1. /\ TypeOK /\ Counted(h) /\ Taken(h) \in 0..Samples /\ pings[h] = Samples
    BY <1>2, HostFacts DEF Counted
  <2>2. /\ step' = [step EXCEPT ![h] = "ok"]
        /\ result' = [result EXCEPT ![h] = [attempts |-> Samples,
                                            dropped |-> Samples - Taken(h)]]
    BY <1>2 DEF Return, Taken
  <2>3. [attempts |-> Samples, dropped |-> Samples - Taken(h)]
          \in [attempts : 0..Samples, dropped : 0..Samples]
    BY <2>1
  <2>4. TypeOK'
    BY <1>2, <2>1, <2>2, <2>3 DEF TypeOK, Steps
  <2>5. Counted(h)' /\ Returned(h)'
    BY <1>2, <2>1, <2>2 DEF TypeOK, Counted, Returned, Taken
  <2> QED
    BY <1>2, <2>1, <2>2, <2>4, <2>5, HostKeeps DEF TypeOK
<1> QED
  BY <1>1, <1>2 DEF IcmpFailed, IcmpDone

LEMMA TcpConnectKeeps == ASSUME CountsInv, NEW h \in Hosts, TcpConnect(h) PROVE CountsInv'
<1>1. /\ step[h] = "tcp" /\ seq[h] < Samples
      /\ seq' = [seq EXCEPT ![h] = @ + 1] /\ pings' = [pings EXCEPT ![h] = @ + 1]
      /\ UNCHANGED <<step, echoed, inbox, result>>
      /\ \/ /\ samples' = [samples EXCEPT ![h] = @ \union {seq[h] + 1}]
            /\ source' = [source EXCEPT ![h] = @ \union {h}]
            /\ UNCHANGED dropped
         \/ /\ dropped' = [dropped EXCEPT ![h] = @ + 1]
            /\ UNCHANGED <<samples, source>>
  BY HostFacts DEF TcpConnect, TypeOK
<1>2. /\ TypeOK /\ Counted(h) /\ pings[h] = seq[h] /\ dropped[h] + Taken(h) = seq[h]
      /\ Taken(h) \in 0..seq[h] /\ dropped[h] \in 0..Samples
  BY <1>1, HostFacts DEF Counted
<1>3. /\ seq[h] + 1 \in 1..Samples /\ samples[h] \subseteq 1..seq[h] + 1
      /\ samples[h] \union {seq[h] + 1} \subseteq 1..seq[h] + 1
      /\ Cardinality(samples[h] \union {seq[h] + 1}) = Taken(h) + 1
  BY <1>1, NextNumber
<1>4. dropped[h] + 1 \in 0..Samples
  BY <1>1, <1>2, <1>3
<1>5. TypeOK'
  <2>1. seq' \in [Hosts -> 0..Samples] /\ pings' \in [Hosts -> 0..Samples]
    BY <1>1, <1>2, <1>3 DEF TypeOK
  <2>2. samples' \in [Hosts -> SUBSET (1..Samples)]
    BY <1>1, <1>2, <1>3 DEF TypeOK
  <2>3. source' \in [Hosts -> SUBSET Hosts]
    BY <1>1, <1>2 DEF TypeOK
  <2>4. dropped' \in [Hosts -> 0..Samples]
    BY <1>1, <1>2, <1>4 DEF TypeOK
  <2> QED
    BY <1>1, <1>2, <2>1, <2>2, <2>3, <2>4 DEF TypeOK
<1>6. Counted(h)' /\ Returned(h)'
  <2>1. seq'[h] = seq[h] + 1 /\ pings'[h] = pings[h] + 1 /\ step'[h] = "tcp"
    BY <1>1, <1>2 DEF TypeOK
  <2>2. CASE samples' = [samples EXCEPT ![h] = @ \union {seq[h] + 1}] /\ UNCHANGED dropped
    <3>1. samples'[h] = samples[h] \union {seq[h] + 1}
      BY <1>2, <2>2 DEF TypeOK
    <3>2. Cardinality(samples'[h]) = Taken(h) + 1
      BY <1>3, <3>1
    <3> QED
      BY <1>2, <1>3, <2>1, <2>2, <3>1, <3>2 DEF Counted, Returned, Taken
  <2>3. CASE dropped' = [dropped EXCEPT ![h] = @ + 1] /\ UNCHANGED samples
    <3>1. dropped'[h] = dropped[h] + 1
      BY <1>2, <2>3 DEF TypeOK
    <3> QED
      BY <1>2, <1>3, <2>1, <2>3, <3>1 DEF Counted, Returned, Taken
  <2> QED
    BY <1>1, <2>2, <2>3
<1> QED
  BY <1>1, <1>2, <1>5, <1>6, HostKeeps DEF TypeOK

LEMMA TcpEndKeeps ==
  ASSUME CountsInv, NEW h \in Hosts, TcpExpired(h) \/ TcpDone(h) PROVE CountsInv'
<1>1. /\ TypeOK /\ Counted(h) /\ step[h] = "tcp" /\ pings[h] = seq[h]
      /\ dropped[h] + Taken(h) = seq[h] /\ Taken(h) \in 0..seq[h]
      /\ dropped[h] \in 0..Samples /\ seq[h] \in 0..Samples
  BY HostFacts DEF TcpExpired, TcpDone, Counted
<1>2. UNCHANGED <<seq, echoed, inbox, samples, source, pings, dropped>>
  BY DEF TcpExpired, TcpDone
<1>3. PICK outcome \in {"ok", "failed"}, a \in 0..Samples :
        /\ step' = [step EXCEPT ![h] = outcome]
        /\ result' = [result EXCEPT ![h] = [attempts |-> a, dropped |-> dropped[h]]]
        /\ outcome = "ok" => a = seq[h]
  BY <1>1 DEF TcpExpired, TcpDone, Return, Taken
<1>4. TypeOK'
  BY <1>1, <1>2, <1>3 DEF TypeOK, Steps
<1>5. Counted(h)' /\ Returned(h)'
  BY <1>1, <1>2, <1>3 DEF TypeOK, Counted, Returned, Taken
<1> QED
  BY <1>1, <1>2, <1>3, <1>4, <1>5, HostKeeps DEF TypeOK

-----------------------------------------------------------------------------
(* The theorems. *)

(* The inductive invariant: what the counts of MeasureLatency stand for at *)
(* every point of icmpPings and tcpPings.                                  *)
THEOREM CountsInvariant == Spec => []CountsInv
<1>1. CountsInv /\ [Next]_vars => CountsInv'
  <2> SUFFICES ASSUME CountsInv, [Next]_vars PROVE CountsInv'
    OBVIOUS
  <2>1. ASSUME NEW h \in Hosts, Icmp(h) \/ EchoReply(h) \/ Tcp(h) PROVE CountsInv'
    BY <2>1, IcmpSendKeeps, ReadKeeps, IcmpTimeoutKeeps, IcmpEndKeeps, EchoReplyKeeps,
       TcpConnectKeeps, TcpEndKeeps DEF Icmp, Tcp
  <2>2. CASE UNCHANGED vars
    BY <2>2 DEF vars, CountsInv, TypeOK, LossIsReal, Counted, Taken
  <2> QED
    BY <2>1, <2>2 DEF Next
<1> QED
  BY <1>1, InitCountsInv, PTL DEF Spec

(* The loss of a report is that of the pings made, whether ICMP, the       *)
(* fallback, or neither succeeded, and however replies are mixed up.       *)
THEOREM LossIsOfPingsMade == Spec => []LatencyInv
<1>1. CountsInv => LatencyInv
  BY DEF CountsInv, LatencyInv
<1> QED
  BY <1>1, CountsInvariant, PTL

-----------------------------------------------------------------------------
(* The percentiles of AggregateSamples. *)

(* The rank is pct in a hundred of the samples, rounded up.                *)
LEMMA RankRoundsUp ==
  ASSUME NEW n \in Nat \ {0}, NEW pct \in 1..100
  PROVE  LET rank == (pct * n + 99) \div 100
         IN  rank \in 1..n /\ 100 * rank >= pct * n /\ 100 * (rank - 1) < pct * n
<1> DEFINE q == pct * n
<1>1. q \in Nat /\ q >= 1 /\ q <= 100 * n
  OBVIOUS
<1> HIDE DEF q
<1>2. LET rank == (q + 99) \div 100
      IN  rank \in Nat /\ rank >= 1 /\ 100 * rank >= q /\ 100 * (rank - 1) < q
  BY <1>1
<1>3. (q + 99) \div 100 <= n
  BY <1>1
<1> QED
  BY <1>1, <1>2, <1>3 DEF q

(* percentile "returns the nearest-rank p-th percentile from a sorted      *)
(* slice": on a sorted series of any length it is the smallest sample that *)
(* pct in a hundred samples do not exceed.                                 *)
THEOREM PercentileIsNearestRank ==
  ASSUME NEW n \in Nat \ {0}, NEW s \in [1..n -> Nat], NEW pct \in 1..100,
         \A j, k \in 1..n : j <= k => s[j] <= s[k]
  PROVE  IsPercentile(Percentile(s, pct), s, pct)
<1> DEFINE rank == (pct * n + 99) \div 100
           v == s[rank]
           atMost == {k \in 1..n : s[k] <= v}
           below == {k \in 1..n : s[k] < v}
<1>1. rank \in 1..n /\ 100 * rank >= pct * n /\ 100 * (rank - 1) < pct * n
  BY RankRoundsUp
<1> HIDE DEF rank
<1>2. Len(s) = n /\ DOMAIN s = 1..n
  OBVIOUS
<1>3. Percentile(s, pct) = v
  BY <1>1, <1>2 DEF Percentile, rank
<1>4. IsFiniteSet(1..n) /\ IsFiniteSet(1..rank - 1)
  BY <1>1, FS_Interval
<1>5. IsFiniteSet(atMost) /\ Cardinality(atMost) \in Nat
  <2>1. atMost \subseteq 1..n
    OBVIOUS
  <2> QED
    BY <1>4, <2>1, FS_Subset, FS_CardinalityType
<1>6. Cardinality(atMost) >= rank
  <2>1. 1..rank \subseteq atMost
    BY <1>1
  <2>2. Cardinality(1..rank) <= Cardinality(atMost)
    BY <1>5, <2>1, FS_Subset
  <2>3. Cardinality(1..rank) = rank
    BY <1>1, FS_Interval
  <2> QED
    BY <1>1, <1>5, <2>2, <2>3
<1>7. Cardinality(below) \in Nat /\ Cardinality(below) <= rank - 1
  <2>1. below \subseteq 1..rank - 1
    <3>1. ASSUME NEW k \in 1..n, s[k] < v PROVE k < rank
      BY <1>1, <3>1
    <3> QED
      BY <1>1, <3>1
  <2>2. IsFiniteSet(below) /\ Cardinality(below) <= Cardinality(1..rank - 1)
    BY <1>4, <2>1, FS_Subset
  <2>3. Cardinality(1..rank - 1) = rank - 1
    <3>1. 1 \in Int /\ rank - 1 \in Int
      BY <1>1
    <3>2. Cardinality(1..rank - 1) = IF 1 > rank - 1 THEN 0 ELSE rank - 1 - 1 + 1
      BY <3>1, FS_Interval
    <3> QED
      BY <1>1, <3>2
  <2> QED
    BY <2>2, <2>3, FS_CardinalityType
<1>8. v \in {s[k] : k \in DOMAIN s}
  BY <1>1, <1>2
<1>9. 100 * Cardinality(atMost) >= pct * n /\ 100 * Cardinality(below) < pct * n
  <2> DEFINE q == pct * n
  <2>1. q \in Nat /\ 100 * rank >= q /\ 100 * (rank - 1) < q
    BY <1>1
  <2> HIDE DEF q
  <2>2. 100 * Cardinality(atMost) >= q /\ 100 * Cardinality(below) < q
    BY <1>1, <1>5, <1>6, <1>7, <2>1
  <2> QED
    BY <2>2 DEF q
<1> QED
  BY <1>2, <1>3, <1>8, <1>9 DEF IsPercentile

-----------------------------------------------------------------------------
(* The sort. *)

(* The samples that come no later than the k-th in the sorted series.      *)
NoLater(s, n, k) == {j \in 1..n : s[j] < s[k] \/ (s[j] = s[k] /\ j <= k)}

(* Of two samples the one that comes later has the larger place.           *)
LEMMA PlacesDiffer ==
  ASSUME NEW n \in Nat, NEW s \in [1..n -> Nat], NEW j \in 1..n, NEW k \in 1..n,
         s[j] < s[k] \/ (s[j] = s[k] /\ j < k)
  PROVE  Cardinality(NoLater(s, n, j)) < Cardinality(NoLater(s, n, k))
<1>1. s[j] \in Nat /\ s[k] \in Nat
  OBVIOUS
<1>2. NoLater(s, n, j) \subseteq NoLater(s, n, k)
  BY <1>1 DEF NoLater
<1>3. k \in NoLater(s, n, k) /\ k \notin NoLater(s, n, j)
  BY <1>1 DEF NoLater
<1>4. IsFiniteSet(NoLater(s, n, k)) /\ IsFiniteSet(NoLater(s, n, j))
  <2>1. IsFiniteSet(1..n)
    BY FS_Interval
  <2>2. NoLater(s, n, k) \subseteq 1..n /\ NoLater(s, n, j) \subseteq 1..n
    BY DEF NoLater
  <2> QED
    BY <2>1, <2>2, FS_Subset
<1>5. /\ Cardinality(NoLater(s, n, j)) <= Cardinality(NoLater(s, n, k))
      /\ Cardinality(NoLater(s, n, k)) # Cardinality(NoLater(s, n, j))
  BY <1>2, <1>3, <1>4, FS_Subset
<1>6. Cardinality(NoLater(s, n, j)) \in Nat /\ Cardinality(NoLater(s, n, k)) \in Nat
  BY <1>4, FS_CardinalityType
<1> QED
  BY <1>5, <1>6

(* Every place is taken, by one sample.                                    *)
LEMMA PlacesAreAll ==
  ASSUME NEW n \in Nat, NEW s \in [1..n -> Nat]
  PROVE  /\ \A k \in 1..n : Place(s, k) = Cardinality(NoLater(s, n, k))
         /\ [k \in 1..n |-> Place(s, k)] \in Bijection(1..n, 1..n)
<1> DEFINE f == [k \in 1..n |-> Cardinality(NoLater(s, n, k))]
<1>1. \A k \in 1..n : Place(s, k) = Cardinality(NoLater(s, n, k))
  BY DEF Place, NoLater
<1>2. IsFiniteSet(1..n) /\ Cardinality(1..n) = n
  BY FS_Interval
<1>3. ASSUME NEW k \in 1..n PROVE Cardinality(NoLater(s, n, k)) \in 1..n
  <2>1. NoLater(s, n, k) \subseteq 1..n /\ k \in NoLater(s, n, k)
    BY DEF NoLater
  <2>2. IsFiniteSet(NoLater(s, n, k)) /\ Cardinality(NoLater(s, n, k)) <= n
    BY <1>2, <2>1, FS_Subset
  <2>3. Cardinality(NoLater(s, n, k)) \in Nat /\ Cardinality(NoLater(s, n, k)) # 0
    BY <2>1, <2>2, FS_CardinalityType, FS_EmptySet
  <2> QED
    BY <2>2, <2>3
<1>4. f \in [1..n -> 1..n]
  BY <1>3
<1>5. ASSUME NEW j \in 1..n, NEW k \in 1..n, j # k PROVE f[j] # f[k]
  <2>1. s[j] \in Nat /\ s[k] \in Nat
    OBVIOUS
  <2>2. \/ s[j] < s[k] \/ (s[j] = s[k] /\ j < k)
        \/ s[k] < s[j] \/ (s[k] = s[j] /\ k < j)
    BY <1>5, <2>1
  <2>3. f[j] < f[k] \/ f[k] < f[j]
    BY <2>2, PlacesDiffer
  <2> QED
    BY <1>4, <2>3
<1>6. f \in Injection(1..n, 1..n)
  BY <1>4, <1>5 DEF Injection, IsInjective
<1>7. f \in Surjection(1..n, 1..n)
  BY <1>2, <1>6, FS_Injection
<1>8. [k \in 1..n |-> Place(s, k)] = f
  BY <1>1
<1> HIDE DEF f
<1> QED
  BY <1>1, <1>6, <1>7, <1>8 DEF Bijection

(* Sorting rearranges the samples, and puts them in order.                 *)
LEMMA SortedIsSorted ==
  ASSUME NEW n \in Nat, NEW s \in [1..n -> Nat]
  PROVE  /\ \E p \in Bijection(1..n, 1..n) : Sorted(s) = [i \in 1..n |-> s[p[i]]]
         /\ Sorted(s) \in [1..n -> Nat]
         /\ \A i, j \in 1..n : i <= j => Sorted(s)[i] <= Sorted(s)[j]
<1> DEFINE f == [k \in 1..n |-> Place(s, k)]
           p == [i \in 1..n |-> CHOOSE k \in 1..n : Place(s, k) = i]
<1>1. f \in Bijection(1..n, 1..n) /\ \A k \in 1..n : f[k] = Place(s, k)
  BY PlacesAreAll
<1> HIDE DEF f
<1>2. ASSUME NEW i \in 1..n PROVE \E k \in 1..n : Place(s, k) = i
  <2>1. \E k \in 1..n : f[k] = i
    BY <1>1 DEF Bijection, Surjection
  <2> QED
    BY <1>1, <2>1
<1>3. ASSUME NEW i \in 1..n PROVE p[i] \in 1..n /\ f[p[i]] = i
  BY <1>1, <1>2
<1>4. p \in [1..n -> 1..n]
  BY <1>3
<1>5. ASSUME NEW k \in 1..n PROVE p[f[k]] = k
  <2>1. f[k] \in 1..n
    BY <1>1 DEF Bijection, Injection
  <2>2. p[f[k]] \in 1..n /\ f[p[f[k]]] = f[k]
    BY <1>3, <2>1
  <2> QED
    BY <1>1, <2>2 DEF Bijection, Injection, IsInjective
<1>6. Sorted(s) = [i \in 1..n |-> s[p[i]]]
  BY DEF Sorted
<1> HIDE DEF p
<1>7. p \in Bijection(1..n, 1..n)
  <2>1. \A i, j \in 1..n : p[i] = p[j] => i = j
    BY <1>3
  <2>2. \A k \in 1..n : \E i \in 1..n : p[i] = k
    BY <1>1, <1>5 DEF Bijection, Injection
  <2> QED
    BY <1>4, <2>1, <2>2 DEF Bijection, Injection, IsInjective, Surjection
<1>8. Sorted(s) \in [1..n -> Nat]
  BY <1>4, <1>6
<1>9. ASSUME NEW i \in 1..n, NEW j \in 1..n, i <= j
      PROVE  Sorted(s)[i] <= Sorted(s)[j]
  <2>1. p[i] \in 1..n /\ p[j] \in 1..n /\ Place(s, p[i]) = i /\ Place(s, p[j]) = j
    BY <1>1, <1>3
  <2>2. s[p[j]] < s[p[i]] => Place(s, p[j]) < Place(s, p[i])
    <3>1. s[p[j]] < s[p[i]] =>
            Cardinality(NoLater(s, n, p[j])) < Cardinality(NoLater(s, n, p[i]))
      BY <2>1, PlacesDiffer
    <3>2. /\ Place(s, p[i]) = Cardinality(NoLater(s, n, p[i]))
          /\ Place(s, p[j]) = Cardinality(NoLater(s, n, p[j]))
      BY <2>1, PlacesAreAll
    <3> QED
      BY <3>1, <3>2
  <2>3. s[p[i]] \in Nat /\ s[p[j]] \in Nat
    BY <2>1
  <2>4. ~ (s[p[j]] < s[p[i]])
    BY <1>9, <2>1, <2>2
  <2> QED
    BY <1>6, <2>3, <2>4
<1> QED
  BY <1>6, <1>7, <1>8, <1>9

(* The sorted series is the series, rearranged.                            *)
LEMMA SortedIsPermuted ==
  ASSUME NEW n \in Nat, NEW s \in [1..n -> Nat]
  PROVE  \E p \in Bijection(1..n, 1..n) : Sorted(s) = [i \in 1..n |-> s[p[i]]]
BY SortedIsSorted

(* The places where a sample of V is.                                      *)
PlacesOf(s, n, V) == {k \in 1..n : s[k] \in V}

Rearranges(r, s, n) == \E p \in Bijection(1..n, 1..n) : \A i \in 1..n : r[i] = s[p[i]]

(* As many places of a rearranged series hold a sample of V as do of the   *)
(* series itself.                                                          *)
LEMMA RearrangedHasAsMany ==
  ASSUME NEW n \in Nat, NEW s, NEW r, Rearranges(r, s, n)
  PROVE  \A V : Cardinality(PlacesOf(r, n, V)) = Cardinality(PlacesOf(s, n, V))
<1> SUFFICES ASSUME NEW V
             PROVE  Cardinality(PlacesOf(r, n, V)) = Cardinality(PlacesOf(s, n, V))
  OBVIOUS
<1>0. PICK p \in Bijection(1..n, 1..n) : \A i \in 1..n : r[i] = s[p[i]]
  BY DEF Rearranges
<1> DEFINE A == PlacesOf(r, n, V)
           B == PlacesOf(s, n, V)
           q == [i \in A |-> p[i]]
<1>1. /\ p \in [1..n -> 1..n]
      /\ \A i, j \in 1..n : p[i] = p[j] => i = j
      /\ \A k \in 1..n : \E i \in 1..n : p[i] = k
  BY <1>0 DEF Bijection, Injection, IsInjective, Surjection
<1>2. \A i \in A : p[i] \in B
  BY <1>0, <1>1 DEF PlacesOf
<1>3. ASSUME NEW k \in B PROVE \E i \in A : p[i] = k
  <2>1. PICK i \in 1..n : p[i] = k
    BY <1>1 DEF PlacesOf
  <2>2. i \in A
    BY <1>0, <2>1 DEF PlacesOf
  <2> QED
    BY <2>1, <2>2
<1>4. A \subseteq 1..n
  BY DEF PlacesOf
<1> HIDE DEF A, B
<1>5. q \in Bijection(A, B)
  <2>1. q \in [A -> B] /\ \A i \in A : q[i] = p[i]
    BY <1>2
  <2> HIDE DEF q
  <2>2. \A i, j \in A : q[i] = q[j] => i = j
    BY <1>1, <1>4, <2>1
  <2>3. \A k \in B : \E i \in A : q[i] = k
    BY <1>3, <2>1
  <2> QED
    BY <2>1, <2>2, <2>3 DEF Bijection, Injection, IsInjective, Surjection
<1>6. IsFiniteSet(A)
  <2>1. IsFiniteSet(1..n)
    BY FS_Interval
  <2> QED
    BY <1>4, <2>1, FS_Subset
<1>7. ExistsBijection(A, B)
  BY <1>5 DEF ExistsBijection
<1> QED
  BY <1>6, <1>7, FS_Bijection DEF A, B

(* So a percentile of the sorted series is one of the series.              *)
LEMMA PercentileOfSamples ==
  ASSUME NEW n \in Nat \ {0}, NEW s \in [1..n -> Nat], NEW pct \in 1..100
  PROVE  IsPercentile(Percentile(Sorted(s), pct), s, pct)
<1> DEFINE r == Sorted(s)
           v == Percentile(Sorted(s), pct)
<1>1. PICK p \in Bijection(1..n, 1..n) : r = [i \in 1..n |-> s[p[i]]]
  BY SortedIsPermuted
<1>2. r \in [1..n -> Nat] /\ \A i, j \in 1..n : i <= j => r[i] <= r[j]
  BY SortedIsSorted
<1>3. IsPercentile(v, r, pct)
  BY <1>2, PercentileIsNearestRank
<1>4. p \in [1..n -> 1..n] /\ \A i \in 1..n : r[i] = s[p[i]]
  BY <1>1 DEF Bijection, Injection
<1>5. DOMAIN r = 1..n /\ Len(r) = n /\ DOMAIN s = 1..n /\ Len(s) = n
  BY <1>2
<1> HIDE DEF r, v
<1>6. v \in {s[k] : k \in DOMAIN s}
  <2>1. v \in {r[i] : i \in 1..n}
    BY <1>3, <1>5 DEF IsPercentile
  <2> QED
    BY <1>4, <1>5, <2>1
<1>7. \A V : Cardinality(PlacesOf(r, n, V)) = Cardinality(PlacesOf(s, n, V))
  <2>1. n \in Nat
    OBVIOUS
  <2>2. Rearranges(r, s, n)
    BY <1>1, <1>4 DEF Rearranges
  <2> QED
    BY <2>1, <2>2, RearrangedHasAsMany
<1>8. Cardinality({i \in 1..n : r[i] <= v}) = Cardinality({k \in 1..n : s[k] <= v})
  <2> DEFINE V == {x \in Nat : x <= v}
  <2>1. Cardinality(PlacesOf(r, n, V)) = Cardinality(PlacesOf(s, n, V))
    BY <1>7
  <2>2. PlacesOf(r, n, V) = {i \in 1..n : r[i] <= v}
    BY <1>2 DEF PlacesOf
  <2>3. PlacesOf(s, n, V) = {k \in 1..n : s[k] <= v}
    BY DEF PlacesOf
  <2> QED
    BY <2>1, <2>2, <2>3
<1>9. Cardinality({i \in 1..n : r[i] < v}) = Cardinality({k \in 1..n : s[k] < v})
  <2> DEFINE V == {x \in Nat : x < v}
  <2>1. Cardinality(PlacesOf(r, n, V)) = Cardinality(PlacesOf(s, n, V))
    BY <1>7
  <2>2. PlacesOf(r, n, V) = {i \in 1..n : r[i] < v}
    BY <1>2 DEF PlacesOf
  <2>3. PlacesOf(s, n, V) = {k \in 1..n : s[k] < v}
    BY DEF PlacesOf
  <2> QED
    BY <2>1, <2>2, <2>3
<1>10. /\ 100 * Cardinality({k \in DOMAIN s : s[k] <= v}) >= pct * Len(s)
       /\ 100 * Cardinality({k \in DOMAIN s : s[k] < v}) < pct * Len(s)
  <2>1. /\ 100 * Cardinality({i \in 1..n : r[i] <= v}) >= pct * n
        /\ 100 * Cardinality({i \in 1..n : r[i] < v}) < pct * n
    BY <1>3, <1>5 DEF IsPercentile
  <2> QED
    BY <1>5, <1>8, <1>9, <2>1
<1> QED
  BY <1>6, <1>10 DEF IsPercentile, v

(* The minimum and the maximum are samples that bound all the others.      *)
LEMMA EndsBoundSamples ==
  ASSUME NEW n \in Nat \ {0}, NEW s \in [1..n -> Nat]
  PROVE  /\ \A k \in 1..n : Sorted(s)[1] <= s[k] /\ s[k] <= Sorted(s)[n]
         /\ Sorted(s)[1] \in {s[k] : k \in 1..n} /\ Sorted(s)[n] \in {s[k] : k \in 1..n}
<1> DEFINE r == Sorted(s)
<1>1. PICK p \in Bijection(1..n, 1..n) : r = [i \in 1..n |-> s[p[i]]]
  BY SortedIsPermuted
<1>2. r \in [1..n -> Nat] /\ \A i, j \in 1..n : i <= j => r[i] <= r[j]
  BY SortedIsSorted
<1>3. p \in [1..n -> 1..n] /\ \A k \in 1..n : \E i \in 1..n : p[i] = k
  BY <1>1 DEF Bijection, Injection, Surjection
<1>4. \A i \in 1..n : r[i] = s[p[i]]
  BY <1>1
<1> HIDE DEF r
<1>5. ASSUME NEW k \in 1..n PROVE r[1] <= s[k] /\ s[k] <= r[n]
  <2>1. PICK i \in 1..n : p[i] = k
    BY <1>3
  <2>2. r[1] <= r[i] /\ r[i] <= r[n]
    BY <1>2
  <2> QED
    BY <1>4, <2>1, <2>2
<1>6. p[1] \in 1..n /\ p[n] \in 1..n /\ r[1] = s[p[1]] /\ r[n] = s[p[n]]
  <2>1. 1 \in 1..n /\ n \in 1..n
    OBVIOUS
  <2> QED
    BY <1>3, <1>4, <2>1
<1> QED
  BY <1>5, <1>6 DEF r

(* AggregateSamples names what it returns rightly, however long the series *)
(* is and in whatever order its samples came: the least, the greatest, and *)
(* the nearest-rank median and 95th percentile.                            *)
THEOREM NoSeriesIsWrong == WrongSeries = {}
<1> SUFFICES ASSUME NEW s \in Series
             PROVE  LET r == AggregateSamples(s)
                    IN  /\ \A k \in DOMAIN s : r.min <= s[k] /\ s[k] <= r.max
                        /\ r.min \in {s[k] : k \in DOMAIN s} /\ r.max \in {s[k] : k \in DOMAIN s}
                        /\ IsPercentile(r.median, s, 50) /\ IsPercentile(r.p95, s, 95)
  BY Zenon DEF WrongSeries
<1> DEFINE n == Len(s)
<1>1. n \in Nat \ {0} /\ s \in [1..n -> Nat] /\ DOMAIN s = 1..n
  BY SeriesAssumption
<1> HIDE DEF n
<1>2. Len(Sorted(s)) = n
  <2>1. Sorted(s) \in [1..n -> Nat] /\ n \in Nat
    BY <1>1, SortedIsSorted
  <2> QED
    BY <2>1
<1>3. AggregateSamples(s) = [min |-> Sorted(s)[1], median |-> Percentile(Sorted(s), 50),
                             p95 |-> Percentile(Sorted(s), 95), max |-> Sorted(s)[n]]
  BY <1>2 DEF AggregateSamples
<1>4. IsPercentile(Percentile(Sorted(s), 50), s, 50) /\ IsPercentile(Percentile(Sorted(s), 95), s, 95)
  BY <1>1, PercentileOfSamples
<1>5. /\ \A k \in 1..n : Sorted(s)[1] <= s[k] /\ s[k] <= Sorted(s)[n]
      /\ Sorted(s)[1] \in {s[k] : k \in 1..n} /\ Sorted(s)[n] \in {s[k] : k \in 1..n}
  BY <1>1, EndsBoundSamples
<1> QED
  BY <1>1, <1>3, <1>4, <1>5

(* The latency of a report is made of the order statistics its fields are  *)
(* named for, whatever the series.                                         *)
THEOREM AggregatesAreRight == Spec => []AggregateIsRight
<1>1. AggregateIsRight
  BY NoSeriesIsWrong DEF AggregateIsRight
<1> QED
  BY <1>1, PTL
=============================================================================
