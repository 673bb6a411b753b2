------------------------------- MODULE Latency -------------------------------
(***************************************************************************)
(* MeasureLatency of internal/nettest, called for every POP at once in the *)
(* quick phase: ICMP echoes that all carry the id of the process and the   *)
(* same sequence numbers, each from a socket of its own, and the fallback  *)
(* to TCP connects, with the counts that become Loss.Pct.                  *)
(***************************************************************************)
EXTENDS Naturals, FiniteSets

CONSTANTS
  Hosts,     \* the POPs measured at once
  Samples,   \* the samples asked for: 10 in the quick phase, 20 in the full one
  Shared,    \* does the kernel hand an echo reply to every open ICMP socket
  Expires    \* may the per-test timeout expire during the TCP samples

ASSUME SamplesAssumption == Samples \in Nat \ {0}
ASSUME KernelAssumption == Shared \in BOOLEAN /\ Expires \in BOOLEAN

VARIABLES
  step,      \* step[h]: where MeasureLatency of host h is
  seq,       \* seq[h]: the sequence number, or the index of the TCP connect
  echoed,    \* echoed[h]: the sequence numbers of the echoes sent to h
  inbox,     \* inbox[h]: the echo replies at the ICMP socket of h
  samples,   \* samples[h]: the sequence numbers sampled
  source,    \* source[h]: the hosts those samples came from
  pings,     \* pings[h]: the pings made by the method in use
  dropped,   \* dropped[h]: of which not answered
  result     \* result[h]: the attempts and the drops returned

vars == <<step, seq, echoed, inbox, samples, source, pings, dropped, result>>

Steps == {"icmp", "read", "tcp", "ok", "failed"}
Reply(h, n) == [from |-> h, seq |-> n]

TypeOK ==
  /\ step \in [Hosts -> Steps]
  /\ seq \in [Hosts -> 0..Samples]
  /\ echoed \in [Hosts -> SUBSET (1..Samples)]
  /\ inbox \in [Hosts -> SUBSET [from : Hosts, seq : 1..Samples]]
  /\ samples \in [Hosts -> SUBSET (1..Samples)]
  /\ source \in [Hosts -> SUBSET Hosts]
  /\ pings \in [Hosts -> 0..Samples] /\ dropped \in [Hosts -> 0..Samples]
  /\ result \in [Hosts -> [attempts : 0..Samples, dropped : 0..Samples]]

Init ==
  /\ step = [h \in Hosts |-> "icmp"]
  /\ seq = [h \in Hosts |-> 0]
  /\ echoed = [h \in Hosts |-> {}]
  /\ inbox = [h \in Hosts |-> {}]
  /\ samples = [h \in Hosts |-> {}]
  /\ source = [h \in Hosts |-> {}]
  /\ pings = [h \in Hosts |-> 0]
  /\ dropped = [h \in Hosts |-> 0]
  /\ result = [h \in Hosts |-> [attempts |-> 0, dropped |-> 0]]

Socket(h) == step[h] \in {"icmp", "read"}

-----------------------------------------------------------------------------
(* icmpPings. *)

(* One echo; if the write fails the next one is tried.                     *)
IcmpSend(h) ==
  /\ step[h] = "icmp" /\ seq[h] < Samples
  /\ seq' = [seq EXCEPT ![h] = @ + 1]
  /\ pings' = [pings EXCEPT ![h] = @ + 1]
  /\ \/ UNCHANGED <<step, echoed>>
     \/ /\ step' = [step EXCEPT ![h] = "read"]
        /\ echoed' = [echoed EXCEPT ![h] = @ \union {seq'[h]}]
  /\ UNCHANGED <<inbox, samples, source, dropped, result>>

(* The answer of h to an echo, however late, reaches the socket of h if it *)
(* is still open, and every other open one as well if the kernel does not  *)
(* tell them apart.                                                        *)
EchoReply(h) ==
  /\ \E n \in echoed[h] :
       inbox' = [g \in Hosts |->
                   IF Socket(g) /\ (g = h \/ Shared)
                     THEN inbox[g] \union {Reply(h, n)} ELSE inbox[g]]
  /\ inbox' # inbox
  /\ UNCHANGED <<step, seq, echoed, samples, source, pings, dropped, result>>

(* Only the id and the sequence number of a reply are compared.            *)
Matches(h, m) == m.seq = seq[h]

Read(h) ==
  /\ step[h] = "read"
  /\ \E m \in inbox[h] :
       /\ inbox' = [inbox EXCEPT ![h] = @ \ {m}]
       /\ IF Matches(h, m)
            THEN /\ samples' = [samples EXCEPT ![h] = @ \union {seq[h]}]
                 /\ source' = [source EXCEPT ![h] = @ \union {m.from}]
                 /\ step' = [step EXCEPT ![h] = "icmp"]
            ELSE UNCHANGED <<samples, source, step>>
  /\ UNCHANGED <<seq, echoed, pings, dropped, result>>

(* The deadline of one sample.                                             *)
IcmpTimeout(h) ==
  /\ step[h] = "read"
  /\ step' = [step EXCEPT ![h] = "icmp"]
  /\ UNCHANGED <<seq, echoed, inbox, samples, source, pings, dropped, result>>

(* Mutant: the fallback adds to what ICMP sampled.                         *)
ToTCPKeepsSamples(h) ==
  /\ step' = [step EXCEPT ![h] = "tcp"]
  /\ seq' = [seq EXCEPT ![h] = 0]
  /\ pings' = [pings EXCEPT ![h] = 0]
  /\ UNCHANGED <<echoed, inbox, samples, source, dropped, result>>

(* The fallback starts over: what ICMP sampled is discarded.               *)
ToTCP(h) ==
  /\ step' = [step EXCEPT ![h] = "tcp"]
  /\ seq' = [seq EXCEPT ![h] = 0]
  /\ samples' = [samples EXCEPT ![h] = {}]
  /\ source' = [source EXCEPT ![h] = {}]
  /\ pings' = [pings EXCEPT ![h] = 0]
  /\ UNCHANGED <<echoed, inbox, dropped, result>>

(* No ICMP socket or address, or the 3 s budget is over.                   *)
IcmpFailed(h) ==
  /\ step[h] = "icmp" /\ seq[h] < Samples
  /\ ToTCP(h)

Return(h, outcome, attempts, drops) ==
  /\ step' = [step EXCEPT ![h] = outcome]
  /\ result' = [result EXCEPT ![h] = [attempts |-> attempts, dropped |-> drops]]

IcmpDone(h) ==
  /\ step[h] = "icmp" /\ seq[h] = Samples
  /\ \/ /\ samples[h] = {} /\ ToTCP(h)
     \/ /\ samples[h] # {}
        /\ Return(h, "ok", Samples, Samples - Cardinality(samples[h]))
        /\ UNCHANGED <<seq, echoed, inbox, samples, source, pings, dropped>>

-----------------------------------------------------------------------------
(* tcpPings. *)

TcpConnect(h) ==
  /\ step[h] = "tcp" /\ seq[h] < Samples
  /\ seq' = [seq EXCEPT ![h] = @ + 1]
  /\ pings' = [pings EXCEPT ![h] = @ + 1]
  /\ \/ /\ samples' = [samples EXCEPT ![h] = @ \union {seq'[h]}]
        /\ source' = [source EXCEPT ![h] = @ \union {h}]
        /\ UNCHANGED dropped
     \/ /\ dropped' = [dropped EXCEPT ![h] = @ + 1]
        /\ UNCHANGED <<samples, source>>
  /\ UNCHANGED <<step, echoed, inbox, result>>

(* The context of the test is over before the next connect: the samples    *)
(* are not counted.                                                        *)
TcpExpired(h) ==
  /\ step[h] = "tcp" /\ seq[h] < Samples /\ Expires
  /\ Return(h, "failed", dropped[h], dropped[h])
  /\ UNCHANGED <<seq, echoed, inbox, samples, source, pings, dropped>>

TcpDone(h) ==
  /\ step[h] = "tcp" /\ seq[h] = Samples
  /\ IF samples[h] = {}
       THEN Return(h, "failed", dropped[h], dropped[h])
       ELSE Return(h, "ok", Cardinality(samples[h]) + dropped[h], dropped[h])
  /\ UNCHANGED <<seq, echoed, inbox, samples, source, pings, dropped>>

-----------------------------------------------------------------------------
Icmp(h) == IcmpSend(h) \/ Read(h) \/ IcmpTimeout(h) \/ IcmpFailed(h) \/ IcmpDone(h)
Tcp(h)  == TcpConnect(h) \/ TcpExpired(h) \/ TcpDone(h)

Next == \E h \in Hosts : Icmp(h) \/ EchoReply(h) \/ Tcp(h)

Spec == Init /\ [][Next]_vars

-----------------------------------------------------------------------------
(* Properties. *)

(* A latency is made of round trips to the POP it is reported for, and so  *)
(* the nearest POP is the nearest: the comment of icmpPings says that      *)
(* comparing id and sequence number is enough against unrelated traffic.   *)
SamplesAreOwn == \A h \in Hosts : source[h] \subseteq {h}

(* The loss that a report shows: the drops returned are those of the pings *)
(* really made by the method that succeeded, out of all of them, and a     *)
(* measurement that failed has dropped no sample it had.                   *)
LossIsReal ==
  \A h \in Hosts :
    /\ step[h] = "ok" => result[h].attempts = pings[h]
    /\ step[h] \in {"ok", "failed"} =>
         result[h].dropped = pings[h] - Cardinality(samples[h])

(* The types, and the loss: the inductive part of what is checked.         *)
LatencyInv == TypeOK /\ LossIsReal

(* The attempts returned are "the number of samples actually attempted",   *)
(* with an error as without one.                                           *)
AttemptsAreReal ==
  \A h \in Hosts : step[h] \in {"ok", "failed"} => result[h].attempts = pings[h]
=============================================================================
