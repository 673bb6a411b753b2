---------------------------- MODULE AtomicInstall ----------------------------
(***************************************************************************)
(* What the self-update promises of the install, whatever steps it takes:  *)
(* a complete version can always be found, it is never downgraded, and the *)
(* install path is taken away or replaced only while nobody uses the app.  *)
(***************************************************************************)
VARIABLES
  best,      \* the newest complete version at the install, or set aside by it
  present,   \* the install path holds something
  inUse      \* a process of the app is running

Init == best = "current" /\ present = TRUE /\ inUse = FALSE

Open  == present /\ ~inUse /\ inUse' = TRUE /\ UNCHANGED <<best, present>>
Close == inUse /\ inUse' = FALSE /\ UNCHANGED <<best, present>>

TakeAside == ~inUse /\ present /\ present' = FALSE /\ UNCHANGED <<best, inUse>>
PutBack   == ~present /\ present' = TRUE /\ UNCHANGED <<best, inUse>>
Upgrade   == /\ ~inUse
             /\ best' = "update" /\ present' = TRUE
             /\ UNCHANGED inUse

Next == Open \/ Close \/ TakeAside \/ PutBack \/ Upgrade

Spec == Init /\ [][Next]_<<best, present, inUse>>
=============================================================================
