------------------------------ MODULE MCUpdater ------------------------------
(* Instances of Updater for TLC: the processes are interchangeable.        *)
EXTENDS Updater, TLC
Symmetry == Permutations(Procs)
=============================================================================
