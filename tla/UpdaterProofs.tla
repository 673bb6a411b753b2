---------------------------- MODULE UpdaterProofs ----------------------------
(***************************************************************************)
(* Theorems about Updater, for every set of processes and every fault.     *)
(* TypeOK holds of every behaviour; the safety of the swap is proved for   *)
(* one process or helper at a time (~Overlap) through SwapInv.             *)
(***************************************************************************)
EXTENDS Updater, TLAPS

USE DEF Versions, Contents, AppState, DlState, UiState, HelperState, TakesApart, Leaves

-----------------------------------------------------------------------------
(* Type correctness. *)

LEMMA DisturbType ==
  ASSUME TypeOK, NEW p \in Procs
  PROVE  DisturbOthers(p) \in [Procs -> DlState]
BY DEF TypeOK, DisturbOthers

LEMMA InitTypeOK == Init => TypeOK
BY DEF Init, TypeOK

LEMMA NextTypeOK == TypeOK /\ [Next]_vars => TypeOK'
<1> SUFFICES ASSUME TypeOK, [Next]_vars PROVE TypeOK'
  OBVIOUS
<1>1. CASE UNCHANGED vars
  BY <1>1 DEF TypeOK, vars
<1>2. ASSUME NEW p \in Procs, Step(p) PROVE TypeOK'
  <2>1. CASE Launch(p)
    BY <2>1 DEF TypeOK, Launch
  <2>2. CASE SweepStat(p) \/ SweepOld(p)
    BY <2>2 DEF TypeOK, SweepStat, SweepOld
  <2>3. CASE SweepStaged(p)
    BY <2>3, DisturbType DEF TypeOK, SweepStaged
  <2>4. CASE Exit(p)
    BY <2>4 DEF TypeOK, Exit
  <2>5. CASE DownloadUpdate(p)
    BY <2>5 DEF TypeOK, DownloadUpdate
  <2>6. CASE Fetched(p) \/ Settle(p)
    BY <2>6 DEF TypeOK, Fetched, Settle
  <2>7. CASE ClearStaged(p)
    BY <2>7, DisturbType DEF TypeOK, ClearStaged
  <2>8. CASE BeginExtract(p)
    BY <2>8, DisturbType DEF TypeOK, BeginExtract
  <2>9. CASE Staged(p)
    <3>1. staged' \in Contents
      BY <2>9 DEF Staged
    <3> QED
      BY <2>9, <3>1 DEF TypeOK, Staged
  <2>10. CASE DownloadFailed(p)
    BY <2>10 DEF TypeOK, DownloadFailed
  <2>11. CASE OrphanEnds(p)
    <3>1. staged' \in Contents
      BY <2>11 DEF OrphanEnds, TypeOK
    <3> QED
      BY <2>11, <3>1 DEF TypeOK, OrphanEnds
  <2>12. CASE Apply(p)
    BY <2>12 DEF TypeOK, Apply, ApplyUpdate, SpawnHelper, SpawnFailed
  <2>13. CASE WaitForExit(p) \/ DropOld(p) \/ Tidy(p) \/ HelperKilled(p)
    BY <2>13 DEF TypeOK, WaitForExit, DropOld, Tidy, HelperKilled, Becomes
  <2>14. CASE MoveAside(p) \/ Rollback(p)
    BY <2>14 DEF TypeOK, MoveAside, Rollback, Becomes
  <2>15. CASE Place(p)
    BY <2>15, DisturbType DEF TypeOK, Place, Becomes
  <2>16. CASE Replace(p)
    BY <2>16 DEF TypeOK, Replace, Becomes
  <2>17. CASE Relaunch(p)
    BY <2>17 DEF TypeOK, Relaunch, Becomes
  <2> QED
    BY <1>2, <2>1, <2>2, <2>3, <2>4, <2>5, <2>6, <2>7, <2>8, <2>9, <2>10, <2>11,
       <2>12, <2>13, <2>14, <2>15, <2>16, <2>17
    DEF Step, Startup, Download, RunApplyUpdate
<1> QED
  BY <1>1, <1>2 DEF Next

(* Every variable of the updater keeps its type, with any platform, any    *)
(* faults and any number of processes at once.                             *)
THEOREM TypeCorrect == Spec => []TypeOK
<1>1. Init => TypeOK
  BY InitTypeOK
<1>2. TypeOK /\ [Next]_vars => TypeOK'
  BY NextTypeOK
<1> QED
  BY <1>1, <1>2, PTL DEF Spec

-----------------------------------------------------------------------------
(* The swap, one process or helper at a time. *)

USE DEF Busy, Alive, Writing, HelperLive

(* An active process or helper disturbs no other: there is none.           *)
LEMMA Alone ==
  ASSUME SwapInv, NEW p \in Procs, Busy(p)
  PROVE  /\ DisturbOthers(p) = dl
         /\ \A q \in Procs \ {p} : ~Busy(q)
         /\ ~StagedLocked(p)
BY DEF SwapInv, TypeOK, Exclusive, DisturbOthers, StagedLocked

LEMMA InitSwapInv == Init => SwapInv
BY InitTypeOK DEF Init, SwapInv, Exclusive, Phases, Files, OfferIsStaged

LEMMA LaunchKeeps ==
  ASSUME SwapInv, TypeOK', NEW p \in Procs, Launch(p), ~Overlap
  PROVE  SwapInv'
<1>1. Exclusive'
  BY DEF SwapInv, TypeOK, Exclusive, Launch
<1>2. Phases'
  BY DEF SwapInv, TypeOK, Exclusive, Phases, Launch
<1>3. Files'
  BY DEF SwapInv, TypeOK, Phases, Files, OfferIsStaged, Launch
<1>4. OfferIsStaged'
  BY DEF SwapInv, TypeOK, Phases, OfferIsStaged, Launch
<1> QED
  BY <1>1, <1>2, <1>3, <1>4 DEF SwapInv

LEMMA SweepStatKeeps ==
  ASSUME SwapInv, TypeOK', NEW p \in Procs, SweepStat(p)
  PROVE  SwapInv'
<1>0. Busy(p) /\ DisturbOthers(p) = dl /\ ~StagedLocked(p) /\ \A q \in Procs \ {p} : ~Busy(q)
  BY Alone DEF SweepStat, SwapInv, TypeOK
<1>1. Exclusive'
  BY <1>0 DEF SwapInv, TypeOK, Exclusive, SweepStat
<1>2. Phases'
  BY <1>0 DEF SwapInv, TypeOK, Exclusive, Phases, SweepStat
<1>3. Files'
  BY <1>0 DEF SwapInv, TypeOK, Phases, Files, OfferIsStaged, SweepStat
<1>4. OfferIsStaged'
  BY <1>0 DEF SwapInv, TypeOK, Phases, OfferIsStaged, SweepStat
<1> QED
  BY <1>1, <1>2, <1>3, <1>4 DEF SwapInv

LEMMA SweepOldKeeps ==
  ASSUME SwapInv, TypeOK', NEW p \in Procs, SweepOld(p)
  PROVE  SwapInv'
<1>0. Busy(p) /\ DisturbOthers(p) = dl /\ ~StagedLocked(p) /\ \A q \in Procs \ {p} : ~Busy(q)
  BY Alone DEF SweepOld, SwapInv, TypeOK
<1>1. Exclusive'
  BY <1>0 DEF SwapInv, TypeOK, Exclusive, SweepOld
<1>2. Phases'
  BY <1>0 DEF SwapInv, TypeOK, Exclusive, Phases, SweepOld
<1>3. Files'
  BY <1>0 DEF SwapInv, TypeOK, Phases, Files, OfferIsStaged, SweepOld
<1>4. OfferIsStaged'
  BY <1>0 DEF SwapInv, TypeOK, Phases, OfferIsStaged, SweepOld
<1> QED
  BY <1>1, <1>2, <1>3, <1>4 DEF SwapInv

LEMMA SweepStagedKeeps ==
  ASSUME SwapInv, TypeOK', NEW p \in Procs, SweepStaged(p)
  PROVE  SwapInv'
<1>0. Busy(p) /\ DisturbOthers(p) = dl /\ ~StagedLocked(p) /\ \A q \in Procs \ {p} : ~Busy(q)
  BY Alone DEF SweepStaged, SwapInv, TypeOK
<1>1. Exclusive'
  BY <1>0 DEF SwapInv, TypeOK, Exclusive, SweepStaged
<1>2. Phases'
  BY <1>0 DEF SwapInv, TypeOK, Exclusive, Phases, SweepStaged
<1>3. Files'
  BY <1>0 DEF SwapInv, TypeOK, Phases, Files, OfferIsStaged, SweepStaged
<1>4. OfferIsStaged'
  BY <1>0 DEF SwapInv, TypeOK, Phases, OfferIsStaged, SweepStaged
<1> QED
  BY <1>1, <1>2, <1>3, <1>4 DEF SwapInv

LEMMA ExitKeeps ==
  ASSUME SwapInv, TypeOK', NEW p \in Procs, Exit(p)
  PROVE  SwapInv'
<1>0. Busy(p) /\ DisturbOthers(p) = dl /\ ~StagedLocked(p) /\ \A q \in Procs \ {p} : ~Busy(q)
  BY Alone DEF Exit, SwapInv, TypeOK
<1>1. Exclusive'
  BY <1>0 DEF SwapInv, TypeOK, Exclusive, Exit
<1>2. Phases'
  BY <1>0 DEF SwapInv, TypeOK, Exclusive, Phases, Exit
<1>3. Files'
  BY <1>0 DEF SwapInv, TypeOK, Phases, Files, OfferIsStaged, Exit
<1>4. OfferIsStaged'
  BY <1>0 DEF SwapInv, TypeOK, Phases, OfferIsStaged, Exit
<1> QED
  BY <1>1, <1>2, <1>3, <1>4 DEF SwapInv

LEMMA DownloadUpdateKeeps ==
  ASSUME SwapInv, TypeOK', NEW p \in Procs, DownloadUpdate(p)
  PROVE  SwapInv'
<1>0. Busy(p) /\ DisturbOthers(p) = dl /\ ~StagedLocked(p) /\ \A q \in Procs \ {p} : ~Busy(q)
  BY Alone DEF DownloadUpdate, SwapInv, TypeOK
<1>1. Exclusive'
  BY <1>0 DEF SwapInv, TypeOK, Exclusive, DownloadUpdate
<1>2. Phases'
  BY <1>0 DEF SwapInv, TypeOK, Exclusive, Phases, DownloadUpdate
<1>3. Files'
  BY <1>0 DEF SwapInv, TypeOK, Phases, Files, OfferIsStaged, DownloadUpdate
<1>4. OfferIsStaged'
  BY <1>0 DEF SwapInv, TypeOK, Phases, OfferIsStaged, DownloadUpdate
<1> QED
  BY <1>1, <1>2, <1>3, <1>4 DEF SwapInv

LEMMA FetchedKeeps ==
  ASSUME SwapInv, TypeOK', NEW p \in Procs, Fetched(p)
  PROVE  SwapInv'
<1>0. Busy(p) /\ DisturbOthers(p) = dl /\ ~StagedLocked(p) /\ \A q \in Procs \ {p} : ~Busy(q)
  BY Alone DEF Fetched, SwapInv, TypeOK
<1>1. Exclusive'
  BY <1>0 DEF SwapInv, TypeOK, Exclusive, Fetched
<1>2. Phases'
  BY <1>0 DEF SwapInv, TypeOK, Exclusive, Phases, Fetched
<1>3. Files'
  BY <1>0 DEF SwapInv, TypeOK, Phases, Files, OfferIsStaged, Fetched
<1>4. OfferIsStaged'
  BY <1>0 DEF SwapInv, TypeOK, Phases, OfferIsStaged, Fetched
<1> QED
  BY <1>1, <1>2, <1>3, <1>4 DEF SwapInv

LEMMA ClearStagedKeeps ==
  ASSUME SwapInv, TypeOK', NEW p \in Procs, ClearStaged(p)
  PROVE  SwapInv'
<1>0. Busy(p) /\ DisturbOthers(p) = dl /\ ~StagedLocked(p) /\ \A q \in Procs \ {p} : ~Busy(q)
  BY Alone DEF ClearStaged, SwapInv, TypeOK
<1>1. Exclusive'
  BY <1>0 DEF SwapInv, TypeOK, Exclusive, ClearStaged
<1>2. Phases'
  BY <1>0 DEF SwapInv, TypeOK, Exclusive, Phases, ClearStaged
<1>3. Files'
  BY <1>0 DEF SwapInv, TypeOK, Phases, Files, OfferIsStaged, ClearStaged
<1>4. OfferIsStaged'
  BY <1>0 DEF SwapInv, TypeOK, Phases, OfferIsStaged, ClearStaged
<1> QED
  BY <1>1, <1>2, <1>3, <1>4 DEF SwapInv

LEMMA BeginExtractKeeps ==
  ASSUME SwapInv, TypeOK', NEW p \in Procs, BeginExtract(p)
  PROVE  SwapInv'
<1>0. Busy(p) /\ DisturbOthers(p) = dl /\ ~StagedLocked(p) /\ \A q \in Procs \ {p} : ~Busy(q)
  BY Alone DEF BeginExtract, SwapInv, TypeOK
<1>1. Exclusive'
  BY <1>0 DEF SwapInv, TypeOK, Exclusive, BeginExtract
<1>2. Phases'
  BY <1>0 DEF SwapInv, TypeOK, Exclusive, Phases, BeginExtract
<1>3. Files'
  BY <1>0 DEF SwapInv, TypeOK, Phases, Files, OfferIsStaged, BeginExtract
<1>4. OfferIsStaged'
  BY <1>0 DEF SwapInv, TypeOK, Phases, OfferIsStaged, BeginExtract
<1> QED
  BY <1>1, <1>2, <1>3, <1>4 DEF SwapInv

LEMMA StagedKeeps ==
  ASSUME SwapInv, TypeOK', NEW p \in Procs, Staged(p)
  PROVE  SwapInv'
<1>0. Busy(p) /\ DisturbOthers(p) = dl /\ ~StagedLocked(p) /\ \A q \in Procs \ {p} : ~Busy(q)
  BY Alone DEF Staged, SwapInv, TypeOK
<1>1. Exclusive'
  BY <1>0 DEF SwapInv, TypeOK, Exclusive, Staged
<1>2. Phases'
  BY <1>0 DEF SwapInv, TypeOK, Exclusive, Phases, Staged
<1>3. Files'
  BY <1>0 DEF SwapInv, TypeOK, Phases, Files, OfferIsStaged, Staged
<1>4. OfferIsStaged'
  BY <1>0 DEF SwapInv, TypeOK, Phases, OfferIsStaged, Staged
<1> QED
  BY <1>1, <1>2, <1>3, <1>4 DEF SwapInv

LEMMA DownloadFailedKeeps ==
  ASSUME SwapInv, TypeOK', NEW p \in Procs, DownloadFailed(p)
  PROVE  SwapInv'
<1>0. Busy(p) /\ DisturbOthers(p) = dl /\ ~StagedLocked(p) /\ \A q \in Procs \ {p} : ~Busy(q)
  BY Alone DEF DownloadFailed, SwapInv, TypeOK
<1>1. Exclusive'
  BY <1>0 DEF SwapInv, TypeOK, Exclusive, DownloadFailed
<1>2. Phases'
  BY <1>0 DEF SwapInv, TypeOK, Exclusive, Phases, DownloadFailed
<1>3. Files'
  BY <1>0 DEF SwapInv, TypeOK, Phases, Files, OfferIsStaged, DownloadFailed
<1>4. OfferIsStaged'
  BY <1>0 DEF SwapInv, TypeOK, Phases, OfferIsStaged, DownloadFailed
<1> QED
  BY <1>1, <1>2, <1>3, <1>4 DEF SwapInv

LEMMA SettleKeeps ==
  ASSUME SwapInv, TypeOK', NEW p \in Procs, Settle(p)
  PROVE  SwapInv'
<1>0. Busy(p) /\ DisturbOthers(p) = dl /\ ~StagedLocked(p) /\ \A q \in Procs \ {p} : ~Busy(q)
  BY Alone DEF Settle, SwapInv, TypeOK
<1>1. Exclusive'
  BY <1>0 DEF SwapInv, TypeOK, Exclusive, Settle
<1>2. Phases'
  BY <1>0 DEF SwapInv, TypeOK, Exclusive, Phases, Settle
<1>3. Files'
  BY <1>0 DEF SwapInv, TypeOK, Phases, Files, OfferIsStaged, Settle
<1>4. OfferIsStaged'
  BY <1>0 DEF SwapInv, TypeOK, Phases, OfferIsStaged, Settle
<1> QED
  BY <1>1, <1>2, <1>3, <1>4 DEF SwapInv

LEMMA OrphanEndsKeeps ==
  ASSUME SwapInv, TypeOK', NEW p \in Procs, OrphanEnds(p)
  PROVE  SwapInv'
<1>0. Busy(p) /\ DisturbOthers(p) = dl /\ ~StagedLocked(p) /\ \A q \in Procs \ {p} : ~Busy(q)
  BY Alone DEF OrphanEnds, SwapInv, TypeOK
<1>1. Exclusive'
  BY <1>0 DEF SwapInv, TypeOK, Exclusive, OrphanEnds
<1>2. Phases'
  BY <1>0 DEF SwapInv, TypeOK, Exclusive, Phases, OrphanEnds
<1>3. Files'
  BY <1>0 DEF SwapInv, TypeOK, Phases, Files, OfferIsStaged, OrphanEnds
<1>4. OfferIsStaged'
  BY <1>0 DEF SwapInv, TypeOK, Phases, OfferIsStaged, OrphanEnds
<1> QED
  BY <1>1, <1>2, <1>3, <1>4 DEF SwapInv

LEMMA ApplyUpdateKeeps ==
  ASSUME SwapInv, TypeOK', NEW p \in Procs, ApplyUpdate(p)
  PROVE  SwapInv'
<1>0. Busy(p) /\ DisturbOthers(p) = dl /\ ~StagedLocked(p) /\ \A q \in Procs \ {p} : ~Busy(q)
  BY Alone DEF ApplyUpdate, SwapInv, TypeOK
<1>1. Exclusive'
  BY <1>0 DEF SwapInv, TypeOK, Exclusive, ApplyUpdate
<1>2. Phases'
  BY <1>0 DEF SwapInv, TypeOK, Exclusive, Phases, ApplyUpdate
<1>3. Files'
  BY <1>0 DEF SwapInv, TypeOK, Phases, Files, OfferIsStaged, ApplyUpdate
<1>4. OfferIsStaged'
  BY <1>0 DEF SwapInv, TypeOK, Phases, OfferIsStaged, ApplyUpdate
<1> QED
  BY <1>1, <1>2, <1>3, <1>4 DEF SwapInv

LEMMA SpawnHelperKeeps ==
  ASSUME SwapInv, TypeOK', NEW p \in Procs, SpawnHelper(p)
  PROVE  SwapInv'
<1>0. Busy(p) /\ DisturbOthers(p) = dl /\ ~StagedLocked(p) /\ \A q \in Procs \ {p} : ~Busy(q)
  BY Alone DEF SpawnHelper, SwapInv, TypeOK
<1>1. Exclusive'
  BY <1>0 DEF SwapInv, TypeOK, Exclusive, SpawnHelper
<1>2. Phases'
  BY <1>0 DEF SwapInv, TypeOK, Exclusive, Phases, SpawnHelper
<1>3. Files'
  BY <1>0 DEF SwapInv, TypeOK, Phases, Files, OfferIsStaged, SpawnHelper
<1>4. OfferIsStaged'
  BY <1>0 DEF SwapInv, TypeOK, Phases, OfferIsStaged, SpawnHelper
<1> QED
  BY <1>1, <1>2, <1>3, <1>4 DEF SwapInv

LEMMA SpawnFailedKeeps ==
  ASSUME SwapInv, TypeOK', NEW p \in Procs, SpawnFailed(p)
  PROVE  SwapInv'
<1>0. Busy(p) /\ DisturbOthers(p) = dl /\ ~StagedLocked(p) /\ \A q \in Procs \ {p} : ~Busy(q)
  BY Alone DEF SpawnFailed, SwapInv, TypeOK
<1>1. Exclusive'
  BY <1>0 DEF SwapInv, TypeOK, Exclusive, SpawnFailed
<1>2. Phases'
  BY <1>0 DEF SwapInv, TypeOK, Exclusive, Phases, SpawnFailed
<1>3. Files'
  BY <1>0 DEF SwapInv, TypeOK, Phases, Files, OfferIsStaged, SpawnFailed
<1>4. OfferIsStaged'
  BY <1>0 DEF SwapInv, TypeOK, Phases, OfferIsStaged, SpawnFailed
<1> QED
  BY <1>1, <1>2, <1>3, <1>4 DEF SwapInv

LEMMA WaitForExitKeeps ==
  ASSUME SwapInv, TypeOK', NEW p \in Procs, WaitForExit(p)
  PROVE  SwapInv'
<1>0. Busy(p) /\ DisturbOthers(p) = dl /\ ~StagedLocked(p) /\ \A q \in Procs \ {p} : ~Busy(q)
  BY Alone DEF WaitForExit, Becomes, SwapInv, TypeOK
<1>1. Exclusive'
  BY <1>0 DEF SwapInv, TypeOK, Exclusive, WaitForExit, Becomes
<1>2. Phases'
  BY <1>0 DEF SwapInv, TypeOK, Exclusive, Phases, WaitForExit, Becomes
<1>3. Files'
  BY <1>0 DEF SwapInv, TypeOK, Phases, Files, OfferIsStaged, WaitForExit, Becomes
<1>4. OfferIsStaged'
  BY <1>0 DEF SwapInv, TypeOK, Phases, OfferIsStaged, WaitForExit, Becomes
<1> QED
  BY <1>1, <1>2, <1>3, <1>4 DEF SwapInv

LEMMA DropOldKeeps ==
  ASSUME SwapInv, TypeOK', NEW p \in Procs, DropOld(p)
  PROVE  SwapInv'
<1>0. Busy(p) /\ DisturbOthers(p) = dl /\ ~StagedLocked(p) /\ \A q \in Procs \ {p} : ~Busy(q)
  BY Alone DEF DropOld, Becomes, SwapInv, TypeOK
<1>1. Exclusive'
  BY <1>0 DEF SwapInv, TypeOK, Exclusive, DropOld, Becomes
<1>2. Phases'
  BY <1>0 DEF SwapInv, TypeOK, Exclusive, Phases, DropOld, Becomes
<1>3. Files'
  BY <1>0 DEF SwapInv, TypeOK, Phases, Files, OfferIsStaged, DropOld, Becomes
<1>4. OfferIsStaged'
  BY <1>0 DEF SwapInv, TypeOK, Phases, OfferIsStaged, DropOld, Becomes
<1> QED
  BY <1>1, <1>2, <1>3, <1>4 DEF SwapInv

LEMMA MoveAsideKeeps ==
  ASSUME SwapInv, TypeOK', NEW p \in Procs, MoveAside(p)
  PROVE  SwapInv'
<1>0. Busy(p) /\ DisturbOthers(p) = dl /\ ~StagedLocked(p) /\ \A q \in Procs \ {p} : ~Busy(q)
  BY Alone DEF MoveAside, Becomes, CanRename, MayFail, SwapInv, TypeOK
<1>1. Exclusive'
  BY <1>0 DEF SwapInv, TypeOK, Exclusive, MoveAside, Becomes, CanRename, MayFail
<1>2. Phases'
  BY <1>0 DEF SwapInv, TypeOK, Exclusive, Phases, MoveAside, Becomes, CanRename, MayFail
<1>3. Files'
  BY <1>0 DEF SwapInv, TypeOK, Phases, Files, OfferIsStaged, MoveAside, Becomes, CanRename, MayFail
<1>4. OfferIsStaged'
  BY <1>0 DEF SwapInv, TypeOK, Phases, OfferIsStaged, MoveAside, Becomes, CanRename, MayFail
<1> QED
  BY <1>1, <1>2, <1>3, <1>4 DEF SwapInv

LEMMA PlaceKeeps ==
  ASSUME SwapInv, TypeOK', NEW p \in Procs, Place(p)
  PROVE  SwapInv'
<1>0. Busy(p) /\ DisturbOthers(p) = dl /\ ~StagedLocked(p) /\ \A q \in Procs \ {p} : ~Busy(q)
  BY Alone DEF Place, Becomes, CanRename, MayFail, SwapInv, TypeOK
<1>1. Exclusive'
  BY <1>0 DEF SwapInv, TypeOK, Exclusive, Place, Becomes, CanRename, MayFail
<1>2. Phases'
  BY <1>0 DEF SwapInv, TypeOK, Exclusive, Phases, Place, Becomes, CanRename, MayFail
<1>3. Files'
  BY <1>0 DEF SwapInv, TypeOK, Phases, Files, OfferIsStaged, Place, Becomes, CanRename, MayFail
<1>4. OfferIsStaged'
  BY <1>0 DEF SwapInv, TypeOK, Phases, OfferIsStaged, Place, Becomes, CanRename, MayFail
<1> QED
  BY <1>1, <1>2, <1>3, <1>4 DEF SwapInv

LEMMA RollbackKeeps ==
  ASSUME SwapInv, TypeOK', NEW p \in Procs, Rollback(p)
  PROVE  SwapInv'
<1>0. Busy(p) /\ DisturbOthers(p) = dl /\ ~StagedLocked(p) /\ \A q \in Procs \ {p} : ~Busy(q)
  BY Alone DEF Rollback, Becomes, CanRename, MayFail, SwapInv, TypeOK
<1>1. Exclusive'
  BY <1>0 DEF SwapInv, TypeOK, Exclusive, Rollback, Becomes, CanRename, MayFail
<1>2. Phases'
  BY <1>0 DEF SwapInv, TypeOK, Exclusive, Phases, Rollback, Becomes, CanRename, MayFail
<1>3. Files'
  BY <1>0 DEF SwapInv, TypeOK, Phases, Files, OfferIsStaged, Rollback, Becomes, CanRename, MayFail
<1>4. OfferIsStaged'
  BY <1>0 DEF SwapInv, TypeOK, Phases, OfferIsStaged, Rollback, Becomes, CanRename, MayFail
<1> QED
  BY <1>1, <1>2, <1>3, <1>4 DEF SwapInv

LEMMA TidyKeeps ==
  ASSUME SwapInv, TypeOK', NEW p \in Procs, Tidy(p)
  PROVE  SwapInv'
<1>0. Busy(p) /\ DisturbOthers(p) = dl /\ ~StagedLocked(p) /\ \A q \in Procs \ {p} : ~Busy(q)
  BY Alone DEF Tidy, Becomes, SwapInv, TypeOK
<1>1. Exclusive'
  BY <1>0 DEF SwapInv, TypeOK, Exclusive, Tidy, Becomes
<1>2. Phases'
  BY <1>0 DEF SwapInv, TypeOK, Exclusive, Phases, Tidy, Becomes
<1>3. Files'
  BY <1>0 DEF SwapInv, TypeOK, Phases, Files, OfferIsStaged, Tidy, Becomes
<1>4. OfferIsStaged'
  BY <1>0 DEF SwapInv, TypeOK, Phases, OfferIsStaged, Tidy, Becomes
<1> QED
  BY <1>1, <1>2, <1>3, <1>4 DEF SwapInv

LEMMA ReplaceKeeps ==
  ASSUME SwapInv, TypeOK', NEW p \in Procs, Replace(p)
  PROVE  SwapInv'
<1>0. Busy(p) /\ DisturbOthers(p) = dl /\ ~StagedLocked(p) /\ \A q \in Procs \ {p} : ~Busy(q)
  BY Alone DEF Replace, Becomes, CanReplace, SwapInv, TypeOK
<1>1. Exclusive'
  BY <1>0 DEF SwapInv, TypeOK, Exclusive, Replace, Becomes, CanReplace
<1>2. Phases'
  BY <1>0 DEF SwapInv, TypeOK, Exclusive, Phases, Replace, Becomes, CanReplace
<1>3. Files'
  BY <1>0 DEF SwapInv, TypeOK, Phases, Files, OfferIsStaged, Replace, Becomes, CanReplace
<1>4. OfferIsStaged'
  BY <1>0 DEF SwapInv, TypeOK, Phases, OfferIsStaged, Replace, Becomes, CanReplace
<1> QED
  BY <1>1, <1>2, <1>3, <1>4 DEF SwapInv

LEMMA RelaunchKeeps ==
  ASSUME SwapInv, TypeOK', NEW p \in Procs, Relaunch(p)
  PROVE  SwapInv'
<1>0. Busy(p) /\ DisturbOthers(p) = dl /\ ~StagedLocked(p) /\ \A q \in Procs \ {p} : ~Busy(q)
  BY Alone DEF Relaunch, Becomes, SwapInv, TypeOK
<1>1. Exclusive'
  <2>1. ~Busy(p)'
    <3>1. app[p] = "dead" /\ ~Writing(p)
      BY DEF SwapInv, TypeOK, Phases, Relaunch
    <3>2. app'[p] = "dead" /\ dl' = dl
      BY <3>1 DEF SwapInv, TypeOK, Relaunch
    <3>3. helper'[p] \in {"done", "failed"}
      BY DEF SwapInv, TypeOK, Relaunch, Becomes
    <3> QED
      BY <3>1, <3>2, <3>3
  <2>2. \A q \in Procs \ {p} : helper'[q] = helper[q] /\ dl'[q] = dl[q]
    BY DEF SwapInv, TypeOK, Relaunch, Becomes
  <2>3. CASE UNCHANGED app
    BY <1>0, <2>1, <2>2, <2>3 DEF Exclusive
  <2>4. CASE \E r \in Procs : app' = [app EXCEPT ![r] = "stat"]
    <3>1. PICK r \in Procs : app' = [app EXCEPT ![r] = "stat"]
      BY <2>4
    <3>2. \A q \in Procs \ {p, r} : ~Busy(q)'
      BY <1>0, <2>2, <3>1 DEF SwapInv, TypeOK
    <3> QED
      BY <2>1, <3>2 DEF Exclusive
  <2> QED
    BY <2>3, <2>4 DEF Relaunch
<1>2. Phases'
  BY <1>0 DEF SwapInv, TypeOK, Exclusive, Phases, Relaunch, Becomes
<1>3. Files'
  BY <1>0 DEF SwapInv, TypeOK, Phases, Files, OfferIsStaged, Relaunch, Becomes
<1>4. OfferIsStaged'
  BY <1>0 DEF SwapInv, TypeOK, Phases, OfferIsStaged, Relaunch, Becomes
<1> QED
  BY <1>1, <1>2, <1>3, <1>4 DEF SwapInv

LEMMA HelperKilledKeeps ==
  ASSUME SwapInv, TypeOK', NEW p \in Procs, HelperKilled(p)
  PROVE  SwapInv'
<1>0. Busy(p) /\ DisturbOthers(p) = dl /\ ~StagedLocked(p) /\ \A q \in Procs \ {p} : ~Busy(q)
  BY Alone DEF HelperKilled, Becomes, SwapInv, TypeOK
<1>1. Exclusive'
  BY <1>0 DEF SwapInv, TypeOK, Exclusive, HelperKilled, Becomes
<1>2. Phases'
  BY <1>0 DEF SwapInv, TypeOK, Exclusive, Phases, HelperKilled, Becomes
<1>3. Files'
  BY <1>0 DEF SwapInv, TypeOK, Phases, Files, OfferIsStaged, HelperKilled, Becomes
<1>4. OfferIsStaged'
  BY <1>0 DEF SwapInv, TypeOK, Phases, OfferIsStaged, HelperKilled, Becomes
<1> QED
  BY <1>1, <1>2, <1>3, <1>4 DEF SwapInv

LEMMA NextSwapInv == ASSUME ~Overlap PROVE SwapInv /\ [Next]_vars => SwapInv'
<1> SUFFICES ASSUME SwapInv, [Next]_vars PROVE SwapInv'
  OBVIOUS
<1>0. TypeOK'
  BY NextTypeOK DEF SwapInv
<1>1. CASE UNCHANGED vars
  BY <1>1 DEF vars, SwapInv, TypeOK, Exclusive, Phases, Files, OfferIsStaged
<1>2. ASSUME NEW p \in Procs, Step(p) PROVE SwapInv'
  <2>1. CASE Launch(p) \/ Startup(p) \/ Exit(p)
    BY <1>0, <2>1, LaunchKeeps, SweepStatKeeps, SweepOldKeeps, SweepStagedKeeps,
       ExitKeeps DEF Startup
  <2>2. CASE Download(p)
    BY <1>0, <2>2, DownloadUpdateKeeps, FetchedKeeps, ClearStagedKeeps,
       BeginExtractKeeps, StagedKeeps, DownloadFailedKeeps, SettleKeeps,
       OrphanEndsKeeps DEF Download
  <2>3. CASE Apply(p)
    BY <1>0, <2>3, ApplyUpdateKeeps, SpawnHelperKeeps, SpawnFailedKeeps DEF Apply
  <2>4. CASE RunApplyUpdate(p) \/ HelperKilled(p)
    BY <1>0, <2>4, WaitForExitKeeps, DropOldKeeps, MoveAsideKeeps, PlaceKeeps,
       RollbackKeeps, TidyKeeps, ReplaceKeeps, RelaunchKeeps, HelperKilledKeeps
    DEF RunApplyUpdate
  <2> QED
    BY <1>2, <2>1, <2>2, <2>3, <2>4 DEF Step
<1> QED
  BY <1>1, <1>2 DEF Next

(* With one process or helper at a time, a button that offers a restart    *)
(* and a helper that waits always have a complete payload, and the shared  *)
(* paths are what each step of the swap expects: the inductive invariant.  *)
THEOREM SwapInvariant == ASSUME ~Overlap PROVE Spec => []SwapInv
<1>1. Init => SwapInv
  BY InitSwapInv
<1>2. SwapInv /\ [Next]_vars => SwapInv'
  BY NextSwapInv
<1> QED
  BY <1>1, <1>2, PTL DEF Spec

(* With one process or helper at a time, no kill, failed rename, removal   *)
(* cut short or slow exit destroys the last complete copy of the app.      *)
THEOREM LastCopyKept == ASSUME ~Overlap PROVE Spec => []CopySurvives
<1>1. SwapInv => CopySurvives
  BY DEF SwapInv, Files, CopySurvives
<1> QED
  BY <1>1, SwapInvariant, PTL

(* With one process or helper at a time, an incomplete payload is never    *)
(* swapped into the install path.                                          *)
THEOREM OnlyCompleteInstalled == ASSUME ~Overlap PROVE Spec => []NoPartialInstalled
<1>1. SwapInv => NoPartialInstalled
  BY DEF SwapInv, Files, NoPartialInstalled
<1> QED
  BY <1>1, SwapInvariant, PTL

(* With one process or helper at a time, nobody runs the app while the     *)
(* helper moves files.                                                     *)
THEOREM SwapIsAlone == ASSUME ~Overlap PROVE Spec => []SwapsAlone
<1>1. SwapInv => SwapsAlone
  <2> SUFFICES ASSUME SwapInv, NEW p \in Procs, HelperLive(p), helper[p] # "wait",
                      NEW q \in Procs
               PROVE  ~Alive(q)
    BY DEF SwapsAlone
  <2>1. ~Alive(p)
    BY DEF SwapInv, Phases
  <2>2. q = p \/ ~Busy(q)
    BY DEF SwapInv, Exclusive
  <2> QED
    BY <2>1, <2>2
<1> QED
  BY <1>1, SwapInvariant, PTL

-----------------------------------------------------------------------------
(* The refinement of AtomicInstall. *)

promised == <<Best, target # "none", InUse>>

(* A step that leaves the two paths and the use of the app alone stutters. *)
LEMMA Stutters ==
  ASSUME UNCHANGED <<target, old>>, InUse' = InUse, SwapInv
  PROVE  UNCHANGED promised
BY DEF promised, Best, SwapInv, Files

(* With target present, the copy moved aside does not matter.              *)
LEMMA StuttersPresent ==
  ASSUME target \in Versions, target' = target, InUse' = InUse
  PROVE  UNCHANGED promised
BY DEF promised, Best

LEMMA StepRefines ==
  ASSUME SwapInv, ~Overlap, NEW p \in Procs, Step(p)
  PROVE  [Install!Next]_promised
<1>1. CASE Launch(p)
  <2>1. ~InUse /\ InUse'
    BY <1>1 DEF Launch, InUse, SwapInv, TypeOK
  <2>2. target \in Versions /\ UNCHANGED <<target, old, staged>>
    BY <1>1 DEF Launch
  <2> QED
    BY <2>1, <2>2 DEF Install!Next, Install!Open, Best
<1>2. CASE Startup(p) \/ (Download(p) /\ ~OrphanEnds(p)) \/ Apply(p)
  <2>1. Alive(p) /\ Alive(p)'
    BY <1>2 DEF Startup, SweepStat, SweepOld, SweepStaged, Download, DownloadUpdate,
       Fetched, ClearStaged, BeginExtract, Staged, DownloadFailed, Settle, Apply,
       ApplyUpdate, SpawnHelper, SpawnFailed, SwapInv, TypeOK
  <2>2. target' = target
    BY <1>2 DEF Startup, SweepStat, SweepOld, SweepStaged, Download, DownloadUpdate,
       Fetched, ClearStaged, BeginExtract, Staged, DownloadFailed, Settle, Apply,
       ApplyUpdate, SpawnHelper, SpawnFailed
  <2>3. InUse' = InUse /\ target \in Versions
    BY <2>1 DEF InUse, SwapInv, Files
  <2> QED
    BY <2>2, <2>3, StuttersPresent
<1>3. CASE OrphanEnds(p)
  <2>1. UNCHANGED <<target, old>> /\ InUse' = InUse
    BY <1>3 DEF OrphanEnds, InUse
  <2> QED
    BY <2>1, Stutters
<1>4. CASE Exit(p)
  <2>1. Alive(p) /\ UNCHANGED <<target, old, staged>>
    BY <1>4 DEF Exit
  <2>2. \A q \in Procs : ~Alive(q)'
    BY <1>4, <2>1 DEF Exit, SwapInv, TypeOK, Exclusive
  <2>3. InUse /\ ~InUse'
    BY <2>1, <2>2 DEF InUse
  <2> QED
    BY <2>1, <2>3 DEF Install!Next, Install!Close, Best
<1>5. CASE WaitForExit(p) \/ HelperKilled(p)
  <2>1. UNCHANGED <<target, old>> /\ InUse' = InUse
    BY <1>5 DEF WaitForExit, HelperKilled, InUse
  <2> QED
    BY <2>1, Stutters
<1>6. CASE DropOld(p) \/ Tidy(p)
  <2>1. target \in Versions /\ target' = target /\ InUse' = InUse
    BY <1>6 DEF DropOld, Tidy, InUse, SwapInv, Files
  <2> QED
    BY <2>1, StuttersPresent
<1>7. CASE MoveAside(p) \/ Place(p) \/ Rollback(p) \/ Replace(p)
  <2>1. ~InUse /\ InUse' = InUse
    <3>1. HelperLive(p) /\ helper[p] # "wait" /\ app' = app
      BY <1>7 DEF MoveAside, Place, Rollback, Replace
    <3>2. ~Alive(p) /\ \A q \in Procs \ {p} : ~Busy(q)
      BY <3>1 DEF SwapInv, Phases, Exclusive
    <3> QED
      BY <3>1, <3>2 DEF InUse
  <2>2. CASE MoveAside(p)
    <3>1. CASE UNCHANGED <<target, old>>
      BY <2>1, <3>1, Stutters
    <3>2. CASE ~UNCHANGED <<target, old>>
      <4>1. target # "none" /\ target' = "none" /\ old' = target
        BY <2>2, <3>2 DEF MoveAside, CanRename
      <4>2. target \in Versions
        BY <4>1 DEF SwapInv, Files
      <4>3. Best' = Best
        BY <4>1, <4>2 DEF Best
      <4> QED
        BY <2>1, <4>1, <4>3 DEF Install!Next, Install!TakeAside
    <3> QED
      BY <3>1, <3>2
  <2>3. CASE Place(p) \/ Replace(p)
    <3>1. CASE UNCHANGED <<target, old>>
      BY <2>1, <3>1, Stutters
    <3>2. CASE ~UNCHANGED <<target, old>>
      <4>1. target' = "update"
        BY <2>3, <3>2 DEF Place, Replace, SwapInv, Files
      <4>2. Best' = "update"
        BY <4>1 DEF Best
      <4> QED
        BY <2>1, <4>1, <4>2 DEF Install!Next, Install!Upgrade
    <3> QED
      BY <3>1, <3>2
  <2>4. CASE Rollback(p)
    <3>1. CASE UNCHANGED <<target, old>>
      BY <2>1, <3>1, Stutters
    <3>2. CASE ~UNCHANGED <<target, old>>
      <4>1. target = "none" /\ target' = old
        BY <2>4, <3>2 DEF Rollback, CanRename
      <4>2. old \in Versions
        BY <4>1 DEF SwapInv, Files
      <4>3. Best' = Best
        BY <4>1, <4>2 DEF Best
      <4> QED
        BY <2>1, <4>1, <4>2, <4>3 DEF Install!Next, Install!PutBack
    <3> QED
      BY <3>1, <3>2
  <2> QED
    BY <1>7, <2>2, <2>3, <2>4
<1>8. CASE Relaunch(p)
  <2>1. helper[p] = "open" /\ target \in Versions /\ UNCHANGED <<target, old, staged>>
    BY <1>8 DEF Relaunch, SwapInv, Files
  <2>2. ~InUse
    <3>1. ~Alive(p) /\ \A q \in Procs \ {p} : ~Busy(q)
      BY <2>1 DEF SwapInv, Phases, Exclusive
    <3> QED
      BY <3>1 DEF InUse
  <2>3. CASE InUse'
    BY <2>1, <2>2, <2>3 DEF Install!Next, Install!Open, Best
  <2>4. CASE ~InUse'
    BY <2>1, <2>2, <2>4, StuttersPresent DEF InUse
  <2> QED
    BY <2>3, <2>4
<1> QED
  BY <1>1, <1>2, <1>3, <1>4, <1>5, <1>6, <1>7, <1>8 DEF Step, Download, RunApplyUpdate

(* With one process or helper at a time, every step of the updater is a    *)
(* step of the abstract install or invisible to it: never lost, never      *)
(* downgraded, replaced only while nobody uses the app.                    *)
THEOREM UpdaterImplementsInstall == ASSUME ~Overlap PROVE Spec => ImplementsInstall
<1>1. Init => Install!Init
  BY DEF Init, Install!Init, Best, InUse
<1>2. SwapInv /\ [Next]_vars => [Install!Next]_promised
  <2>1. SwapInv /\ UNCHANGED vars => UNCHANGED promised
    BY DEF vars, promised, Best, InUse
  <2> QED
    BY <2>1, StepRefines DEF Next
<1> QED
  BY <1>1, <1>2, SwapInvariant, PTL DEF Spec, ImplementsInstall, Install!Spec, promised
=============================================================================
