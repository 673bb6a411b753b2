------------------------------- MODULE Updater -------------------------------
(***************************************************************************)
(* The in-place self-update of internal/updater, the part of wizard.App    *)
(* that drives it, and the update button of updateBanner.js.               *)
(*                                                                         *)
(* A process of the app downloads the new release, unpacks it beside the   *)
(* install (Stage), and on the user's click starts a detached helper and   *)
(* quits.  The helper waits for its parent to exit, swaps the staged       *)
(* payload into the install path and opens it.  Every process sweeps the   *)
(* leftovers of an earlier swap when it starts.  All of them share three   *)
(* paths of the install directory: the target, target.old and the staged   *)
(* sibling.                                                                *)
(***************************************************************************)
EXTENDS Naturals

CONSTANTS
  Procs,      \* the app processes that are ever started (each one is a pid)
  Platform,   \* "darwin": a bundle, two renames; "windows": one MoveFileEx
  Overlap,    \* may a process be started while another, or a helper, is live
  Faults      \* the faults that may happen, a subset of FaultKinds

FaultKinds == {"kill",      \* a process or a helper is killed at any step
               "rename",    \* a rename fails for a reason of its own
               "remove",    \* a removal leaves files behind
               "slowexit"}  \* the parent outlives the helper's 30 s wait

ASSUME PlatformAssumption == Platform \in {"darwin", "windows"}
ASSUME OverlapAssumption == Overlap \in BOOLEAN
ASSUME FaultsAssumption == Faults \subseteq FaultKinds

VARIABLES
  target,     \* what the install path holds
  old,        \* what target.old holds
  staged,     \* what the staged sibling holds
  app,        \* app[p]: the life of process p, Startup's sweep step by step
  ver,        \* ver[p]: the version process p was started from
  dl,         \* dl[p]: DownloadUpdate's goroutine; downloading = (dl # "idle")
  ready,      \* ready[p]: App.updateReady
  ui,         \* ui[p]: the phase of the update button
  helper      \* helper[p]: the helper that process p started

fs   == <<target, old, staged>>
proc == <<app, ver, dl, ready, ui>>
vars == <<target, old, staged, app, ver, dl, ready, ui, helper>>

Versions == {"current", "update"}             \* the installed release, the new one
Contents == Versions \union {"none", "partial"}

AppState    == {"unborn", "stat", "sweepOld", "sweepStaged", "up", "quitting", "dead"}
DlState     == {"idle", "fetch", "clear", "unpack", "extract", "disturbed", "settle"}
UiState     == {"idle", "downloading", "ready", "installing", "error"}
HelperState == {"none", "wait", "dropOld", "aside", "place", "rollback", "tidy",
                "replace", "open", "done", "failed"}

TypeOK ==
  /\ target \in Contents /\ old \in Contents /\ staged \in Contents
  /\ app \in [Procs -> AppState]
  /\ ver \in [Procs -> Versions]
  /\ dl \in [Procs -> DlState]
  /\ ready \in [Procs -> BOOLEAN]
  /\ ui \in [Procs -> UiState]
  /\ helper \in [Procs -> HelperState]

Init ==
  /\ target = "current" /\ old = "none" /\ staged = "none"
  /\ app = [p \in Procs |-> "unborn"]
  /\ ver = [p \in Procs |-> "current"]
  /\ dl = [p \in Procs |-> "idle"]
  /\ ready = [p \in Procs |-> FALSE]
  /\ ui = [p \in Procs |-> "idle"]
  /\ helper = [p \in Procs |-> "none"]

-----------------------------------------------------------------------------
(* Who is active. *)

Alive(p)      == app[p] \notin {"unborn", "dead"}
Writing(p)    == dl[p] \in {"extract", "disturbed"}
HelperLive(p) == helper[p] \notin {"none", "done", "failed"}
Busy(p)       == Alive(p) \/ Writing(p) \/ HelperLive(p)

(* Windows refuses to delete or move a file another process has open.      *)
StagedLocked(p) == Platform = "windows" /\ \E q \in Procs \ {p} : Writing(q)

(* A writer whose staged files another process removes, moves or rewrites. *)
DisturbOthers(p) ==
  [q \in Procs |-> IF q # p /\ dl[q] = "extract" THEN "disturbed" ELSE dl[q]]

(* os.RemoveAll, whose error every caller ignores.  It takes a bundle      *)
(* apart file by file, so a kill may leave a part of it, and may return    *)
(* with something left; a single .exe is there or gone.                    *)
TakesApart(path) == Platform = "darwin" /\ path \in Versions
Leaves(path)     == {"none"} \union (IF "remove" \in Faults THEN {path} ELSE {})

-----------------------------------------------------------------------------
(* Process start and exit. *)

(* Mutant: an app that opens whatever the path holds.                      *)
LaunchUnchecked(p) ==
  /\ app[p] = "unborn"
  /\ Overlap \/ \A q \in Procs : ~Busy(q)
  /\ app' = [app EXCEPT ![p] = "stat"]
  /\ ver' = [ver EXCEPT ![p] = target]
  /\ UNCHANGED <<target, old, staged, dl, ready, ui, helper>>

(* main: the user opens the app that the install path holds.               *)
Launch(p) ==
  /\ app[p] = "unborn"
  /\ target \in Versions
  /\ Overlap \/ \A q \in Procs : ~Busy(q)
  /\ app' = [app EXCEPT ![p] = "stat"]
  /\ ver' = [ver EXCEPT ![p] = target]
  /\ UNCHANGED <<target, old, staged, dl, ready, ui, helper>>

(* CleanupLeftovers: a no-op unless the install is there when it looks.    *)
SweepStat(p) ==
  /\ app[p] = "stat"
  /\ app' = [app EXCEPT ![p] = IF target = "none" THEN "up" ELSE "sweepOld"]
  /\ UNCHANGED <<target, old, staged, ver, dl, ready, ui, helper>>

SweepOld(p) ==
  /\ app[p] = "sweepOld"
  /\ \/ TakesApart(old) /\ old' = "partial" /\ UNCHANGED app
     \/ old' \in Leaves(old) /\ app' = [app EXCEPT ![p] = "sweepStaged"]
  /\ UNCHANGED <<target, staged, ver, dl, ready, ui, helper>>

SweepStaged(p) ==
  /\ app[p] = "sweepStaged"
  /\ \/ TakesApart(staged) /\ staged' = "partial" /\ UNCHANGED app
     \/ ~StagedLocked(p) /\ staged' \in Leaves(staged) /\ app' = [app EXCEPT ![p] = "up"]
     \/ StagedLocked(p) /\ UNCHANGED staged /\ app' = [app EXCEPT ![p] = "up"]
  /\ dl' = IF StagedLocked(p) THEN dl ELSE DisturbOthers(p)
  /\ UNCHANGED <<target, old, ver, ready, ui, helper>>

(* The goroutine dies with its process, but the ditto child that copies    *)
(* the bundle on macOS runs on.                                            *)
Exit(p) ==
  /\ app[p] \in {"up", "quitting"} \/ (Alive(p) /\ "kill" \in Faults)
  /\ app' = [app EXCEPT ![p] = "dead"]
  /\ dl' = [dl EXCEPT ![p] = IF Writing(p) /\ Platform = "darwin" THEN dl[p] ELSE "idle"]
  /\ UNCHANGED <<target, old, staged, ver, ready, ui, helper>>

-----------------------------------------------------------------------------
(* DownloadUpdate and its goroutine, behind the button. *)

(* A click when the button offers a download.  The call is refused while   *)
(* the last goroutine has not cleared `downloading`, or with no update.    *)
DownloadUpdate(p) ==
  /\ app[p] = "up"
  /\ ui[p] \in {"idle", "error"}
  /\ ver[p] = "current"
  /\ \/ /\ dl[p] = "idle"
        /\ dl' = [dl EXCEPT ![p] = "fetch"]
        /\ ui' = [ui EXCEPT ![p] = "downloading"]
     \/ /\ ui' = [ui EXCEPT ![p] = "error"]
        /\ UNCHANGED dl
  /\ UNCHANGED <<target, old, staged, app, ver, ready, helper>>

(* Download verified the artifact in a private directory, or Stage begins  *)
(* by removing what is staged.                                             *)
Fetched(p) ==
  /\ app[p] = "up" /\ dl[p] = "fetch"
  /\ dl' = [dl EXCEPT ![p] = "clear"]
  /\ UNCHANGED <<target, old, staged, app, ver, ready, ui, helper>>

ClearStaged(p) ==
  /\ app[p] = "up" /\ dl[p] = "clear"
  /\ \/ TakesApart(staged) /\ staged' = "partial" /\ dl' = DisturbOthers(p)
     \/ /\ ~StagedLocked(p)
        /\ staged' \in Leaves(staged)
        /\ dl' = [DisturbOthers(p) EXCEPT ![p] = "unpack"]
     \/ StagedLocked(p) /\ UNCHANGED staged /\ dl' = [dl EXCEPT ![p] = "unpack"]
  /\ UNCHANGED <<target, old, app, ver, ready, ui, helper>>

(* Opening the .exe with O_TRUNC, or ditto's first file: what is staged is *)
(* incomplete until the copy ends.                                         *)
BeginExtract(p) ==
  /\ app[p] = "up" /\ dl[p] = "unpack"
  /\ staged' = "partial"
  /\ dl' = [DisturbOthers(p) EXCEPT
              ![p] = IF \E q \in Procs \ {p} : Writing(q) THEN "disturbed" ELSE "extract"]
  /\ UNCHANGED <<target, old, app, ver, ready, ui, helper>>

(* Mutant: the result of ditto, or of closing the .exe, is ignored.        *)
StagedUnchecked(p) ==
  /\ app[p] = "up" /\ Writing(p) /\ staged # "none"
  /\ staged' \in {"update", "partial"}
  /\ dl' = [dl EXCEPT ![p] = "settle"]
  /\ ready' = [ready EXCEPT ![p] = TRUE]
  /\ ui' = [ui EXCEPT ![p] = "ready"]
  /\ UNCHANGED <<target, old, app, ver, helper>>

(* Stage returned: update_ready.  A copy another process disturbed may     *)
(* return without an error and yet leave an incomplete payload.            *)
Staged(p) ==
  /\ app[p] = "up" /\ Writing(p) /\ staged # "none"
  /\ \E result \in IF dl[p] = "extract" THEN {"update"} ELSE {"update", "partial"} :
       staged' = result
  /\ dl' = [dl EXCEPT ![p] = "settle"]
  /\ ready' = [ready EXCEPT ![p] = TRUE]
  /\ ui' = [ui EXCEPT ![p] = "ready"]
  /\ UNCHANGED <<target, old, app, ver, helper>>

(* Mutant: an error of Stage is followed by update_ready.                  *)
DownloadFailedReady(p) ==
  /\ app[p] = "up" /\ dl[p] \notin {"idle", "settle"}
  /\ dl' = [dl EXCEPT ![p] = "settle"]
  /\ ui' = [ui EXCEPT ![p] = "ready"]
  /\ ready' = [ready EXCEPT ![p] = TRUE]
  /\ UNCHANGED <<target, old, staged, app, ver, helper>>

(* MkdirTemp, Download or Stage failed: update_error.  What was extracted  *)
(* stays, and so does updateReady.                                         *)
DownloadFailed(p) ==
  /\ app[p] = "up" /\ dl[p] \notin {"idle", "settle"}
  /\ dl' = [dl EXCEPT ![p] = "settle"]
  /\ ui' = [ui EXCEPT ![p] = "error"]
  /\ UNCHANGED <<target, old, staged, app, ver, ready, helper>>

(* The deferred downloading = false, after the event.                      *)
Settle(p) ==
  /\ app[p] = "up" /\ dl[p] = "settle"
  /\ dl' = [dl EXCEPT ![p] = "idle"]
  /\ UNCHANGED <<target, old, staged, app, ver, ready, ui, helper>>

(* The ditto of a process that is gone ends.                               *)
OrphanEnds(p) ==
  /\ app[p] = "dead" /\ Writing(p)
  /\ staged' \in IF staged = "none" THEN {"none"} ELSE {staged, "update"}
  /\ dl' = [dl EXCEPT ![p] = "idle"]
  /\ UNCHANGED <<target, old, app, ver, ready, ui, helper>>

-----------------------------------------------------------------------------
(* ApplyUpdate. *)

(* A click on "Restart to update", past ApplyUpdate's two checks.  That it *)
(* may be refused while a run is in progress is SpawnFailed's outcome.     *)
ApplyUpdate(p) ==
  /\ app[p] = "up" /\ ui[p] = "ready" /\ ready[p]
  /\ ui' = [ui EXCEPT ![p] = "installing"]
  /\ UNCHANGED <<target, old, staged, app, ver, dl, ready, helper>>

(* Mutant: ApplyUpdate spawns the helper and forgets to quit.              *)
SpawnHelperNoQuit(p) ==
  /\ app[p] = "up" /\ ui[p] = "installing"
  /\ target # "none"
  /\ helper' = [helper EXCEPT ![p] = "wait"]
  /\ UNCHANGED <<target, old, staged, app, ver, dl, ready, ui>>

SpawnHelper(p) ==
  /\ app[p] = "up" /\ ui[p] = "installing"
  /\ target # "none"                  \* the helper is a copy of the install
  /\ helper' = [helper EXCEPT ![p] = "wait"]
  /\ app' = [app EXCEPT ![p] = "quitting"]
  /\ UNCHANGED <<target, old, staged, ver, dl, ready, ui>>

SpawnFailed(p) ==
  /\ app[p] = "up" /\ ui[p] = "installing"
  /\ ui' = [ui EXCEPT ![p] = "ready"]
  /\ UNCHANGED <<target, old, staged, app, ver, dl, ready, helper>>

-----------------------------------------------------------------------------
(* The helper: RunApplyUpdate. *)

Becomes(p, state) == helper' = [helper EXCEPT ![p] = state]

(* Mutant: the helper does not wait for its parent.                        *)
WaitForExitAtOnce(p) ==
  /\ helper[p] = "wait"
  /\ Becomes(p, IF Platform = "windows" THEN "replace" ELSE "dropOld")
  /\ UNCHANGED <<target, old, staged, app, ver, dl, ready, ui>>

WaitForExit(p) ==
  /\ helper[p] = "wait"
  /\ \/ app[p] = "dead" /\ Becomes(p, IF Platform = "windows" THEN "replace" ELSE "dropOld")
     \/ Alive(p) /\ "slowexit" \in Faults /\ Becomes(p, "failed")
  /\ UNCHANGED <<target, old, staged, app, ver, dl, ready, ui>>

DropOld(p) ==
  /\ helper[p] = "dropOld"
  /\ \/ TakesApart(old) /\ old' = "partial" /\ UNCHANGED helper
     \/ old' \in Leaves(old) /\ Becomes(p, "aside")
  /\ UNCHANGED <<target, staged, app, ver, dl, ready, ui>>

(* os.Rename of a bundle needs its source and an empty destination.        *)
CanRename(src, dst) == src # "none" /\ dst = "none"
MayFail(src, dst) == ~CanRename(src, dst) \/ "rename" \in Faults

MoveAside(p) ==
  /\ helper[p] = "aside"
  /\ \/ /\ CanRename(target, old)
        /\ old' = target /\ target' = "none"
        /\ Becomes(p, "place")
     \/ /\ MayFail(target, old)
        /\ Becomes(p, "failed")
        /\ UNCHANGED <<target, old>>
  /\ UNCHANGED <<staged, app, ver, dl, ready, ui>>

Place(p) ==
  /\ helper[p] = "place"
  /\ \/ /\ CanRename(staged, target)
        /\ target' = staged /\ staged' = "none"
        /\ dl' = DisturbOthers(p)
        /\ Becomes(p, "tidy")
     \/ /\ MayFail(staged, target)
        /\ Becomes(p, "rollback")
        /\ UNCHANGED <<target, staged, dl>>
  /\ UNCHANGED <<old, app, ver, ready, ui>>

(* Mutant: the old install is removed where it should be put back.         *)
RollbackTidies(p) ==
  /\ helper[p] = "rollback"
  /\ old' = "none"
  /\ Becomes(p, "failed")
  /\ UNCHANGED <<target, staged, app, ver, dl, ready, ui>>

Rollback(p) ==
  /\ helper[p] = "rollback"
  /\ \/ CanRename(old, target) /\ target' = old /\ old' = "none"
     \/ MayFail(old, target) /\ UNCHANGED <<target, old>>
  /\ Becomes(p, "failed")
  /\ UNCHANGED <<staged, app, ver, dl, ready, ui>>

Tidy(p) ==
  /\ helper[p] = "tidy"
  /\ \/ TakesApart(old) /\ old' = "partial" /\ UNCHANGED helper
     \/ old' \in Leaves(old) /\ Becomes(p, "open")
  /\ UNCHANGED <<target, staged, app, ver, dl, ready, ui>>

(* MoveFileEx fails while any process runs the target or writes the source. *)
CanReplace ==
  /\ staged # "none"
  /\ \A q \in Procs : ~Alive(q) /\ ~Writing(q)

Replace(p) ==
  /\ helper[p] = "replace"
  /\ \/ /\ CanReplace
        /\ target' = staged /\ staged' = "none"
        /\ Becomes(p, "open")
     \/ /\ ~CanReplace \/ "rename" \in Faults
        /\ Becomes(p, "failed")
        /\ UNCHANGED <<target, staged>>
  /\ UNCHANGED <<old, app, ver, dl, ready, ui>>

(* relaunch: a fresh process when one is left to start.                    *)
Relaunch(p) ==
  /\ helper[p] = "open"
  /\ \/ /\ target \in Versions
        /\ Becomes(p, "done")
        /\ \/ \E q \in Procs :
                /\ app[q] = "unborn"
                /\ app' = [app EXCEPT ![q] = "stat"]
                /\ ver' = [ver EXCEPT ![q] = target]
           \/ (\A q \in Procs : app[q] # "unborn") /\ UNCHANGED <<app, ver>>
     \/ /\ target \notin Versions
        /\ Becomes(p, "failed")
        /\ UNCHANGED <<app, ver>>
  /\ UNCHANGED <<target, old, staged, dl, ready, ui>>

HelperKilled(p) ==
  /\ HelperLive(p) /\ "kill" \in Faults
  /\ Becomes(p, "failed")
  /\ UNCHANGED <<target, old, staged, app, ver, dl, ready, ui>>

-----------------------------------------------------------------------------
Startup(p) == SweepStat(p) \/ SweepOld(p) \/ SweepStaged(p)

Download(p) ==
  \/ DownloadUpdate(p) \/ Fetched(p) \/ ClearStaged(p) \/ BeginExtract(p)
  \/ Staged(p) \/ DownloadFailed(p) \/ Settle(p) \/ OrphanEnds(p)

Apply(p) == ApplyUpdate(p) \/ SpawnHelper(p) \/ SpawnFailed(p)

RunApplyUpdate(p) ==
  \/ WaitForExit(p) \/ DropOld(p) \/ MoveAside(p) \/ Place(p) \/ Rollback(p)
  \/ Tidy(p) \/ Replace(p) \/ Relaunch(p)

Step(p) ==
  \/ Launch(p) \/ Startup(p) \/ Exit(p) \/ Download(p) \/ Apply(p)
  \/ RunApplyUpdate(p) \/ HelperKilled(p)

Next == \E p \in Procs : Step(p)

Spec == Init /\ [][Next]_vars

(* Wails ends a process that called Quit; the operating system schedules   *)
(* the helper.  Clicks, downloads and faults are not promised.             *)
Fairness ==
  \A p \in Procs :
    /\ WF_vars(app[p] = "quitting" /\ Exit(p))
    /\ WF_vars(RunApplyUpdate(p))

FairSpec == Spec /\ Fairness

-----------------------------------------------------------------------------
(* Properties. *)

(* Some complete copy of the app is always on disk: at the install path,   *)
(* moved aside, or staged (renameSwapDir's rollback, CleanupLeftovers).    *)
CopySurvives == {target, old, staged} \intersect Versions # {}

(* The install path never holds a payload whose extraction did not finish: *)
(* extractZipExe reports a flush error for that reason.                    *)
NoPartialInstalled == target # "partial"

(* While a helper is between its first and its last file operation, no     *)
(* process of the app runs: waitForExit exists for that.                   *)
SwapsAlone ==
  \A p \in Procs :
    helper[p] \in {"dropOld", "aside", "place", "rollback", "tidy", "replace", "open"}
      => \A q \in Procs : ~Alive(q)

(* A button that says "Restart to update" always has a complete payload to *)
(* install: nothing removes it between update_ready and the swap.          *)
OfferIsStaged ==
  \A p \in Procs :
    (Alive(p) /\ ui[p] \in {"ready", "installing"}) \/ helper[p] = "wait"
      => staged = "update"

(* The sweep at start never deletes the last complete copy of the app:     *)
(* the comment of CleanupLeftovers.                                        *)
SweepSparesLastCopy ==
  [][ (\E p \in Procs : SweepOld(p) \/ SweepStaged(p))
        => (CopySurvives => CopySurvives') ]_vars

(* An update the user accepted is swapped in and reopened: release note    *)
(* 0.1.11, and ApplyUpdate's "quits so the swap can complete".             *)
Relaunches ==
  \A p \in Procs :
    helper[p] = "wait" ~> (target = "update" /\ \E q \in Procs : helper[q] = "done")

-----------------------------------------------------------------------------
(* The inductive invariant of one process, or helper, at a time. *)

(* At most one process, or one helper and its parent, is active.           *)
Exclusive == \A p, q \in Procs : Busy(p) /\ Busy(q) => p = q

(* What the life of a process says of its download, its button and its     *)
(* helper.                                                                 *)
Phases ==
  \A p \in Procs :
    /\ app[p] \in {"unborn", "stat", "sweepOld", "sweepStaged"}
         => dl[p] = "idle" /\ ui[p] = "idle" /\ helper[p] = "none"
    /\ helper[p] # "none"
         => app[p] \in {"quitting", "dead"} /\ dl[p] \in {"idle", "settle"}
    /\ HelperLive(p) /\ helper[p] # "wait" => app[p] = "dead"
    /\ Alive(p) /\ ui[p] \in {"ready", "installing"} => dl[p] \in {"idle", "settle"}
    /\ dl[p] # "disturbed"

(* What the shared paths hold at each point of the swap.                   *)
Files ==
  /\ \/ target \in Versions
     \/ target = "none" /\ old \in Versions /\ \A p \in Procs : ~Alive(p)
  /\ \A p \in Procs :
       /\ helper[p] \in {"dropOld", "aside", "place", "replace"} => staged = "update"
       /\ helper[p] \in {"wait", "dropOld", "aside", "tidy", "replace", "open"}
            => target \in Versions
       /\ helper[p] \in {"place", "rollback"} => target = "none"

SwapInv == TypeOK /\ Exclusive /\ Phases /\ Files /\ OfferIsStaged

(* What a user or a support engineer sees of the install.  best: the       *)
(* version that can be put back; present: whether the path holds it.       *)
Best ==
  IF target \in Versions THEN target ELSE IF old \in Versions THEN old ELSE staged
InUse == \E p \in Procs : Alive(p)

Install == INSTANCE AtomicInstall
             WITH best <- Best, present <- (target # "none"), inUse <- InUse

(* The detailed updater implements the abstract promise of AtomicInstall.  *)
ImplementsInstall == Install!Spec
=============================================================================
