------------------------------- MODULE Wizard --------------------------------
(***************************************************************************)
(* wizard.App behind the candidate's screens: StartRun and the goroutine   *)
(* of a run, Cancel, the local write, the upload with its retries, the     *)
(* ingest server that dedupes on run_id, the result screen with its Retry  *)
(* button, and the running check of ApplyUpdate.                           *)
(***************************************************************************)
EXTENDS Naturals

CONSTANTS
  Runs,        \* the runs that are ever started (a run_id each)
  None,        \* no run
  Sender,      \* the caller of Upload inside SendReport
  MaxRetries,  \* upload_retries of the configuration
  Habits       \* what an impatient user does, a subset of HabitKinds

HabitKinds == {"overlap",  \* Next is clicked while a run is in progress: a
                           \* double click, or back from the running screen
               "apply"}    \* Next is clicked while ApplyUpdate prepares

ASSUME RunsAssumption == None \notin Runs /\ Sender \notin Runs
ASSUME RetriesAssumption == MaxRetries \in Nat
ASSUME HabitsAssumption == Habits \subseteq HabitKinds

VARIABLES
  running, cancel, current, lastLocal, lastUpload,   \* the fields of App
  pc,          \* pc[r]: how far the goroutine of run r is
  cancelled,   \* the runs whose context is cancelled
  path,        \* path[r]: whose file the completion of r names
  call,        \* call[c]: the Upload call of c
  carries,     \* carries[c]: the run whose report c marshalled
  body,        \* body[c]: whether that report was complete
  tries,       \* tries[c]: attempts of that call
  ingest,      \* ingest[r]: what the server stored under run_id r
  late,        \* the reports of attempts that were given up on, still on their way
  screen,      \* the result screen: its state, report_id and local_path
  apply,       \* ApplyUpdate, step by step
  quit         \* the app is gone

app    == <<running, cancel, current, lastLocal, lastUpload>>
uploads == <<call, carries, body, tries, ingest, late>>
vars == <<running, cancel, current, lastLocal, lastUpload, pc, cancelled, path,
          call, carries, body, tries, ingest, late, screen, apply, quit>>

Callers == Runs \union {Sender}
MaybeRun == Runs \union {None}
RunState == {"new", "sysinfo", "tests", "write", "path", "upload", "calling", "emit",
             "return", "over"}
CallState == {"idle", "try", "sent", "stored", "backoff", "ok", "failed",
              "reported"}
BodyState == {"partial", "complete"}
ScreenState == {"none", "sent", "failed"}
Blank == [state |-> "none", info |-> None, local |-> None]

TypeOK ==
  /\ running \in BOOLEAN /\ quit \in BOOLEAN
  /\ cancel \in MaybeRun /\ current \in MaybeRun
  /\ lastLocal \in MaybeRun /\ lastUpload \in MaybeRun
  /\ pc \in [Runs -> RunState]
  /\ cancelled \subseteq Runs
  /\ path \in [Runs -> MaybeRun]
  /\ call \in [Callers -> CallState]
  /\ carries \in [Callers -> MaybeRun]
  /\ body \in [Callers -> BodyState]
  /\ tries \in [Callers -> 0..MaxRetries + 1]
  /\ ingest \in [Runs -> {"none"} \union BodyState]
  /\ late \subseteq [run : Runs, body : BodyState]
  /\ screen \in [state : ScreenState, info : MaybeRun, local : MaybeRun]
  /\ apply \in {"idle", "checked", "spawned"}

Init ==
  /\ running = FALSE /\ quit = FALSE
  /\ cancel = None /\ current = None /\ lastLocal = None /\ lastUpload = None
  /\ pc = [r \in Runs |-> "new"]
  /\ cancelled = {}
  /\ path = [r \in Runs |-> None]
  /\ call = [c \in Callers |-> "idle"]
  /\ carries = [c \in Callers |-> None]
  /\ body = [c \in Callers |-> "partial"]
  /\ tries = [c \in Callers |-> 0]
  /\ ingest = [r \in Runs |-> "none"]
  /\ late = {}
  /\ screen = Blank
  /\ apply = "idle"

Active(r) == pc[r] \notin {"new", "over"}
(* The report object has its machine, network and error sections.         *)
Filled(r) == pc[r] \notin {"new", "sysinfo", "tests"}

-----------------------------------------------------------------------------
(* StartRun and the goroutine of a run. *)

(* report.New: a run gets a run_id that nobody had before; which one does  *)
(* not matter.                                                             *)
Fresh == CHOOSE r \in Runs : pc[r] = "new"

(* Mutant: StartRun keeps the cancel function of the last run.             *)
StartRunNoCancel(r) ==
  /\ ~quit /\ pc[r] = "new" /\ r = Fresh
  /\ "overlap" \in Habits \/ \A s \in Runs : ~Active(s)
  /\ "apply" \in Habits \/ apply = "idle"
  /\ cancel' = (IF cancel = None THEN r ELSE cancel)
  /\ current' = r /\ running' = TRUE
  /\ pc' = [pc EXCEPT ![r] = "sysinfo"]
  /\ screen' = Blank
  /\ UNCHANGED <<lastLocal, lastUpload, cancelled, path, uploads, apply, quit>>

(* StartRun has no guard of its own; only the screens keep runs apart.     *)
StartRun(r) ==
  /\ ~quit /\ pc[r] = "new" /\ r = Fresh
  /\ "overlap" \in Habits \/ \A s \in Runs : ~Active(s)
  /\ "apply" \in Habits \/ apply = "idle"
  /\ cancel' = r /\ current' = r /\ running' = TRUE
  /\ pc' = [pc EXCEPT ![r] = "sysinfo"]
  /\ screen' = Blank
  /\ UNCHANGED <<lastLocal, lastUpload, cancelled, path, uploads, apply, quit>>

Collected(r) ==
  /\ ~quit /\ pc[r] = "sysinfo"
  /\ pc' = [pc EXCEPT ![r] = "tests"]
  /\ UNCHANGED <<app, cancelled, path, uploads, screen, apply, quit>>

(* RunAll returned and its sections are in the report.                     *)
Tested(r) ==
  /\ ~quit /\ pc[r] = "tests"
  /\ pc' = [pc EXCEPT ![r] = "write"]
  /\ UNCHANGED <<app, cancelled, path, uploads, screen, apply, quit>>

(* WriteLocal; only a success is remembered.                               *)
WriteLocal(r) ==
  /\ ~quit /\ pc[r] = "write"
  /\ lastLocal' \in {r, lastLocal}
  /\ pc' = [pc EXCEPT ![r] = "path"]
  /\ UNCHANGED <<running, cancel, current, lastUpload, cancelled, path, uploads,
                 screen, apply, quit>>

ReadPath(r) ==
  /\ ~quit /\ pc[r] = "path"
  /\ path' = [path EXCEPT ![r] = lastLocal]
  /\ pc' = [pc EXCEPT ![r] = "upload"]
  /\ UNCHANGED <<app, cancelled, uploads, screen, apply, quit>>

(* Upload marshals the report once, before its first attempt.              *)
Marshal(c, r) ==
  /\ carries' = [carries EXCEPT ![c] = r]
  /\ body' = [body EXCEPT ![c] = IF Filled(r) THEN "complete" ELSE "partial"]
  /\ tries' = [tries EXCEPT ![c] = 0]
  /\ call' = [call EXCEPT ![c] = "try"]
  /\ UNCHANGED <<ingest, late>>

BeginUpload(r) ==
  /\ ~quit /\ pc[r] = "upload"
  /\ Marshal(r, r)
  /\ pc' = [pc EXCEPT ![r] = "calling"]
  /\ UNCHANGED <<app, cancelled, path, screen, apply, quit>>

(* Mutant: a failed upload ends the goroutine without "complete".          *)
UploadedOnly(r) ==
  /\ ~quit /\ pc[r] = "calling" /\ call[r] = "ok"
  /\ lastUpload' = r
  /\ pc' = [pc EXCEPT ![r] = "emit"]
  /\ UNCHANGED <<running, cancel, current, lastLocal, cancelled, path, uploads,
                 screen, apply, quit>>

Uploaded(r) ==
  /\ ~quit /\ pc[r] = "calling" /\ call[r] \in {"ok", "failed"}
  /\ lastUpload' = IF call[r] = "ok" THEN r ELSE lastUpload
  /\ pc' = [pc EXCEPT ![r] = "emit"]
  /\ UNCHANGED <<running, cancel, current, lastLocal, cancelled, path, uploads,
                 screen, apply, quit>>

(* The "complete" event, and main.js's handler of it.                      *)
Complete(r) ==
  /\ ~quit /\ pc[r] = "emit"
  /\ screen' = IF call[r] = "ok"
                 THEN [state |-> "sent", info |-> r, local |-> path[r]]
                 ELSE [state |-> "failed", info |-> None, local |-> path[r]]
  /\ pc' = [pc EXCEPT ![r] = "return"]
  /\ UNCHANGED <<app, cancelled, path, uploads, apply, quit>>

(* Mutant: the running flag is never cleared.                              *)
ReturnRunning(r) ==
  /\ ~quit /\ pc[r] = "return"
  /\ pc' = [pc EXCEPT ![r] = "over"]
  /\ UNCHANGED <<app, cancelled, path, uploads, screen, apply, quit>>

(* The deferred running = false, whoever else is running.                  *)
Return(r) ==
  /\ ~quit /\ pc[r] = "return"
  /\ running' = FALSE
  /\ pc' = [pc EXCEPT ![r] = "over"]
  /\ UNCHANGED <<cancel, current, lastLocal, lastUpload, cancelled, path, uploads,
                 screen, apply, quit>>

Cancel ==
  /\ ~quit /\ cancel # None
  /\ cancelled' = cancelled \union {cancel}
  /\ UNCHANGED <<app, pc, path, uploads, screen, apply, quit>>

-----------------------------------------------------------------------------
(* Upload and the ingest server. *)

(* The head of the loop: a cancelled context ends the call, or one more    *)
(* POST is on its way.                                                     *)
Attempt(c) ==
  /\ ~quit /\ call[c] = "try"
  /\ \/ c \in cancelled /\ call' = [call EXCEPT ![c] = "failed"] /\ UNCHANGED tries
     \/ /\ c \notin cancelled
        /\ call' = [call EXCEPT ![c] = "sent"]
        /\ tries' = [tries EXCEPT ![c] = @ + 1]
  /\ UNCHANGED <<app, pc, cancelled, path, carries, body, ingest, late, screen, apply, quit>>

(* The server answers a run_id it knows with the record it has: what is    *)
(* still on its way under that run_id changes nothing any more.            *)
Store(r, b) ==
  /\ ingest' = [ingest EXCEPT ![r] = IF @ = "none" THEN b ELSE @]
  /\ late' = {m \in late : m.run # r}

(* The POST reaches the server, also when the app is gone by then.         *)
Arrive(c) ==
  /\ call[c] = "sent"
  /\ Store(carries[c], body[c])
  /\ call' = [call EXCEPT ![c] = "stored"]
  /\ UNCHANGED <<app, pc, cancelled, path, carries, body, tries, screen, apply, quit>>

(* So does one that the client has given up on.                            *)
ArriveLate ==
  /\ \E m \in late : Store(m.run, m.body)
  /\ UNCHANGED <<app, pc, cancelled, path, call, carries, body, tries, screen, apply, quit>>

(* What is retried: a 5xx, a timeout, a lost answer, a cancelled context.  *)
(* A POST that did not arrive in that time may still do so; it is only     *)
(* kept in mind while the server has nothing under its run_id.             *)
GiveUp(c, again) ==
  /\ call' = [call EXCEPT ![c] = IF again THEN "backoff" ELSE "failed"]
  /\ late' \in {late} \union
       IF call[c] = "sent" /\ ingest[carries[c]] = "none"
         THEN {late \union {[run |-> carries[c], body |-> body[c]]}} ELSE {}

(* Mutant: one retry too many.                                             *)
AnswerOnceMore(c) ==
  /\ ~quit /\ call[c] \in {"sent", "stored"}
  /\ \/ /\ call[c] = "stored"
        /\ call' = [call EXCEPT ![c] = "ok"] /\ UNCHANGED late
     \/ GiveUp(c, tries[c] <= MaxRetries + 1)
     \/ call' = [call EXCEPT ![c] = "failed"] /\ UNCHANGED late
  /\ UNCHANGED <<app, pc, cancelled, path, carries, body, tries, ingest, screen, apply, quit>>

(* Mutant: a status that is not a success counts as one.                   *)
AnswerAnyStatus(c) ==
  /\ ~quit /\ call[c] \in {"sent", "stored"}
  /\ \/ call' = [call EXCEPT ![c] = "ok"] /\ UNCHANGED late
     \/ GiveUp(c, tries[c] <= MaxRetries)
     \/ call' = [call EXCEPT ![c] = "failed"] /\ UNCHANGED late
  /\ UNCHANGED <<app, pc, cancelled, path, carries, body, tries, ingest, screen, apply, quit>>

(* The client's view of one POST: an answer it accepts, one it retries, or *)
(* one that ends the call (a 4xx, a body it cannot decode).  A report that *)
(* is stored may look failed.                                              *)
Answer(c) ==
  /\ ~quit /\ call[c] \in {"sent", "stored"}
  /\ \/ /\ call[c] = "stored"
        /\ call' = [call EXCEPT ![c] = "ok"] /\ UNCHANGED late
     \/ GiveUp(c, tries[c] <= MaxRetries)
     \/ call' = [call EXCEPT ![c] = "failed"] /\ UNCHANGED late
  /\ UNCHANGED <<app, pc, cancelled, path, carries, body, tries, ingest, screen, apply, quit>>

(* The select between the timer and a cancelled context.                   *)
Backoff(c) ==
  /\ ~quit /\ call[c] = "backoff"
  /\ \/ call' = [call EXCEPT ![c] = "try"]
     \/ c \in cancelled /\ call' = [call EXCEPT ![c] = "failed"]
  /\ UNCHANGED <<app, pc, cancelled, path, carries, body, tries, ingest, late, screen,
                 apply, quit>>

-----------------------------------------------------------------------------
(* The Retry button: SendReport, then LastUploadInfo. *)

SendReport ==
  /\ ~quit /\ screen.state = "failed" /\ call[Sender] = "idle"
  /\ current # None
  /\ Marshal(Sender, current)
  /\ UNCHANGED <<app, pc, cancelled, path, screen, apply, quit>>

Sent ==
  /\ ~quit /\ call[Sender] = "ok"
  /\ lastUpload' = carries[Sender]
  /\ call' = [call EXCEPT ![Sender] = "reported"]
  /\ UNCHANGED <<running, cancel, current, lastLocal, pc, cancelled, path, carries,
                 body, tries, ingest, late, screen, apply, quit>>

LastUploadInfo ==
  /\ ~quit /\ call[Sender] = "reported"
  /\ screen' = [state |-> "sent", info |-> lastUpload, local |-> screen.local]
  /\ call' = [call EXCEPT ![Sender] = "idle"]
  /\ UNCHANGED <<app, pc, cancelled, path, carries, body, tries, ingest, late, apply,
                 quit>>

(* Mutant: the button ignores a rejected SendReport.                       *)
SendFailedUncaught ==
  /\ ~quit /\ call[Sender] = "failed"
  /\ UNCHANGED vars

SendFailed ==
  /\ ~quit /\ call[Sender] = "failed"
  /\ call' = [call EXCEPT ![Sender] = "idle"]
  /\ UNCHANGED <<app, pc, cancelled, path, carries, body, tries, ingest, late, screen,
                 apply, quit>>

-----------------------------------------------------------------------------
(* ApplyUpdate, with an update downloaded (module Updater has the rest). *)

(* Mutant: ApplyUpdate does not look at running.                           *)
ApplyUnchecked ==
  /\ ~quit /\ apply = "idle"
  /\ apply' = "checked"
  /\ UNCHANGED <<app, pc, cancelled, path, uploads, screen, quit>>

ApplyCheck ==
  /\ ~quit /\ apply = "idle" /\ ~running
  /\ apply' = "checked"
  /\ UNCHANGED <<app, pc, cancelled, path, uploads, screen, quit>>

(* SpawnHelper copies the app before it starts the copy; it may fail.      *)
ApplySpawn ==
  /\ ~quit /\ apply = "checked"
  /\ apply' \in {"spawned", "idle"}
  /\ UNCHANGED <<app, pc, cancelled, path, uploads, screen, quit>>

(* Quit: ApplyUpdate's, or the user closes the window.                     *)
Quit ==
  /\ ~quit /\ quit' = TRUE
  /\ UNCHANGED <<app, pc, cancelled, path, uploads, screen, apply>>

-----------------------------------------------------------------------------
Run(r) ==
  \/ Collected(r) \/ Tested(r) \/ WriteLocal(r) \/ ReadPath(r) \/ BeginUpload(r)
  \/ Uploaded(r) \/ Complete(r) \/ Return(r)

Upload(c) == Attempt(c) \/ Answer(c) \/ Backoff(c)

Answered == Sent \/ LastUploadInfo \/ SendFailed

Next ==
  \/ \E r \in Runs : StartRun(r) \/ Run(r)
  \/ \E c \in Callers : Upload(c) \/ Arrive(c)
  \/ ArriveLate
  \/ Cancel \/ SendReport \/ Answered
  \/ ApplyCheck \/ ApplySpawn \/ Quit

Spec == Init /\ [][Next]_vars

(* The goroutines run, every POST has a timeout, and the result screen     *)
(* awaits its calls.  RunAll returns when it is cancelled, but may hang in *)
(* Whoami, which has no timeout.  Nothing the user does is promised.       *)
Fairness ==
  /\ \A r \in Runs : WF_vars(Run(r) /\ (pc[r] = "tests" => r \in cancelled))
  /\ \A c \in Callers : WF_vars(Upload(c))
  /\ WF_vars(Answered)

FairSpec == Spec /\ Fairness

-----------------------------------------------------------------------------
(* Properties. *)

(* The running flag says exactly whether a goroutine of a run is alive:    *)
(* ApplyUpdate relies on it.                                               *)
RunningIsTrue == running <=> \E r \in Runs : Active(r)

(* No helper is started, and so no restart happens, while a run is in      *)
(* progress: ApplyUpdate is "refused while a tech check is running".       *)
NoSwapDuringRun == apply = "spawned" => \A r \in Runs : ~Active(r)

(* The server never keeps a report without its results under a run_id: it  *)
(* would answer 200 to the complete one and drop it.                       *)
StoredComplete == \A r \in Runs : ingest[r] # "partial"

(* "Sent - thanks" is shown with a report_id only of a complete report the *)
(* server stored, whichever of the upload and the Retry button sent it.    *)
SentIsStored ==
  screen.state = "sent" => screen.info # None /\ ingest[screen.info] = "complete"

(* Between runs LocalReportPath is the file of the most recent run.        *)
LocalPathIsLatest == ~running => lastLocal \in {None, current}

(* Cancel cancels every run in progress.                                   *)
CancelReachesRun ==
  [][ Cancel => \A r \in Runs : Active(r) => r \in cancelled' ]_vars

(* What the server stored under a run_id is never replaced: a retry whose  *)
(* first answer was lost is answered with the existing record.             *)
RecordIsFinal ==
  [][ \A r \in Runs : ingest[r] # "none" => ingest'[r] = ingest[r] ]_vars

(* A run whose tests are over, or that is cancelled before, reaches its    *)
(* end and frees the running flag, however the tests, the local write and  *)
(* the upload go.                                                          *)
RunCompletes ==
  \A r \in Runs :
    pc[r] = "write" \/ (pc[r] \in {"sysinfo", "tests"} /\ r \in cancelled)
    ~> pc[r] = "over" \/ quit

(* A click on Retry is answered: its button never stays on "Sending".      *)
RetryAnswered == (call[Sender] = "try") ~> (call[Sender] = "idle" \/ quit)

-----------------------------------------------------------------------------
(* The inductive invariant for a user who starts one run at a time. *)

OneRun ==
  /\ \A r, s \in Runs : Active(r) /\ Active(s) => r = s
  /\ \A r \in Runs : Active(r) => running /\ current = r /\ cancel = r
  /\ running => \E r \in Runs : Active(r)
  /\ apply # "idle" => \A r \in Runs : ~Active(r)

Reports ==
  /\ \A r \in Runs : call[r] # "idle" => carries[r] = r
  /\ \A c \in Callers : call[c] # "idle" => carries[c] \in Runs /\ body[c] = "complete"
  /\ \A m \in late : m.body = "complete"
  /\ \A c \in Callers :
       call[c] \in {"stored", "ok", "reported"} => ingest[carries[c]] = "complete"
  /\ lastUpload # None => ingest[lastUpload] = "complete"
  /\ call[Sender] = "reported" => lastUpload # None
  /\ screen.state = "failed" => current # None /\ Filled(current)

WizardInv == TypeOK /\ OneRun /\ Reports /\ StoredComplete /\ SentIsStored
=============================================================================
