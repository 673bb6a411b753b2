---------------------------- MODULE WizardProofs -----------------------------
(***************************************************************************)
(* Theorems about Wizard, for every set of runs and every retry count:     *)
(* type correctness and the finality of a stored record for any user, the  *)
(* rest for a user who starts one run at a time (Habits = {}).             *)
(***************************************************************************)
EXTENDS MCWizard, FiniteSetTheorems, WellFoundedInduction, TLAPS

USE DEF Callers, MaybeRun, RunState, CallState, BodyState, ScreenState, Blank, Active, Filled

-----------------------------------------------------------------------------
(* Type correctness, with the bound on the attempts. *)

CallsOK ==
  \A c \in Callers :
    /\ call[c] # "idle" => carries[c] \in Runs
    /\ call[c] \in {"try", "backoff"} => tries[c] <= MaxRetries

TypeInv == TypeOK /\ CallsOK

LEMMA InitTypeInv == Init => TypeInv
<1> SUFFICES ASSUME Init PROVE TypeInv
  OBVIOUS
<1>1. 0 \in 0..MaxRetries + 1 /\ 0 <= MaxRetries
  BY RetriesAssumption
<1>2. TypeOK
  BY <1>1 DEF Init, TypeOK
<1>3. CallsOK
  BY <1>1 DEF Init, CallsOK
<1> QED
  BY <1>2, <1>3 DEF TypeInv

(* The steps that leave the Upload calls alone.                            *)
LEMMA QuietType ==
  ASSUME TypeInv, UNCHANGED uploads,
         \/ \E r \in Runs : \/ StartRun(r) \/ Collected(r) \/ Tested(r) \/ WriteLocal(r)
                            \/ ReadPath(r) \/ Uploaded(r) \/ Complete(r) \/ Return(r)
         \/ Cancel \/ ApplyCheck \/ ApplySpawn \/ Quit
  PROVE  TypeInv'
<1>1. CallsOK'
  BY DEF TypeInv, CallsOK, uploads
<1>2. TypeOK'
  <2>1. CASE \E r \in Runs : StartRun(r) \/ Collected(r) \/ Tested(r)
    <3>1. CASE \E r \in Runs : StartRun(r)
      <4>1. PICK r \in Runs : StartRun(r)
        BY <3>1
      <4>2. screen' \in [state : ScreenState, info : MaybeRun, local : MaybeRun]
        BY <4>1 DEF StartRun
      <4> QED
        BY <4>1, <4>2 DEF TypeInv, TypeOK, uploads, StartRun
    <3>2. CASE \E r \in Runs : Collected(r) \/ Tested(r)
      BY <3>2 DEF TypeInv, TypeOK, uploads, app, Collected, Tested
    <3> QED
      BY <2>1, <3>1, <3>2
  <2>2. CASE \E r \in Runs : WriteLocal(r) \/ ReadPath(r) \/ Uploaded(r) \/ Return(r)
    <3>1. CASE \E r \in Runs : WriteLocal(r)
      <4>1. PICK r \in Runs : WriteLocal(r)
        BY <3>1
      <4>2. lastLocal' \in MaybeRun /\ pc' \in [Runs -> RunState]
        BY <4>1 DEF TypeInv, TypeOK, WriteLocal
      <4>3. UNCHANGED <<running, cancel, current, lastUpload, cancelled, path, uploads,
                        screen, apply, quit>>
        BY <4>1 DEF WriteLocal
      <4> QED
        BY <4>2, <4>3 DEF TypeInv, TypeOK, uploads
    <3>2. CASE \E r \in Runs : ReadPath(r)
      BY <3>2 DEF TypeInv, TypeOK, uploads, app, ReadPath
    <3>3. CASE \E r \in Runs : Uploaded(r)
      <4>1. PICK r \in Runs : Uploaded(r)
        BY <3>3
      <4>2. lastUpload' \in MaybeRun /\ pc' \in [Runs -> RunState]
        BY <4>1 DEF TypeInv, TypeOK, Uploaded
      <4>3. UNCHANGED <<running, cancel, current, lastLocal, cancelled, path, uploads,
                        screen, apply, quit>>
        BY <4>1 DEF Uploaded
      <4> QED
        BY <4>2, <4>3 DEF TypeInv, TypeOK, uploads
    <3>4. CASE \E r \in Runs : Return(r)
      <4>1. PICK r \in Runs : Return(r)
        BY <3>4
      <4>2. running' \in BOOLEAN /\ pc' \in [Runs -> RunState]
        BY <4>1 DEF TypeInv, TypeOK, Return
      <4>3. UNCHANGED <<cancel, current, lastLocal, lastUpload, cancelled, path, uploads,
                        screen, apply, quit>>
        BY <4>1 DEF Return
      <4> QED
        BY <4>2, <4>3 DEF TypeInv, TypeOK, uploads
    <3> QED
      BY <2>2, <3>1, <3>2, <3>3, <3>4
  <2>3. CASE \E r \in Runs : Complete(r)
    <3>1. PICK r \in Runs : Complete(r)
      BY <2>3
    <3>2. screen' \in [state : ScreenState, info : MaybeRun, local : MaybeRun]
      BY <3>1 DEF TypeInv, TypeOK, Complete
    <3> QED
      BY <3>1, <3>2 DEF TypeInv, TypeOK, uploads, app, Complete
  <2>4. CASE Cancel
    <3>1. cancel \in Runs
      BY <2>4 DEF TypeInv, TypeOK, Cancel
    <3> QED
      BY <2>4, <3>1 DEF TypeInv, TypeOK, uploads, app, Cancel
  <2>5. CASE ApplyCheck \/ ApplySpawn \/ Quit
    BY <2>5 DEF TypeInv, TypeOK, uploads, app, ApplyCheck, ApplySpawn, Quit
  <2> QED
    BY <2>1, <2>2, <2>3, <2>4, <2>5
<1> QED
  BY <1>1, <1>2 DEF TypeInv

LEMMA MarshalType ==
  ASSUME TypeInv, NEW c \in Callers, NEW r \in Runs, Marshal(c, r)
  PROVE  /\ call' \in [Callers -> CallState]
         /\ carries' \in [Callers -> MaybeRun]
         /\ body' \in [Callers -> BodyState]
         /\ tries' \in [Callers -> 0..MaxRetries + 1]
         /\ CallsOK'
BY RetriesAssumption DEF TypeInv, TypeOK, Marshal, CallsOK

LEMMA StoreType ==
  ASSUME TypeInv, NEW r \in Runs, NEW b \in BodyState, Store(r, b)
  PROVE  /\ ingest' \in [Runs -> {"none"} \union BodyState]
         /\ late' \subseteq [run : Runs, body : BodyState]
BY DEF TypeInv, TypeOK, Store

LEMMA UploadType ==
  ASSUME TypeInv, NEW c \in Callers, Upload(c) \/ Arrive(c)
  PROVE  TypeInv'
<1>1. CASE Attempt(c)
  <2>1. carries[c] \in Runs /\ tries[c] \in 0..MaxRetries
    BY <1>1, RetriesAssumption DEF TypeInv, TypeOK, CallsOK, Attempt
  <2>2. call' \in [Callers -> CallState] /\ tries' \in [Callers -> 0..MaxRetries + 1]
    BY <1>1, <2>1, RetriesAssumption DEF TypeInv, TypeOK, Attempt
  <2>3. CallsOK'
    BY <1>1, <2>1, RetriesAssumption DEF TypeInv, TypeOK, CallsOK, Attempt
  <2> QED
    BY <1>1, <2>2, <2>3 DEF TypeInv, TypeOK, Attempt, app
<1>2. CASE Arrive(c)
  <2>1. carries[c] \in Runs /\ body[c] \in BodyState
    BY <1>2 DEF TypeInv, TypeOK, CallsOK, Arrive
  <2>2. /\ ingest' \in [Runs -> {"none"} \union BodyState]
        /\ late' \subseteq [run : Runs, body : BodyState]
    BY <1>2, <2>1, StoreType DEF Arrive
  <2>3. CallsOK'
    BY <1>2 DEF TypeInv, TypeOK, CallsOK, Arrive
  <2> QED
    BY <1>2, <2>2, <2>3 DEF TypeInv, TypeOK, Arrive, app
<1>3. CASE Answer(c)
  <2>1. [run |-> carries[c], body |-> body[c]] \in [run : Runs, body : BodyState]
    BY <1>3 DEF TypeInv, TypeOK, CallsOK, Answer
  <2>2. late' \subseteq [run : Runs, body : BodyState]
    BY <1>3, <2>1 DEF TypeInv, TypeOK, Answer, GiveUp
  <2>3. call' \in [Callers -> CallState]
    BY <1>3 DEF TypeInv, TypeOK, Answer, GiveUp
  <2>4. CallsOK'
    BY <1>3 DEF TypeInv, TypeOK, CallsOK, Answer, GiveUp
  <2> QED
    BY <1>3, <2>2, <2>3, <2>4 DEF TypeInv, TypeOK, Answer, app
<1>4. CASE Backoff(c)
  BY <1>4 DEF TypeInv, TypeOK, CallsOK, Backoff, app
<1> QED
  BY <1>1, <1>2, <1>3, <1>4 DEF Upload

LEMMA ArriveLateType == ASSUME TypeInv, ArriveLate PROVE TypeInv'
<1>1. PICK m \in late : Store(m.run, m.body)
  BY DEF ArriveLate
<1>2. m.run \in Runs /\ m.body \in BodyState
  BY DEF TypeInv, TypeOK
<1>3. /\ ingest' \in [Runs -> {"none"} \union BodyState]
      /\ late' \subseteq [run : Runs, body : BodyState]
  BY <1>1, <1>2, StoreType
<1>4. UNCHANGED <<app, pc, cancelled, path, call, carries, body, tries, screen, apply, quit>>
  BY DEF ArriveLate
<1>5. CallsOK'
  BY <1>4 DEF TypeInv, CallsOK
<1> QED
  BY <1>1, <1>3, <1>4, <1>5 DEF TypeInv, TypeOK, app

LEMMA NextTypeInv == TypeInv /\ [Next]_vars => TypeInv'
<1> SUFFICES ASSUME TypeInv, [Next]_vars PROVE TypeInv'
  OBVIOUS
<1>1. CASE UNCHANGED vars
  BY <1>1 DEF TypeInv, TypeOK, CallsOK, vars
<1>2. ASSUME NEW r \in Runs, StartRun(r) \/ (Run(r) /\ ~BeginUpload(r)) PROVE TypeInv'
  <2>1. UNCHANGED uploads
    BY <1>2 DEF StartRun, Run, Collected, Tested, WriteLocal, ReadPath, Uploaded,
       Complete, Return, uploads
  <2> QED
    BY <1>2, <2>1, QuietType DEF Run
<1>3. ASSUME NEW r \in Runs, BeginUpload(r) PROVE TypeInv'
  <2>1. r \in Callers /\ Marshal(r, r)
    BY <1>3 DEF BeginUpload
  <2>2. /\ call' \in [Callers -> CallState] /\ carries' \in [Callers -> MaybeRun]
        /\ body' \in [Callers -> BodyState]
        /\ tries' \in [Callers -> 0..MaxRetries + 1]
        /\ CallsOK'
    BY <2>1, MarshalType
  <2>3. ingest' = ingest /\ late' = late
    BY <2>1 DEF Marshal
  <2>4. pc' \in [Runs -> RunState] /\ UNCHANGED <<app, cancelled, path, screen, apply, quit>>
    BY <1>3 DEF TypeInv, TypeOK, BeginUpload
  <2>5. TypeOK'
    BY <2>2, <2>3, <2>4 DEF TypeInv, TypeOK, app
  <2> QED
    BY <2>2, <2>5 DEF TypeInv
<1>4. ASSUME NEW c \in Callers, Upload(c) \/ Arrive(c) PROVE TypeInv'
  BY <1>4, UploadType
<1>5. CASE SendReport
  <2>1. current \in Runs
    BY <1>5 DEF SendReport, TypeInv, TypeOK
  <2> QED
    BY <1>5, <2>1, MarshalType DEF TypeInv, TypeOK, SendReport, Marshal, app
<1>6. CASE Answered
  <2>1. CASE Sent
    BY <2>1 DEF TypeInv, TypeOK, CallsOK, Sent
  <2>2. CASE LastUploadInfo
    BY <2>2 DEF TypeInv, TypeOK, CallsOK, LastUploadInfo, app
  <2>3. CASE SendFailed
    BY <2>3 DEF TypeInv, TypeOK, CallsOK, SendFailed, app
  <2> QED
    BY <1>6, <2>1, <2>2, <2>3 DEF Answered
<1>7. CASE Cancel \/ ApplyCheck \/ ApplySpawn \/ Quit
  <2>1. UNCHANGED uploads
    BY <1>7 DEF Cancel, ApplyCheck, ApplySpawn, Quit, uploads
  <2> QED
    BY <1>7, <2>1, QuietType
<1> QED
  BY <1>1, <1>2, <1>3, <1>4, <1>5, <1>6, <1>7, ArriveLateType DEF Next

(* Every field keeps its type, and no Upload call makes more than          *)
(* MaxRetries + 1 attempts, whatever the user does.                        *)
THEOREM TypeCorrect == Spec => []TypeOK
<1>1. Init => TypeInv
  BY InitTypeInv
<1>2. TypeInv /\ [Next]_vars => TypeInv'
  BY NextTypeInv
<1>3. TypeInv => TypeOK
  BY DEF TypeInv
<1> QED
  BY <1>1, <1>2, <1>3, PTL DEF Spec

(* Only the arrival of a report touches what the server stored, and it     *)
(* keeps a record.                                                         *)
LEMMA StoreKeepsRecords ==
  ASSUME TypeInv, NEW s, NEW b, Store(s, b), NEW r \in Runs, ingest[r] # "none"
  PROVE  ingest'[r] = ingest[r]
BY DEF TypeInv, TypeOK, Store

LEMMA OtherStepsKeepRecords ==
  ASSUME Next, \A c \in Callers : ~Arrive(c), ~ArriveLate
  PROVE  ingest' = ingest
BY DEF Next, StartRun, Run, Collected, Tested, WriteLocal, ReadPath, BeginUpload, Marshal,
   Uploaded, Complete, Return, Upload, Attempt, Answer, Backoff, Cancel, SendReport,
   Answered, Sent, LastUploadInfo, SendFailed, ApplyCheck, ApplySpawn, Quit, uploads

LEMMA NextKeepsRecords ==
  ASSUME TypeInv, Next, NEW r \in Runs, ingest[r] # "none"
  PROVE  ingest'[r] = ingest[r]
<1>1. CASE \E c \in Callers : Arrive(c)
  BY <1>1, StoreKeepsRecords DEF Arrive
<1>2. CASE ArriveLate
  BY <1>2, StoreKeepsRecords DEF ArriveLate
<1> QED
  BY <1>1, <1>2, OtherStepsKeepRecords

(* Whatever the user does, and whichever of a run and the Retry button     *)
(* sends it, the record under a run_id is never replaced.                  *)
THEOREM RecordsAreFinal == Spec => RecordIsFinal
<1>1. TypeInv /\ [Next]_vars
        => [\A r \in Runs : ingest[r] # "none" => ingest'[r] = ingest[r]]_vars
  BY NextKeepsRecords
<1>2. Init => TypeInv
  BY InitTypeInv
<1>3. TypeInv /\ [Next]_vars => TypeInv'
  BY NextTypeInv
<1> QED
  BY <1>1, <1>2, <1>3, PTL DEF Spec, RecordIsFinal

-----------------------------------------------------------------------------
(* One run at a time. *)

LEMMA InitWizardInv == Init => WizardInv
<1> SUFFICES ASSUME Init PROVE WizardInv
  OBVIOUS
<1>1. TypeOK
  BY InitTypeInv DEF TypeInv
<1>2. OneRun /\ Reports /\ StoredComplete /\ SentIsStored
  BY DEF Init, OneRun, Reports, StoredComplete, SentIsStored
<1> QED
  BY <1>1, <1>2 DEF WizardInv

LEMMA StartRunKeeps ==
  ASSUME WizardInv, TypeOK', Habits = {}, NEW r \in Runs, StartRun(r)
  PROVE  WizardInv'
<1>1. OneRun'
  BY DEF WizardInv, TypeOK, OneRun, StartRun
<1>2. Reports'
  BY DEF WizardInv, TypeOK, Reports, StartRun, uploads
<1>3. StoredComplete' /\ SentIsStored'
  BY DEF WizardInv, StoredComplete, SentIsStored, StartRun, uploads
<1> QED
  BY <1>1, <1>2, <1>3 DEF WizardInv

LEMMA WorkKeeps ==
  ASSUME WizardInv, TypeOK', NEW r \in Runs,
         Collected(r) \/ Tested(r) \/ WriteLocal(r) \/ ReadPath(r)
  PROVE  WizardInv'
<1>1. OneRun'
  BY DEF WizardInv, TypeOK, OneRun, Collected, Tested, WriteLocal, ReadPath, app
<1>2. Reports'
  BY DEF WizardInv, TypeOK, Reports, Collected, Tested, WriteLocal, ReadPath, app, uploads
<1>3. StoredComplete' /\ SentIsStored'
  BY DEF WizardInv, StoredComplete, SentIsStored, Collected, Tested, WriteLocal, ReadPath,
     app, uploads
<1> QED
  BY <1>1, <1>2, <1>3 DEF WizardInv

LEMMA BeginUploadKeeps ==
  ASSUME WizardInv, TypeOK', NEW r \in Runs, BeginUpload(r)
  PROVE  WizardInv'
<1>1. OneRun'
  BY DEF WizardInv, TypeOK, OneRun, BeginUpload, app
<1>2. Reports'
  BY RunsAssumption DEF WizardInv, TypeOK, Reports, BeginUpload, Marshal, app
<1>3. StoredComplete' /\ SentIsStored'
  BY DEF WizardInv, StoredComplete, SentIsStored, BeginUpload, Marshal
<1> QED
  BY <1>1, <1>2, <1>3 DEF WizardInv

LEMMA UploadedKeeps ==
  ASSUME WizardInv, TypeOK', NEW r \in Runs, Uploaded(r)
  PROVE  WizardInv'
<1>1. OneRun'
  BY DEF WizardInv, TypeOK, OneRun, Uploaded
<1>2. Reports'
  BY RunsAssumption DEF WizardInv, TypeOK, Reports, Uploaded, uploads
<1>3. StoredComplete' /\ SentIsStored'
  BY DEF WizardInv, StoredComplete, SentIsStored, Uploaded, uploads
<1> QED
  BY <1>1, <1>2, <1>3 DEF WizardInv

LEMMA CompleteKeeps ==
  ASSUME WizardInv, TypeOK', NEW r \in Runs, Complete(r)
  PROVE  WizardInv'
<1>1. OneRun'
  BY DEF WizardInv, TypeOK, OneRun, Complete, app
<1>2. Reports'
  BY RunsAssumption DEF WizardInv, TypeOK, OneRun, Reports, Complete, app, uploads
<1>3. StoredComplete' /\ SentIsStored'
  BY RunsAssumption DEF WizardInv, Reports, StoredComplete, SentIsStored, Complete, uploads
<1> QED
  BY <1>1, <1>2, <1>3 DEF WizardInv

LEMMA ReturnKeeps ==
  ASSUME WizardInv, TypeOK', NEW r \in Runs, Return(r)
  PROVE  WizardInv'
<1>1. OneRun'
  BY DEF WizardInv, TypeOK, OneRun, Return
<1>2. Reports'
  BY DEF WizardInv, TypeOK, Reports, Return, uploads
<1>3. StoredComplete' /\ SentIsStored'
  BY DEF WizardInv, StoredComplete, SentIsStored, Return, uploads
<1> QED
  BY <1>1, <1>2, <1>3 DEF WizardInv

LEMMA AttemptKeeps ==
  ASSUME WizardInv, TypeOK', NEW c \in Callers, Attempt(c)
  PROVE  WizardInv'
<1>1. OneRun'
  BY DEF WizardInv, OneRun, Attempt, app
<1>2. Reports'
  BY DEF WizardInv, TypeOK, Reports, Attempt, app
<1>3. StoredComplete' /\ SentIsStored'
  BY DEF WizardInv, StoredComplete, SentIsStored, Attempt
<1> QED
  BY <1>1, <1>2, <1>3 DEF WizardInv

(* A complete report that is stored disturbs no record.                    *)
LEMMA StoreKeeps ==
  ASSUME WizardInv, NEW r \in Runs, Store(r, "complete")
  PROVE  /\ StoredComplete'
         /\ ingest'[r] = "complete"
         /\ \A s \in Runs : ingest[s] = "complete" => ingest'[s] = "complete"
         /\ late' \subseteq late
BY DEF WizardInv, TypeOK, StoredComplete, Store

LEMMA ArriveKeeps ==
  ASSUME WizardInv, TypeOK', NEW c \in Callers, Arrive(c)
  PROVE  WizardInv'
<1>1. OneRun'
  BY DEF WizardInv, OneRun, Arrive, app
<1>2. carries[c] \in Runs /\ body[c] = "complete" /\ call[c] = "sent"
  BY DEF WizardInv, Reports, Arrive
<1>3. /\ StoredComplete' /\ ingest'[carries[c]] = "complete"
      /\ \A r \in Runs : ingest[r] = "complete" => ingest'[r] = "complete"
      /\ late' \subseteq late
  BY <1>2, StoreKeeps DEF Arrive
<1>4. SentIsStored'
  BY <1>3 DEF WizardInv, TypeOK, SentIsStored, Arrive
<1>5. call'[c] = "stored" /\ \A d \in Callers \ {c} : call'[d] = call[d]
  BY DEF WizardInv, TypeOK, Arrive
<1>6. UNCHANGED <<carries, body, current, lastUpload, screen, pc>>
  BY DEF Arrive, app
<1>7. \A d \in Callers : call'[d] \in {"stored", "ok", "reported"}
        => ingest'[carries[d]] = "complete"
  BY <1>2, <1>3, <1>5 DEF WizardInv, Reports
<1>8. lastUpload # None => ingest'[lastUpload] = "complete"
  BY <1>3 DEF WizardInv, TypeOK, Reports
<1>9. Reports'
  BY <1>2, <1>3, <1>5, <1>6, <1>7, <1>8 DEF WizardInv, Reports
<1> QED
  BY <1>1, <1>3, <1>4, <1>9 DEF WizardInv

LEMMA ArriveLateKeeps ==
  ASSUME TypeInv, WizardInv, TypeOK', ArriveLate
  PROVE  WizardInv'
<1>1. OneRun'
  BY DEF WizardInv, OneRun, ArriveLate, app
<1>2. PICK m \in late : Store(m.run, m.body)
  BY DEF ArriveLate
<1>3. m.run \in Runs /\ m.body = "complete"
  BY DEF WizardInv, TypeOK, Reports
<1>4. /\ StoredComplete'
      /\ \A r \in Runs : ingest[r] = "complete" => ingest'[r] = "complete"
      /\ late' \subseteq late
  BY <1>2, <1>3, StoreKeeps
<1>5. UNCHANGED <<call, carries, body, current, lastUpload, screen, pc>>
  BY DEF ArriveLate, app
<1>6. SentIsStored'
  BY <1>4, <1>5 DEF WizardInv, TypeOK, SentIsStored
<1>7. \A d \in Callers : call[d] \in {"stored", "ok", "reported"}
        => ingest'[carries[d]] = "complete"
  BY <1>4 DEF WizardInv, Reports
<1>8. lastUpload # None => ingest'[lastUpload] = "complete"
  BY <1>4 DEF WizardInv, TypeOK, Reports
<1>9. Reports'
  BY <1>4, <1>5, <1>7, <1>8 DEF WizardInv, Reports
<1> QED
  BY <1>1, <1>4, <1>6, <1>9 DEF WizardInv

LEMMA AnswerKeeps ==
  ASSUME WizardInv, TypeOK', NEW c \in Callers, Answer(c)
  PROVE  WizardInv'
<1>1. OneRun'
  BY DEF WizardInv, OneRun, Answer, app
<1>2. StoredComplete' /\ SentIsStored'
  BY DEF WizardInv, StoredComplete, SentIsStored, Answer
<1>3. UNCHANGED <<carries, body, ingest, current, lastUpload, screen, pc>>
  BY DEF Answer, app
<1>4. /\ call'[c] \in {"ok", "backoff", "failed"} /\ (call'[c] = "ok" => call[c] = "stored")
      /\ \A d \in Callers \ {c} : call'[d] = call[d]
  BY DEF WizardInv, TypeOK, Answer, GiveUp
<1>5. call[c] # "idle" /\ body[c] = "complete"
  BY DEF WizardInv, Reports, Answer
<1>6. \A m \in late' : m.body = "complete"
  BY <1>5 DEF WizardInv, Reports, Answer, GiveUp
<1>7. Reports'
  BY <1>3, <1>4, <1>5, <1>6 DEF WizardInv, Reports
<1> QED
  BY <1>1, <1>2, <1>7 DEF WizardInv

LEMMA BackoffKeeps ==
  ASSUME WizardInv, TypeOK', NEW c \in Callers, Backoff(c)
  PROVE  WizardInv'
<1>1. OneRun'
  BY DEF WizardInv, OneRun, Backoff, app
<1>2. Reports'
  BY DEF WizardInv, TypeOK, Reports, Backoff, app
<1>3. StoredComplete' /\ SentIsStored'
  BY DEF WizardInv, StoredComplete, SentIsStored, Backoff
<1> QED
  BY <1>1, <1>2, <1>3 DEF WizardInv

LEMMA SendReportKeeps ==
  ASSUME WizardInv, TypeOK', SendReport
  PROVE  WizardInv'
<1>1. OneRun'
  BY DEF WizardInv, OneRun, SendReport, app
<1>2. Reports'
  <2>1. current \in Runs /\ Filled(current)
    BY DEF WizardInv, TypeOK, Reports, SendReport
  <2> QED
    BY <2>1, RunsAssumption DEF WizardInv, TypeOK, Reports, SendReport, Marshal, app
<1>3. StoredComplete' /\ SentIsStored'
  BY DEF WizardInv, StoredComplete, SentIsStored, SendReport, Marshal
<1> QED
  BY <1>1, <1>2, <1>3 DEF WizardInv

LEMMA AnsweredKeeps ==
  ASSUME WizardInv, TypeOK', Answered
  PROVE  WizardInv'
<1>1. OneRun'
  BY DEF WizardInv, OneRun, Answered, Sent, LastUploadInfo, SendFailed, app
<1>2. StoredComplete'
  BY DEF WizardInv, StoredComplete, Answered, Sent, LastUploadInfo, SendFailed, uploads
<1>3. SentIsStored'
  BY DEF WizardInv, TypeOK, Reports, SentIsStored, Answered, Sent, LastUploadInfo,
     SendFailed
<1>4. Reports'
  <2>1. CASE Sent
    BY <2>1, RunsAssumption DEF WizardInv, TypeOK, Reports, Sent
  <2>2. CASE LastUploadInfo
    BY <2>2, RunsAssumption DEF WizardInv, TypeOK, Reports, LastUploadInfo, app
  <2>3. CASE SendFailed
    BY <2>3, RunsAssumption DEF WizardInv, TypeOK, Reports, SendFailed, app
  <2> QED
    BY <2>1, <2>2, <2>3 DEF Answered
<1> QED
  BY <1>1, <1>2, <1>3, <1>4 DEF WizardInv

LEMMA UserKeeps ==
  ASSUME WizardInv, TypeOK', Cancel \/ ApplyCheck \/ ApplySpawn \/ Quit
  PROVE  WizardInv'
<1>1. OneRun'
  BY DEF WizardInv, OneRun, Cancel, ApplyCheck, ApplySpawn, Quit, app
<1>2. Reports'
  BY DEF WizardInv, Reports, Cancel, ApplyCheck, ApplySpawn, Quit, app, uploads
<1>3. StoredComplete' /\ SentIsStored'
  BY DEF WizardInv, StoredComplete, SentIsStored, Cancel, ApplyCheck, ApplySpawn, Quit,
     uploads
<1> QED
  BY <1>1, <1>2, <1>3 DEF WizardInv

LEMMA NextWizardInv ==
  ASSUME Habits = {}
  PROVE  TypeInv /\ WizardInv /\ [Next]_vars => WizardInv'
<1> SUFFICES ASSUME TypeInv, WizardInv, [Next]_vars PROVE WizardInv'
  OBVIOUS
<1>0. TypeOK'
  BY NextTypeInv DEF TypeInv
<1>1. CASE UNCHANGED vars
  BY <1>1 DEF vars, WizardInv, TypeOK, OneRun, Reports, StoredComplete, SentIsStored
<1>2. ASSUME NEW r \in Runs, StartRun(r) \/ Run(r) PROVE WizardInv'
  BY <1>0, <1>2, StartRunKeeps, WorkKeeps, BeginUploadKeeps, UploadedKeeps, CompleteKeeps,
     ReturnKeeps DEF Run
<1>3. ASSUME NEW c \in Callers, Upload(c) \/ Arrive(c) PROVE WizardInv'
  BY <1>0, <1>3, AttemptKeeps, AnswerKeeps, ArriveKeeps, BackoffKeeps DEF Upload
<1>4. CASE SendReport \/ Answered
  BY <1>0, <1>4, SendReportKeeps, AnsweredKeeps
<1>5. CASE Cancel \/ ApplyCheck \/ ApplySpawn \/ Quit
  BY <1>0, <1>5, UserKeeps
<1> QED
  BY <1>0, <1>1, <1>2, <1>3, <1>4, <1>5, ArriveLateKeeps DEF Next

(* For a user who starts one run at a time: the running flag, current and  *)
(* cancel belong to the one run in progress, every report that is sent is  *)
(* filled, and a call that succeeded has a stored record.                  *)
THEOREM WizardInvariant == ASSUME Habits = {} PROVE Spec => []WizardInv
<1>1. Init => TypeInv /\ WizardInv
  BY InitTypeInv, InitWizardInv
<1>2. TypeInv /\ WizardInv /\ [Next]_vars => (TypeInv /\ WizardInv)'
  BY NextTypeInv, NextWizardInv
<1> QED
  BY <1>1, <1>2, PTL DEF Spec

(* For that user the running flag is exact: it is set if and only if a     *)
(* run is in progress.                                                     *)
THEOREM RunningFlagExact == ASSUME Habits = {} PROVE Spec => []RunningIsTrue
<1>1. WizardInv => RunningIsTrue
  BY DEF WizardInv, OneRun, RunningIsTrue, TypeOK
<1> QED
  BY <1>1, WizardInvariant, PTL

(* For that user no update helper is started while a run is in progress.   *)
THEOREM SwapWaitsForRun == ASSUME Habits = {} PROVE Spec => []NoSwapDuringRun
<1>1. WizardInv => NoSwapDuringRun
  BY DEF WizardInv, OneRun, NoSwapDuringRun
<1> QED
  BY <1>1, WizardInvariant, PTL

(* For that user Cancel reaches every run in progress.                     *)
THEOREM CancelReaches == ASSUME Habits = {} PROVE Spec => CancelReachesRun
<1>1. WizardInv => [Cancel => \A r \in Runs : Active(r) => r \in cancelled']_vars
  BY DEF WizardInv, OneRun, Cancel
<1> QED
  BY <1>1, WizardInvariant, PTL DEF CancelReachesRun

-----------------------------------------------------------------------------
(* What a run collects: the adapters and the displays. *)

LEMMA FirstIsLeast ==
  ASSUME NEW S, S \subseteq Nat, S # {}
  PROVE  First(S) \in S /\ \A l \in S : First(S) <= l
<1>1. PICK k \in S : \A l \in S : ~ (<<l, k>> \in OpToRel(<, Nat))
  BY NatLessThanWellFounded, WFMin
<1>2. \A l \in S : ~ (l < k)
  BY <1>1 DEF OpToRel
<1>3. \A l \in S : k <= l
  BY <1>2
<1> QED
  BY <1>3 DEF First

LEMMA OneAdapterIsDefault ==
  ASSUME NEW ifs \in Interfaces, NEW wifi
  PROVE  OneDefault(CollectAdapters(ifs, wifi))
<1> DEFINE r == CollectAdapters(ifs, wifi)
           kept == {k \in DOMAIN ifs : ~ifs[k].loopback /\ ifs[k].up /\ "global" \in ifs[k].addrs}
           Type(k) == IF ifs[k].wl \/ ifs[k].name \in wifi THEN "wireless" ELSE "wired"
           wired == {k \in kept : Type(k) = "wired"}
           some == IF wired # {} THEN wired ELSE kept
<1>1. kept \subseteq Nat
  <2>1. DOMAIN ifs = 1..Len(ifs) /\ Len(ifs) \in Nat
    BY InterfacesAssumption
  <2> QED
    BY <2>1
<1>2. r = [k \in kept |-> [name |-> ifs[k].name, type |-> Type(k), default |-> k = First(some)]]
  BY DEF CollectAdapters
<1> HIDE DEF r, kept
<1>3. DOMAIN r = kept /\ \A k \in kept : r[k].type = Type(k) /\ r[k].default = (k = First(some))
  BY <1>2
<1>4. CASE kept = {}
  <2>1. {k \in DOMAIN r : r[k].default} = {}
    BY <1>3, <1>4
  <2> QED
    BY <1>3, <1>4, <2>1, FS_EmptySet DEF OneDefault, r
<1>5. CASE kept # {}
  <2>1. some \subseteq kept /\ some # {}
    BY <1>5
  <2>2. First(some) \in some
    BY <1>1, <2>1, FirstIsLeast
  <2>3. {k \in DOMAIN r : r[k].default} = {First(some)}
    <3>1. First(some) \in DOMAIN r
      BY <1>3, <2>1, <2>2
    <3>2. \A k \in DOMAIN r : r[k].default <=> k = First(some)
      BY <1>3
    <3> QED
      BY <3>1, <3>2
  <2>4. ASSUME r[First(some)].type = "wireless" PROVE \A l \in kept : r[l].type = "wireless"
    <3>1. Type(First(some)) = "wireless"
      BY <1>3, <2>1, <2>2, <2>4
    <3>2. wired = {}
      BY <2>2, <3>1
    <3> QED
      BY <1>3, <3>2
  <2>5. Cardinality({k \in DOMAIN r : r[k].default}) = 1
    BY <2>3, FS_Singleton
  <2>6. \A k \in DOMAIN r : r[k].default => k = First(some)
    BY <1>3
  <2> QED
    BY <1>3, <1>5, <2>4, <2>5, <2>6 DEF OneDefault, r
<1> QED
  BY <1>4, <1>5

(* However many interfaces the machine has, and whichever are wireless.    *)
THEOREM NoAdaptersAreWrong == WrongAdapters = {}
BY OneAdapterIsDefault DEF WrongAdapters

(* The rate shown is the first one known of a controller in the mode.      *)
THEOREM NoDisplaysAreWrong == WrongDisplays = {}
<1> SUFFICES ASSUME NEW s \in Screens, NEW k \in DOMAIN ParseDisplays(s[1], s[2])
             PROVE  LET d == ParseDisplays(s[1], s[2])[k]
                    IN  IF d.hz = 0 THEN Hz(s[1], d.mode) = {} ELSE d.hz \in Hz(s[1], d.mode)
  BY DEF WrongDisplays
<1> DEFINE gpus == s[1]
           mode == s[2][k]
           rates == {g \in DOMAIN gpus : gpus[g].mode = mode /\ gpus[g].hz > 0}
           hz == IF rates = {} THEN 0 ELSE gpus[First(rates)].hz
<1>1. ParseDisplays(s[1], s[2])[k] = [mode |-> mode, hz |-> hz]
  BY DEF ParseDisplays
<1>2. gpus \in Seq([mode : STRING, hz : Nat])
  BY ScreensAssumption
<1> HIDE DEF gpus, mode
<1>3. DOMAIN gpus \subseteq Nat /\ \A g \in DOMAIN gpus : gpus[g].hz \in Nat
  <2>1. DOMAIN gpus = 1..Len(gpus) /\ Len(gpus) \in Nat
    BY <1>2
  <2>2. \A g \in DOMAIN gpus : gpus[g] \in [mode : STRING, hz : Nat]
    <3> DEFINE Gpu == [mode : STRING, hz : Nat]
    <3>1. gpus \in Seq(Gpu)
      BY <1>2
    <3> HIDE DEF Gpu
    <3>2. \A g \in DOMAIN gpus : gpus[g] \in Gpu
      BY <2>1, <3>1
    <3> QED
      BY <3>2 DEF Gpu
  <2> QED
    BY <2>1, <2>2
<1>4. CASE rates = {}
  <2>1. \A g \in DOMAIN gpus : gpus[g].mode = mode => gpus[g].hz = 0
    BY <1>3, <1>4
  <2>2. Hz(gpus, mode) = {}
    BY <2>1 DEF Hz
  <2>3. hz = 0
    BY <1>4
  <2> HIDE DEF hz
  <2> QED
    BY <1>1, <2>2, <2>3 DEF gpus
<1>5. CASE rates # {}
  <2>1. rates \subseteq Nat
    BY <1>3
  <2> HIDE DEF rates
  <2>2. First(rates) \in rates
    BY <1>5, <2>1, FirstIsLeast
  <2>3. /\ First(rates) \in DOMAIN gpus /\ gpus[First(rates)].mode = mode
        /\ gpus[First(rates)].hz # 0
    BY <1>3, <2>2 DEF rates
  <2>4. hz = gpus[First(rates)].hz
    BY <1>5
  <2> HIDE DEF hz
  <2>5. hz \in Hz(gpus, mode) /\ hz # 0
    BY <2>3, <2>4 DEF Hz
  <2> QED
    BY <1>1, <2>5 DEF gpus
<1> QED
  BY <1>4, <1>5

-----------------------------------------------------------------------------
(* What a run collects: the Wi-Fi devices of macOS. *)

(* What holds at 0 and is handed on up to N holds up to N: there is no     *)
(* least exception.                                                        *)
LEMMA HandedOn ==
  ASSUME NEW N \in Nat, NEW P, 0 \in P, \A n \in 1..N : n - 1 \in P => n \in P
  PROVE  0..N \subseteq P
<1> DEFINE T == (0..N) \ P
<1> SUFFICES ASSUME T # {} PROVE FALSE
  OBVIOUS
<1>1. First(T) \in T /\ \A l \in T : First(T) <= l
  <2>1. T \subseteq Nat
    OBVIOUS
  <2> HIDE DEF T
  <2> QED
    BY <2>1, FirstIsLeast
<1>2. First(T) \in 1..N
  BY <1>1
<1>3. First(T) - 1 \in P
  BY <1>1, <1>2
<1> QED
  BY <1>1, <1>2, <1>3

(* The pass over the lines is defined: after k lines it is what the k-th   *)
(* makes of what it was before.                                            *)
LEMMA PortsScannedUnfolds ==
  ASSUME NEW lines, Len(lines) \in Nat
  PROVE  PortsScanned(lines) = [k \in 0..Len(lines) |->
           IF k = 0 THEN NoPort ELSE ScanPort(PortsScanned(lines)[k - 1], lines[k])]
<1> DEFINE Is(g, m) ==
             g = [k \in 0..m |-> IF k = 0 THEN NoPort ELSE ScanPort(g[k - 1], lines[k])]
           P == {m \in Nat : \E g : Is(g, m)}
<1>1. 0 \in P
  <2> DEFINE g == [k \in 0..0 |-> NoPort]
  <2>1. Is(g, 0)
    OBVIOUS
  <2> QED
    BY <2>1
<1>2. ASSUME NEW m \in 1..Len(lines), m - 1 \in P PROVE m \in P
  <2>1. PICK g : Is(g, m - 1)
    BY <1>2
  <2> DEFINE h == [k \in 0..m |-> IF k = m THEN ScanPort(g[m - 1], lines[m]) ELSE g[k]]
  <2>2. m \in Nat \ {0} /\ m - 1 \in Nat
    OBVIOUS
  <2>3. DOMAIN h = 0..m /\ h[m] = ScanPort(g[m - 1], lines[m]) /\ \A k \in 0..m - 1 : h[k] = g[k]
    BY <2>2
  <2>4. h = [k \in 0..m |-> h[k]]
    BY <2>3
  <2> HIDE DEF h
  <2>5. \A k \in 0..m - 1 : g[k] = IF k = 0 THEN NoPort ELSE ScanPort(g[k - 1], lines[k])
    BY <2>1
  <2>6. \A k \in 0..m : h[k] = IF k = 0 THEN NoPort ELSE ScanPort(h[k - 1], lines[k])
    <3> TAKE k \in 0..m
    <3>1. CASE k = m
      <4>1. h[m - 1] = g[m - 1]
        BY <2>2, <2>3
      <4> QED
        BY <2>2, <2>3, <3>1, <4>1
    <3>2. CASE k \in 0..m - 1
      <4>1. k # 0 => k - 1 \in 0..m - 1
        BY <3>2
      <4> QED
        BY <2>3, <2>5, <3>2, <4>1
    <3> QED
      BY <2>2, <3>1, <3>2
  <2>7. Is(h, m)
    BY <2>4, <2>6
  <2> QED
    BY <2>2, <2>7
<1> HIDE DEF P
<1>3. Len(lines) \in P
  <2>1. 0..Len(lines) \subseteq P
    BY <1>1, <1>2, HandedOn
  <2>2. Len(lines) \in 0..Len(lines)
    OBVIOUS
  <2> QED
    BY <2>1, <2>2
<1>4. \E g : Is(g, Len(lines))
  BY <1>3 DEF P
<1> QED
  BY <1>4 DEF PortsScanned

PortLine == [key : {"port"}, wifi : BOOLEAN] \union [key : {"device"}, name : STRING]
              \union [key : {"address"}]

(* The last hardware port before line l is Wi-Fi.                          *)
OnWifi(lines, l) ==
  \E j \in 1..(l - 1) : /\ lines[j].key = "port" /\ lines[j].wifi
                        /\ "port" \notin Between(lines, j, l)

WifiDevices(lines, k) == {l \in 1..k : lines[l].key = "device" /\ OnWifi(lines, l)}

(* What is known after k lines.                                            *)
PortsKnown(lines, k, acc) ==
  acc = [wifi |-> OnWifi(lines, k + 1), names |-> {lines[l].name : l \in WifiDevices(lines, k)}]

(* The port of a line is the one before it, or that of the line before.    *)
LEMMA PortCarries ==
  ASSUME NEW lines \in Seq(PortLine), NEW k \in 1..Len(lines)
  PROVE  OnWifi(lines, k + 1) = IF lines[k].key = "port" THEN lines[k].wifi ELSE OnWifi(lines, k)
<1>1. k \in Nat /\ k >= 1 /\ lines[k] \in PortLine
  BY DEF PortLine
<1>2. \A j \in 1..k - 1 : "port" \in Between(lines, j, k + 1)
                            <=> lines[k].key = "port" \/ "port" \in Between(lines, j, k)
  <2> TAKE j \in 1..k - 1
  <2>1. (j + 1)..(k + 1 - 1) = (j + 1)..(k - 1) \union {k}
    BY <1>1
  <2> QED
    BY <2>1 DEF Between
<1>3. CASE lines[k].key = "port"
  <2>1. lines[k].wifi \in BOOLEAN
    BY <1>1, <1>3 DEF PortLine
  <2>2. (k + 1)..(k + 1 - 1) = {}
    BY <1>1
  <2>3. "port" \notin Between(lines, k, k + 1)
    BY <2>2 DEF Between
  <2>4. 1..(k + 1 - 1) = 1..(k - 1) \union {k}
    BY <1>1
  <2>5. OnWifi(lines, k + 1) <=> lines[k].wifi
    BY <1>2, <1>3, <2>3, <2>4 DEF OnWifi
  <2>6. OnWifi(lines, k + 1) \in BOOLEAN
    BY DEF OnWifi
  <2> QED
    BY <1>3, <2>1, <2>5, <2>6
<1>4. CASE lines[k].key # "port"
  <2>1. 1..(k + 1 - 1) = 1..(k - 1) \union {k}
    BY <1>1
  <2>2. OnWifi(lines, k + 1) <=> OnWifi(lines, k)
    BY <1>2, <1>4, <2>1 DEF OnWifi
  <2>3. OnWifi(lines, k + 1) \in BOOLEAN /\ OnWifi(lines, k) \in BOOLEAN
    BY DEF OnWifi
  <2> QED
    BY <1>4, <2>2, <2>3
<1> QED
  BY <1>3, <1>4

LEMMA ScanPortKnows ==
  ASSUME NEW lines \in Seq(PortLine), NEW k \in 1..Len(lines), NEW acc,
         PortsKnown(lines, k - 1, acc)
  PROVE  PortsKnown(lines, k, ScanPort(acc, lines[k]))
<1> DEFINE names(m) == {lines[l].name : l \in WifiDevices(lines, m)}
<1>1. k \in Nat /\ k >= 1 /\ k - 1 + 1 = k /\ lines[k] \in PortLine
  BY DEF PortLine
<1>2. acc = [wifi |-> OnWifi(lines, k), names |-> names(k - 1)]
  BY <1>1 DEF PortsKnown
<1>3. lines[k].key \in {"port", "device", "address"}
  BY <1>1 DEF PortLine
<1>4. 1..k = 1..(k - 1) \union {k}
  BY <1>1
<1>5. names(k) = IF lines[k].key = "device" /\ OnWifi(lines, k)
                   THEN names(k - 1) \union {lines[k].name} ELSE names(k - 1)
  <2>1. WifiDevices(lines, k) = WifiDevices(lines, k - 1) \union
           (IF lines[k].key = "device" /\ OnWifi(lines, k) THEN {k} ELSE {})
    BY <1>4 DEF WifiDevices
  <2> QED
    BY <2>1
<1> HIDE DEF names
<1>6. OnWifi(lines, k + 1) = IF lines[k].key = "port" THEN lines[k].wifi ELSE OnWifi(lines, k)
  BY PortCarries
<1>7. ScanPort(acc, lines[k]) = [wifi |-> OnWifi(lines, k + 1), names |-> names(k)]
  <2>1. CASE lines[k].key = "port"
    BY <1>2, <1>5, <1>6, <2>1 DEF ScanPort
  <2>2. CASE lines[k].key = "device"
    BY <1>2, <1>5, <1>6, <2>2 DEF ScanPort
  <2>3. CASE lines[k].key = "address"
    BY <1>2, <1>5, <1>6, <2>3 DEF ScanPort
  <2> QED
    BY <1>3, <2>1, <2>2, <2>3
<1> QED
  BY <1>7 DEF PortsKnown, names

LEMMA ScanKnowsPorts ==
  ASSUME NEW lines \in Seq(PortLine)
  PROVE  PortsKnown(lines, Len(lines), PortsScanned(lines)[Len(lines)])
<1> DEFINE N == Len(lines)
           P == {k \in 0..N : PortsKnown(lines, k, PortsScanned(lines)[k])}
<1>1. N \in Nat
  OBVIOUS
<1>2. \A k \in 0..N : PortsScanned(lines)[k] =
        IF k = 0 THEN NoPort ELSE ScanPort(PortsScanned(lines)[k - 1], lines[k])
  BY <1>1, PortsScannedUnfolds
<1>3. 0 \in P
  <2>1. OnWifi(lines, 0 + 1) = FALSE
    BY DEF OnWifi
  <2>2. {lines[l].name : l \in WifiDevices(lines, 0)} = {}
    BY DEF WifiDevices
  <2>3. PortsScanned(lines)[0] = NoPort
    BY <1>1, <1>2
  <2>4. PortsKnown(lines, 0, NoPort)
    BY <2>1, <2>2, Zenon DEF PortsKnown, NoPort
  <2>5. 0 \in 0..N
    BY <1>1
  <2> QED
    BY <2>3, <2>4, <2>5
<1>4. ASSUME NEW k \in 1..N, k - 1 \in P PROVE k \in P
  <2>1. k \in 0..N /\ k # 0
    BY <1>1
  <2>2. PortsKnown(lines, k - 1, PortsScanned(lines)[k - 1])
    BY <1>4
  <2>3. PortsScanned(lines)[k] = ScanPort(PortsScanned(lines)[k - 1], lines[k])
    BY <1>2, <2>1
  <2>4. PortsKnown(lines, k, PortsScanned(lines)[k])
    BY <2>2, <2>3, ScanPortKnows
  <2> QED
    BY <2>1, <2>4
<1> HIDE DEF P
<1>5. 0..N \subseteq P
  BY <1>1, <1>3, <1>4, HandedOn
<1>6. N \in 0..N
  BY <1>1
<1> QED
  BY <1>5, <1>6 DEF P

(* The devices of macOS taken for wireless are those whose hardware port   *)
(* is Wi-Fi, in whatever order the ports and devices are listed.           *)
THEOREM NoPortsAreWrong == WrongPorts = {}
<1> SUFFICES ASSUME NEW lines \in PortLists
             PROVE  WirelessInterfaceNames(lines) =
                      {lines[k].name : k \in {l \in DOMAIN lines :
                         /\ lines[l].key = "device"
                         /\ \E j \in 1..(l - 1) : /\ lines[j].key = "port" /\ lines[j].wifi
                                                  /\ "port" \notin Between(lines, j, l)}}
  BY DEF WrongPorts
<1>1. lines \in Seq(PortLine)
  BY PortListsAssumption DEF PortLine
<1>2. DOMAIN lines = 1..Len(lines)
  BY <1>1
<1>3. PortsKnown(lines, Len(lines), PortsScanned(lines)[Len(lines)])
  BY <1>1, ScanKnowsPorts
<1>4. WirelessInterfaceNames(lines) = {lines[l].name : l \in WifiDevices(lines, Len(lines))}
  BY <1>3 DEF PortsKnown, WirelessInterfaceNames
<1> QED
  BY <1>2, <1>4 DEF WifiDevices, OnWifi

-----------------------------------------------------------------------------
(* What a run collects: the USB devices of macOS. *)

IsTree(t) == /\ t.parent \in Seq(Nat) /\ \A k \in DOMAIN t.parent : t.parent[k] < k
             /\ t.vendor \in [DOMAIN t.parent -> BOOLEAN]

LEMMA TreeFacts ==
  ASSUME NEW t, IsTree(t)
  PROVE  /\ End(t) \in Nat \ {0} /\ Nodes(t) = 1..(End(t) - 1)
         /\ \A k \in Nodes(t) : t.parent[k] \in 0..(k - 1) /\ t.vendor[k] \in BOOLEAN
<1> DEFINE par == t.parent
<1>1. par \in Seq(Nat) /\ \A k \in DOMAIN par : par[k] < k
  BY DEF IsTree
<1>2. t.vendor \in [DOMAIN par -> BOOLEAN]
  BY DEF IsTree
<1> HIDE DEF par
<1>3. DOMAIN par = 1..Len(par) /\ Len(par) \in Nat
  BY <1>1
<1>4. \A k \in DOMAIN par : par[k] \in Nat
  BY <1>1, <1>3
<1> QED
  BY <1>1, <1>2, <1>3, <1>4 DEF End, Nodes, par

(* The next item of a list is a node of that list, with none between, or   *)
(* the end.                                                                *)
LEMMA ItemIsNext ==
  ASSUME NEW t, IsTree(t), NEW p \in Nat, NEW k \in Nat
  PROVE  /\ Item(t, p, k) \in 1..End(t)
         /\ Item(t, p, k) # End(t) => /\ Item(t, p, k) \in Nodes(t) /\ k <= Item(t, p, k)
                                      /\ t.parent[Item(t, p, k)] = p
         /\ \A c \in Nodes(t) : t.parent[c] = p /\ k <= c => Item(t, p, k) <= c
<1> DEFINE S == {c \in Nodes(t) : t.parent[c] = p /\ k <= c} \union {End(t)}
<1>1. End(t) \in Nat \ {0} /\ Nodes(t) = 1..(End(t) - 1)
  BY TreeFacts
<1>2. S \subseteq 1..End(t) /\ S # {}
  BY <1>1
<1>3. First(S) \in S /\ \A c \in S : First(S) <= c
  <2>1. S \subseteq Nat
    BY <1>2
  <2> HIDE DEF S
  <2> QED
    BY <1>2, <2>1, FirstIsLeast
<1>4. Item(t, p, k) = First(S)
  BY DEF Item
<1> HIDE DEF Item
<1> QED
  BY <1>1, <1>2, <1>3, <1>4

(* What the walk appends from node k on is made of what it appends from    *)
(* later nodes on, so the walk is defined.                                 *)
LEMMA WalkUnfolds ==
  ASSUME NEW t, IsTree(t)
  PROVE  Walks(t) = [k \in 1..End(t) |->
           IF k = End(t) THEN <<>>
           ELSE Device(t, k) \o Walks(t)[Item(t, k, 1)] \o Walks(t)[Item(t, t.parent[k], k + 1)]]
<1> DEFINE E == End(t)
           Body(g, k) == IF k = E THEN <<>>
             ELSE Device(t, k) \o g[Item(t, k, 1)] \o g[Item(t, t.parent[k], k + 1)]
           P == {m \in Nat : \E g : DOMAIN g = (E - m)..E /\ \A k \in (E - m)..E : g[k] = Body(g, k)}
<1>1. E \in Nat \ {0} /\ Nodes(t) = 1..(E - 1)
  BY TreeFacts
<1>2. ASSUME NEW k \in 1..(E - 1)
      PROVE  Item(t, k, 1) \in (k + 1)..E /\ Item(t, t.parent[k], k + 1) \in (k + 1)..E
  <2>1. k \in Nodes(t) /\ t.parent[k] \in Nat /\ k \in Nat /\ k + 1 \in Nat /\ 1 \in Nat
    BY <1>1, TreeFacts
  <2>2. Item(t, t.parent[k], k + 1) \in (k + 1)..E
    <3>1. Item(t, t.parent[k], k + 1) \in 1..E
      BY <2>1, ItemIsNext
    <3>2. Item(t, t.parent[k], k + 1) # E => k + 1 <= Item(t, t.parent[k], k + 1)
      BY <2>1, ItemIsNext
    <3> QED
      BY <1>1, <2>1, <3>1, <3>2
  <2>3. Item(t, k, 1) \in (k + 1)..E
    <3>1. Item(t, k, 1) \in 1..E
      BY <2>1, ItemIsNext
    <3>2. Item(t, k, 1) # E => Item(t, k, 1) \in Nodes(t) /\ t.parent[Item(t, k, 1)] = k
      BY <2>1, ItemIsNext
    <3>3. Item(t, k, 1) # E => k < Item(t, k, 1)
      BY <3>2, TreeFacts
    <3> QED
      BY <1>1, <2>1, <3>1, <3>3
  <2> QED
    BY <2>2, <2>3
<1> HIDE DEF E
<1>3. ASSUME NEW g, NEW h, NEW k \in 1..E, \A c \in (k + 1)..E : g[c] = h[c]
      PROVE  Body(g, k) = Body(h, k)
  <2>1. CASE k = E
    BY <2>1
  <2>2. CASE k # E
    <3>1. k \in 1..(E - 1)
      BY <1>1, <2>2
    <3>2. g[Item(t, k, 1)] = h[Item(t, k, 1)]
      BY <1>2, <1>3, <3>1
    <3>3. g[Item(t, t.parent[k], k + 1)] = h[Item(t, t.parent[k], k + 1)]
      BY <1>2, <1>3, <3>1
    <3> QED
      BY <3>2, <3>3
  <2> QED
    BY <2>1, <2>2
<1>4. \A g : Body(g, E) = <<>>
  OBVIOUS
<1> HIDE DEF Body
<1>5. 0 \in P
  <2> DEFINE g == [k \in (E - 0)..E |-> <<>>]
  <2>1. \A k \in (E - 0)..E : k = E /\ g[k] = <<>>
    BY <1>1
  <2>2. DOMAIN g = (E - 0)..E
    OBVIOUS
  <2> HIDE DEF g
  <2>3. \A k \in (E - 0)..E : g[k] = Body(g, k)
    BY <1>4, <2>1
  <2> QED
    BY <2>2, <2>3
<1>6. ASSUME NEW m \in 1..(E - 1), m - 1 \in P PROVE m \in P
  <2> DEFINE b == E - m
  <2>1. m \in Nat /\ b \in 1..(E - 1) /\ E - (m - 1) = b + 1
    BY <1>1
  <2>2. PICK g : DOMAIN g = (b + 1)..E /\ \A k \in (b + 1)..E : g[k] = Body(g, k)
    BY <1>6, <2>1
  <2> DEFINE h == [k \in b..E |-> IF k = b THEN Body(g, b) ELSE g[k]]
  <2> HIDE DEF b
  <2>3. DOMAIN h = b..E /\ h[b] = Body(g, b) /\ \A k \in (b + 1)..E : h[k] = g[k]
    BY <1>1, <2>1
  <2> HIDE DEF h
  <2>4. ASSUME NEW k \in b..E PROVE h[k] = Body(h, k)
    <3>1. k \in 1..E /\ \A c \in (k + 1)..E : c \in (b + 1)..E
      BY <1>1, <2>1
    <3>2. \A c \in (k + 1)..E : g[c] = h[c]
      BY <2>3, <3>1
    <3>3. Body(g, k) = Body(h, k)
      BY <1>3, <3>1, <3>2
    <3>4. h[k] = Body(g, k)
      <4>1. k = b \/ k \in (b + 1)..E
        BY <1>1, <2>1
      <4> QED
        BY <2>2, <2>3, <4>1
    <3> QED
      BY <3>3, <3>4
  <2> QED
    BY <2>1, <2>3, <2>4 DEF b
<1> HIDE DEF P
<1>7. E - 1 \in P
  <2>1. E - 1 \in Nat /\ E - 1 \in 0..(E - 1)
    BY <1>1
  <2>2. 0..(E - 1) \subseteq P
    BY <1>5, <1>6, <2>1, HandedOn
  <2> QED
    BY <2>1, <2>2
<1>8. PICK g : DOMAIN g = 1..E /\ \A k \in 1..E : g[k] = Body(g, k)
  <2>1. E - (E - 1) = 1
    BY <1>1
  <2> QED
    BY <1>7, <2>1 DEF P
<1>9. \E w : w = [k \in 1..E |-> Body(w, k)]
  <2> DEFINE w == [k \in 1..E |-> g[k]]
  <2>1. \A k \in 1..E : w[k] = g[k]
    OBVIOUS
  <2> HIDE DEF w
  <2>2. ASSUME NEW k \in 1..E PROVE g[k] = Body(w, k)
    <3>1. \A c \in (k + 1)..E : w[c] = g[c]
      BY <1>1, <2>1
    <3>2. Body(w, k) = Body(g, k)
      BY <1>3, <3>1
    <3> QED
      BY <1>8, <3>2
  <2>3. w = [k \in 1..E |-> Body(w, k)]
    BY <2>2 DEF w
  <2> QED
    BY <2>3
<1> QED
  BY <1>9 DEF Walks, Body, E

LEMMA WalkSteps ==
  ASSUME NEW t, IsTree(t)
  PROVE  /\ Walks(t)[End(t)] = <<>>
         /\ \A k \in Nodes(t) : Walks(t)[k] =
              Device(t, k) \o Walks(t)[Item(t, k, 1)] \o Walks(t)[Item(t, t.parent[k], k + 1)]
<1> DEFINE w == Walks(t)
           Body(k) == Device(t, k) \o w[Item(t, k, 1)] \o w[Item(t, t.parent[k], k + 1)]
<1>1. End(t) \in Nat \ {0} /\ Nodes(t) = 1..(End(t) - 1)
  BY TreeFacts
<1>2. w = [k \in 1..End(t) |-> IF k = End(t) THEN <<>> ELSE Body(k)]
  BY WalkUnfolds
<1> HIDE DEF w, Body
<1>3. w[End(t)] = <<>>
  <2>1. End(t) \in 1..End(t)
    BY <1>1
  <2> QED
    BY <1>2, <2>1
<1>4. ASSUME NEW k \in Nodes(t) PROVE w[k] = Body(k)
  <2>1. k \in 1..End(t) /\ k # End(t)
    BY <1>1
  <2> QED
    BY <1>2, <2>1
<1> QED
  BY <1>3, <1>4 DEF w, Body

-----------------------------------------------------------------------------
(* Where a node hangs. *)

(* The node k and the nodes below it: the least set that contains k and,   *)
(* with a node, what hangs on it.                                          *)
Closed(t, S) == \A c \in Nodes(t) : t.parent[c] \in S => c \in S
Subtree(t, k) ==
  {x \in Nodes(t) : \A S \in SUBSET Nodes(t) : k \in S /\ Closed(t, S) => x \in S}

(* The nodes of the list below p, from its item k on, with their subtrees. *)
ListFrom(t, p, k) ==
  UNION {Subtree(t, c) : c \in {d \in Nodes(t) : t.parent[d] = p /\ k <= d}}

LEMMA SubtreeIsLeast ==
  ASSUME NEW t, NEW k \in Nodes(t)
  PROVE  /\ Subtree(t, k) \subseteq Nodes(t) /\ k \in Subtree(t, k) /\ Closed(t, Subtree(t, k))
         /\ \A S \in SUBSET Nodes(t) : k \in S /\ Closed(t, S) => Subtree(t, k) \subseteq S
<1>1. Subtree(t, k) \subseteq Nodes(t) /\ k \in Subtree(t, k)
  BY DEF Subtree
<1>2. \A S \in SUBSET Nodes(t) : k \in S /\ Closed(t, S) => Subtree(t, k) \subseteq S
  BY DEF Subtree
<1>3. ASSUME NEW c \in Nodes(t), t.parent[c] \in Subtree(t, k) PROVE c \in Subtree(t, k)
  <2>1. ASSUME NEW S \in SUBSET Nodes(t), k \in S, Closed(t, S) PROVE c \in S
    <3>1. t.parent[c] \in S
      BY <1>2, <1>3, <2>1
    <3> QED
      BY <2>1, <3>1 DEF Closed
  <2> QED
    BY <2>1 DEF Subtree
<1>4. Closed(t, Subtree(t, k))
  BY <1>3 DEF Closed
<1> QED
  BY <1>1, <1>2, <1>4

(* Below the root of a subtree every node hangs on one of the subtree.     *)
LEMMA SubtreeHangsTogether ==
  ASSUME NEW t, IsTree(t), NEW k \in Nodes(t)
  PROVE  \A x \in Subtree(t, k) : x = k \/ (k < x /\ t.parent[x] \in Subtree(t, k))
<1> DEFINE T == Subtree(t, k)
           S == {x \in T : x = k \/ (k < x /\ t.parent[x] \in T)}
<1>1. T \subseteq Nodes(t) /\ k \in T /\ Closed(t, T)
  BY SubtreeIsLeast
<1>2. \A S1 \in SUBSET Nodes(t) : k \in S1 /\ Closed(t, S1) => T \subseteq S1
  BY SubtreeIsLeast
<1>3. Nodes(t) \subseteq Nat /\ \A c \in Nodes(t) : t.parent[c] \in 0..(c - 1)
  BY TreeFacts
<1> HIDE DEF T
<1>4. ASSUME NEW c \in Nodes(t), t.parent[c] \in S PROVE c \in S
  <2>1. c \in T
    BY <1>1, <1>4 DEF Closed
  <2>2. k < c
    <3>1. k <= t.parent[c] /\ t.parent[c] < c /\ c \in Nat /\ k \in Nat /\ t.parent[c] \in Nat
      BY <1>3, <1>4
    <3> QED
      BY <3>1
  <2> QED
    BY <1>4, <2>1, <2>2
<1>5. S \in SUBSET Nodes(t) /\ k \in S
  BY <1>1
<1>6. Closed(t, S)
  BY <1>4 DEF Closed
<1>7. T \subseteq S
  BY <1>2, <1>5, <1>6
<1> QED
  BY <1>7 DEF T

LEMMA SiblingsApart ==
  ASSUME NEW t, IsTree(t), NEW c \in Nodes(t), NEW d \in Nodes(t), c # d,
         t.parent[c] = t.parent[d]
  PROVE  Subtree(t, c) \cap Subtree(t, d) = {}
<1> DEFINE C == Subtree(t, c)
           D == Subtree(t, d)
           S == C \ D
<1>1. C \subseteq Nodes(t) /\ c \in C /\ Closed(t, C) /\ D \subseteq Nodes(t)
  BY SubtreeIsLeast
<1>2. \A S1 \in SUBSET Nodes(t) : c \in S1 /\ Closed(t, S1) => C \subseteq S1
  BY SubtreeIsLeast
<1>3. /\ \A x \in C : x = c \/ (c < x /\ t.parent[x] \in C)
      /\ \A x \in D : x = d \/ (d < x /\ t.parent[x] \in D)
  BY SubtreeHangsTogether
<1>4. /\ Nodes(t) \subseteq Nat /\ t.parent[c] \in Nat /\ t.parent[d] \in Nat
      /\ t.parent[c] < c /\ t.parent[d] < d
  BY TreeFacts
<1> HIDE DEF C, D
<1>5. t.parent[d] \notin D /\ t.parent[c] \notin C
  BY <1>3, <1>4
<1>6. c \in S
  BY <1>1, <1>3, <1>5
<1>7. ASSUME NEW x \in Nodes(t), t.parent[x] \in S PROVE x \in S
  <2>1. x \in C
    BY <1>1, <1>7 DEF Closed
  <2>2. x # d
    BY <1>5, <1>7
  <2> QED
    BY <1>3, <1>7, <2>1, <2>2
<1>8. Closed(t, S)
  BY <1>7 DEF Closed
<1>9. C \subseteq S
  BY <1>1, <1>2, <1>6, <1>8
<1> QED
  BY <1>9 DEF C, D

(* A subtree is its root and the list of what hangs on it.                 *)
LEMMA SubtreeIsRootAndList ==
  ASSUME NEW t, IsTree(t), NEW k \in Nodes(t)
  PROVE  Subtree(t, k) = {k} \union ListFrom(t, k, 1)
<1> DEFINE T == Subtree(t, k)
           S == {k} \union ListFrom(t, k, 1)
<1>1. T \subseteq Nodes(t) /\ k \in T /\ Closed(t, T)
  BY SubtreeIsLeast
<1>2. \A S1 \in SUBSET Nodes(t) : k \in S1 /\ Closed(t, S1) => T \subseteq S1
  BY SubtreeIsLeast
<1>3. \A c \in Nodes(t) : c \in Nat /\ 1 <= c
  BY TreeFacts
<1>4. \A x : x \in ListFrom(t, k, 1) <=>
               \E d \in Nodes(t) : t.parent[d] = k /\ x \in Subtree(t, d)
  BY <1>3 DEF ListFrom
<1>5. ASSUME NEW x \in ListFrom(t, k, 1) PROVE x \in T
  <2>1. PICK d \in Nodes(t) : t.parent[d] = k /\ x \in Subtree(t, d)
    BY <1>4
  <2>2. d \in T
    BY <1>1, <2>1 DEF Closed
  <2>3. Subtree(t, d) \subseteq T
    BY <1>1, <2>2, SubtreeIsLeast
  <2> QED
    BY <2>1, <2>3
<1> HIDE DEF T
<1>6. ASSUME NEW c \in Nodes(t), t.parent[c] \in S PROVE c \in S
  <2>1. CASE t.parent[c] = k
    <3>1. c \in Subtree(t, c)
      BY SubtreeIsLeast
    <3> QED
      BY <1>4, <2>1, <3>1
  <2>2. CASE t.parent[c] # k
    <3>1. PICK d \in Nodes(t) : t.parent[d] = k /\ t.parent[c] \in Subtree(t, d)
      BY <1>4, <1>6, <2>2
    <3>2. c \in Subtree(t, d)
      BY <3>1, SubtreeIsLeast DEF Closed
    <3> QED
      BY <1>4, <3>1, <3>2
  <2> QED
    BY <2>1, <2>2
<1>7. Closed(t, S)
  BY <1>6 DEF Closed
<1>8. T \subseteq S
  BY <1>1, <1>2, <1>5, <1>7
<1> QED
  BY <1>1, <1>5, <1>8 DEF T

(* A list is its next item's subtree and the rest of the list.             *)
LEMMA ListIsItemAndRest ==
  ASSUME NEW t, IsTree(t), NEW p \in Nat, NEW k \in Nat
  PROVE  LET i == Item(t, p, k)
         IN  /\ i = End(t) => ListFrom(t, p, k) = {}
             /\ i # End(t) => /\ ListFrom(t, p, k) = ListFrom(t, t.parent[i], i)
                              /\ ListFrom(t, p, k) = Subtree(t, i) \union ListFrom(t, p, i + 1)
<1> DEFINE i == Item(t, p, k)
           kids(n) == {d \in Nodes(t) : t.parent[d] = p /\ n <= d}
<1>1. i # End(t) => i \in Nodes(t) /\ k <= i /\ t.parent[i] = p
  BY ItemIsNext
<1>2. \A c \in Nodes(t) : t.parent[c] = p /\ k <= c => i <= c
  BY ItemIsNext
<1>3. \A c \in Nodes(t) : c \in Nat /\ c < End(t)
  BY TreeFacts
<1>4. End(t) \in Nat
  BY TreeFacts
<1> HIDE DEF i
<1>5. ASSUME i = End(t) PROVE ListFrom(t, p, k) = {}
  <2>1. kids(k) = {}
    BY <1>2, <1>3, <1>4, <1>5
  <2> QED
    BY <2>1 DEF ListFrom
<1>6. ASSUME i # End(t)
      PROVE  /\ ListFrom(t, p, k) = ListFrom(t, t.parent[i], i)
             /\ ListFrom(t, p, k) = Subtree(t, i) \union ListFrom(t, p, i + 1)
  <2>1. kids(k) = kids(i)
    BY <1>1, <1>2, <1>3, <1>6
  <2>2. kids(k) = {i} \union kids(i + 1)
    BY <1>1, <1>2, <1>3, <1>6
  <2> QED
    BY <1>1, <1>6, <2>1, <2>2 DEF ListFrom
<1> QED
  BY <1>5, <1>6 DEF i

(* Everything hangs on the bus in the end.                                 *)
LEMMA BusHasAll ==
  ASSUME NEW t, IsTree(t)
  PROVE  ListFrom(t, 0, 1) = Nodes(t)
<1> DEFINE L == ListFrom(t, 0, 1)
           Out == Nodes(t) \ L
<1>1. \A c \in Nodes(t) : c \in Nat /\ 1 <= c /\ t.parent[c] \in Nat /\ t.parent[c] < c
  BY TreeFacts
<1>2. \A x : x \in L <=> \E d \in Nodes(t) : t.parent[d] = 0 /\ x \in Subtree(t, d)
  BY <1>1 DEF ListFrom
<1>3. L \subseteq Nodes(t)
  BY <1>2, SubtreeIsLeast
<1> HIDE DEF L
<1>4. ASSUME Out # {} PROVE FALSE
  <2> DEFINE x == First(Out)
  <2>1. x \in Out /\ \A l \in Out : x <= l
    <3>1. Out \subseteq Nat
      BY <1>1
    <3> HIDE DEF Out
    <3> QED
      BY <1>4, <3>1, FirstIsLeast
  <2> HIDE DEF x
  <2>2. x \in Subtree(t, x)
    BY <2>1, SubtreeIsLeast
  <2>3. t.parent[x] # 0
    BY <1>2, <2>1, <2>2
  <2>4. t.parent[x] \in Nodes(t)
    <3>1. t.parent[x] \in 0..(x - 1) /\ Nodes(t) = 1..(End(t) - 1) /\ End(t) \in Nat
      BY <2>1, TreeFacts
    <3> QED
      BY <2>1, <2>3, <3>1
  <2>5. t.parent[x] \in L
    BY <1>1, <2>1, <2>4
  <2>6. PICK d \in Nodes(t) : t.parent[d] = 0 /\ t.parent[x] \in Subtree(t, d)
    BY <1>2, <2>5
  <2>7. x \in Subtree(t, d)
    BY <2>1, <2>6, SubtreeIsLeast DEF Closed
  <2> QED
    BY <1>2, <2>1, <2>6, <2>7
<1> QED
  BY <1>3, <1>4 DEF L

-----------------------------------------------------------------------------
(* What the walk appends. *)

(* r has the devices among the nodes of A, each once, and none before the  *)
(* node it hangs on.                                                       *)
Appends(t, r, A) ==
  /\ r \in Seq(Nodes(t))
  /\ {r[i] : i \in 1..Len(r)} = {x \in A : t.vendor[x]}
  /\ \A i, j \in 1..Len(r) : r[i] = r[j] => i = j
  /\ \A i, j \in 1..Len(r) : t.parent[r[i]] = r[j] => j < i

LEMMA AppendsNothing == ASSUME NEW t PROVE Appends(t, <<>>, {})
  BY DEF Appends

LEMMA AppendsDevice ==
  ASSUME NEW t, IsTree(t), NEW k \in Nodes(t)
  PROVE  Appends(t, Device(t, k), {k})
<1>1. t.vendor[k] \in BOOLEAN /\ t.parent[k] # k
  <2>1. t.vendor[k] \in BOOLEAN /\ t.parent[k] \in 0..(k - 1) /\ k \in Nat
    BY TreeFacts
  <2> QED
    BY <2>1
<1>2. CASE t.vendor[k]
  <2>1. Device(t, k) = <<k>> /\ Len(<<k>>) = 1 /\ <<k>>[1] = k /\ <<k>> \in Seq(Nodes(t))
    BY <1>2 DEF Device
  <2>2. \A i \in 1..1 : i = 1
    OBVIOUS
  <2> QED
    BY <1>1, <1>2, <2>1, <2>2 DEF Appends
<1>3. CASE ~t.vendor[k]
  <2>1. Device(t, k) = <<>>
    BY <1>3 DEF Device
  <2> QED
    BY <1>3, <2>1 DEF Appends
<1> QED
  BY <1>1, <1>2, <1>3

(* Two such series in a row: the nodes are different ones, and none of the *)
(* first hangs on one of the second.                                       *)
LEMMA AppendsBoth ==
  ASSUME NEW t, NEW A, NEW B, A \cap B = {}, \A x \in A : t.parent[x] \notin B,
         NEW u, Appends(t, u, A), NEW v, Appends(t, v, B)
  PROVE  Appends(t, u \o v, A \union B)
<1> DEFINE r == u \o v
<1>1. u \in Seq(Nodes(t)) /\ v \in Seq(Nodes(t)) /\ Len(u) \in Nat /\ Len(v) \in Nat
  BY DEF Appends
<1>2. r \in Seq(Nodes(t)) /\ Len(r) = Len(u) + Len(v)
  BY <1>1
<1>3. \A i \in 1..Len(u) : r[i] = u[i]
  BY <1>1
<1>4. \A i \in (Len(u) + 1)..Len(r) : i - Len(u) \in 1..Len(v) /\ r[i] = v[i - Len(u)]
  BY <1>1, <1>2
<1> HIDE DEF r
<1>5. \A i \in 1..Len(r) : i \in 1..Len(u) \/ i \in (Len(u) + 1)..Len(r)
  BY <1>1, <1>2
<1>6. /\ \A i \in 1..Len(u) : u[i] \in A /\ t.vendor[u[i]]
      /\ \A i \in 1..Len(v) : v[i] \in B /\ t.vendor[v[i]]
  BY DEF Appends
<1>7. {r[i] : i \in 1..Len(r)} = {x \in A \union B : t.vendor[x]}
  <2>1. ASSUME NEW i \in 1..Len(r) PROVE r[i] \in A \union B /\ t.vendor[r[i]]
    BY <1>3, <1>4, <1>5, <1>6
  <2>2. ASSUME NEW x \in A, t.vendor[x] PROVE \E i \in 1..Len(r) : r[i] = x
    <3>1. PICK i \in 1..Len(u) : u[i] = x
      BY <2>2 DEF Appends
    <3>2. i \in 1..Len(r)
      BY <1>1, <1>2
    <3> QED
      BY <1>3, <3>1, <3>2
  <2>3. ASSUME NEW x \in B, t.vendor[x] PROVE \E i \in 1..Len(r) : r[i] = x
    <3>1. PICK i \in 1..Len(v) : v[i] = x
      BY <2>3 DEF Appends
    <3>2. i + Len(u) \in 1..Len(r) /\ i + Len(u) \in (Len(u) + 1)..Len(r)
          /\ i + Len(u) - Len(u) = i
      BY <1>1, <1>2
    <3>3. r[i + Len(u)] = v[i]
      BY <1>4, <3>2
    <3> QED
      BY <3>1, <3>2, <3>3
  <2> QED
    BY <2>1, <2>2, <2>3
<1>8. ASSUME NEW i \in 1..Len(r), NEW j \in 1..Len(r), r[i] = r[j] PROVE i = j
  <2>1. CASE i \in 1..Len(u) /\ j \in 1..Len(u)
    BY <1>3, <1>8, <2>1 DEF Appends
  <2>2. CASE i \in (Len(u) + 1)..Len(r) /\ j \in (Len(u) + 1)..Len(r)
    <3>1. /\ i - Len(u) \in 1..Len(v) /\ r[i] = v[i - Len(u)]
          /\ j - Len(u) \in 1..Len(v) /\ r[j] = v[j - Len(u)]
      BY <1>4, <2>2
    <3>2. i - Len(u) = j - Len(u)
      BY <1>8, <3>1 DEF Appends
    <3> QED
      BY <1>1, <3>2
  <2>3. CASE i \in 1..Len(u) /\ j \in (Len(u) + 1)..Len(r)
    <3>1. r[i] \in A
      BY <1>3, <1>6, <2>3
    <3>2. r[j] \in B
      BY <1>4, <1>6, <2>3
    <3> QED
      BY <1>8, <3>1, <3>2
  <2>4. CASE j \in 1..Len(u) /\ i \in (Len(u) + 1)..Len(r)
    <3>1. r[j] \in A
      BY <1>3, <1>6, <2>4
    <3>2. r[i] \in B
      BY <1>4, <1>6, <2>4
    <3> QED
      BY <1>8, <3>1, <3>2
  <2> QED
    BY <1>5, <2>1, <2>2, <2>3, <2>4
<1>9. ASSUME NEW i \in 1..Len(r), NEW j \in 1..Len(r), t.parent[r[i]] = r[j] PROVE j < i
  <2>1. CASE i \in 1..Len(u) /\ j \in 1..Len(u)
    BY <1>3, <1>9, <2>1 DEF Appends
  <2>2. CASE i \in (Len(u) + 1)..Len(r) /\ j \in (Len(u) + 1)..Len(r)
    <3>1. /\ i - Len(u) \in 1..Len(v) /\ r[i] = v[i - Len(u)]
          /\ j - Len(u) \in 1..Len(v) /\ r[j] = v[j - Len(u)]
      BY <1>4, <2>2
    <3>2. j - Len(u) < i - Len(u)
      BY <1>9, <3>1 DEF Appends
    <3> QED
      BY <1>1, <3>2
  <2>3. CASE i \in 1..Len(u) /\ j \in (Len(u) + 1)..Len(r)
    <3>1. r[i] \in A
      BY <1>3, <1>6, <2>3
    <3>2. r[j] \in B
      BY <1>4, <1>6, <2>3
    <3> QED
      BY <1>9, <3>1, <3>2
  <2>4. CASE j \in 1..Len(u) /\ i \in (Len(u) + 1)..Len(r)
    BY <1>1, <2>4
  <2> QED
    BY <1>5, <2>1, <2>2, <2>3, <2>4
<1> QED
  BY <1>2, <1>7, <1>8, <1>9 DEF Appends, r

(* What the walk appends from node k on: the devices of the list of k.     *)
WalkIsRight(t, k) == Appends(t, Walks(t)[k], ListFrom(t, t.parent[k], k))

LEMMA ItemAppends ==
  ASSUME NEW t, IsTree(t), NEW p \in Nat, NEW k \in Nat,
         Item(t, p, k) # End(t) => WalkIsRight(t, Item(t, p, k))
  PROVE  Appends(t, Walks(t)[Item(t, p, k)], ListFrom(t, p, k))
<1>1. CASE Item(t, p, k) = End(t)
  <2>1. Walks(t)[Item(t, p, k)] = <<>>
    BY <1>1, WalkSteps
  <2>2. ListFrom(t, p, k) = {}
    BY <1>1, ListIsItemAndRest
  <2> QED
    BY <2>1, <2>2, AppendsNothing
<1>2. CASE Item(t, p, k) # End(t)
  <2>1. ListFrom(t, p, k) = ListFrom(t, t.parent[Item(t, p, k)], Item(t, p, k))
    BY <1>2, ListIsItemAndRest
  <2> QED
    BY <1>2, <2>1 DEF WalkIsRight
<1> QED
  BY <1>1, <1>2

(* The list of k is k, what hangs on k, and the rest of the list: three    *)
(* separate sets, with nothing in one that hangs on a later one.           *)
LEMMA ThreeParts ==
  ASSUME NEW t, IsTree(t), NEW k \in Nodes(t)
  PROVE  LET Below == ListFrom(t, k, 1)
             Rest == ListFrom(t, t.parent[k], k + 1)
         IN  /\ ListFrom(t, t.parent[k], k) = ({k} \union Below) \union Rest
             /\ {k} \cap Below = {} /\ t.parent[k] \notin Below
             /\ ({k} \union Below) \cap Rest = {}
             /\ \A x \in {k} \union Below : t.parent[x] \notin Rest
<1> DEFINE Below == ListFrom(t, k, 1)
           Rest == ListFrom(t, t.parent[k], k + 1)
           T == Subtree(t, k)
<1>1. /\ k \in Nat /\ t.parent[k] \in Nat /\ t.parent[k] < k /\ k # End(t)
      /\ \A c \in Nodes(t) : c \in Nat
  BY TreeFacts
<1>2. T = {k} \union Below
  BY SubtreeIsRootAndList
<1>3. \A x \in T : x = k \/ (k < x /\ t.parent[x] \in T)
  BY SubtreeHangsTogether
<1>4. \A x : x \in Below <=> \E d \in Nodes(t) : t.parent[d] = k /\ 1 <= d /\ x \in Subtree(t, d)
  BY DEF ListFrom
<1>5. \A x : x \in Rest <=>
               \E d \in Nodes(t) : t.parent[d] = t.parent[k] /\ k + 1 <= d /\ x \in Subtree(t, d)
  BY DEF ListFrom
<1>6. ASSUME NEW x \in Below PROVE x \in Nat /\ k < x
  <2>1. PICK d \in Nodes(t) : t.parent[d] = k /\ x \in Subtree(t, d)
    BY <1>4
  <2>2. x \in Nodes(t) /\ (x = d \/ d < x)
    BY <2>1, SubtreeHangsTogether, SubtreeIsLeast
  <2>3. k < d /\ d \in Nat /\ x \in Nat
    BY <1>1, <2>1, <2>2, TreeFacts
  <2> QED
    BY <1>1, <2>2, <2>3
<1>7. ASSUME NEW x \in Rest PROVE x \in Nat /\ k < x /\ x \notin T
  <2>1. PICK d \in Nodes(t) : t.parent[d] = t.parent[k] /\ k + 1 <= d /\ x \in Subtree(t, d)
    BY <1>5
  <2>2. x \in Nodes(t) /\ (x = d \/ d < x)
    BY <2>1, SubtreeHangsTogether, SubtreeIsLeast
  <2>3. d # k /\ k < d /\ d \in Nat /\ x \in Nat
    <3>1. d \in Nat /\ x \in Nat
      BY <1>1, <2>2
    <3> QED
      BY <1>1, <2>1, <3>1
  <2>4. Subtree(t, d) \cap Subtree(t, k) = {}
    BY <2>1, <2>3, SiblingsApart
  <2> QED
    BY <1>1, <2>1, <2>2, <2>3, <2>4
<1>8. ListFrom(t, t.parent[k], k) = T \union Rest
  <2>1. Item(t, t.parent[k], k) = k
    <3>1. Item(t, t.parent[k], k) <= k /\ Item(t, t.parent[k], k) \in 1..End(t)
      <4>1. k <= k
        BY <1>1
      <4> QED
        BY <1>1, <4>1, ItemIsNext
    <3>2. Item(t, t.parent[k], k) # End(t) => k <= Item(t, t.parent[k], k)
      BY <1>1, ItemIsNext
    <3>3. End(t) \in Nat /\ k < End(t)
      BY TreeFacts
    <3> QED
      BY <1>1, <3>1, <3>2, <3>3
  <2> QED
    BY <1>1, <2>1, ListIsItemAndRest
<1> HIDE DEF Below, Rest, T
<1>9. ASSUME NEW x \in T PROVE t.parent[x] \notin Rest
  BY <1>1, <1>3, <1>7
<1>10. t.parent[k] \notin Below /\ k \notin Below
  BY <1>1, <1>6
<1>11. T \cap Rest = {}
  BY <1>7
<1> QED
  BY <1>2, <1>8, <1>9, <1>10, <1>11 DEF Below, Rest

LEMMA WalkStepIsRight ==
  ASSUME NEW t, IsTree(t), NEW k \in Nodes(t),
         \A c \in Nodes(t) : k < c => WalkIsRight(t, c)
  PROVE  WalkIsRight(t, k)
<1> DEFINE Below == ListFrom(t, k, 1)
           Rest == ListFrom(t, t.parent[k], k + 1)
           below == Walks(t)[Item(t, k, 1)]
           rest == Walks(t)[Item(t, t.parent[k], k + 1)]
<1>1. k \in Nat /\ k + 1 \in Nat /\ t.parent[k] \in Nat /\ 1 \in Nat
      /\ \A c \in Nodes(t) : c \in Nat /\ t.parent[c] < c
  BY TreeFacts
<1>2. Appends(t, below, Below)
  <2>1. Item(t, k, 1) # End(t) => Item(t, k, 1) \in Nodes(t) /\ t.parent[Item(t, k, 1)] = k
    BY <1>1, ItemIsNext
  <2>2. Item(t, k, 1) # End(t) => WalkIsRight(t, Item(t, k, 1))
    BY <1>1, <2>1
  <2> QED
    BY <1>1, <2>2, ItemAppends
<1>3. Appends(t, rest, Rest)
  <2> DEFINE i == Item(t, t.parent[k], k + 1)
  <2>1. i # End(t) => i \in Nodes(t) /\ k + 1 <= i
    BY <1>1, ItemIsNext
  <2> HIDE DEF i
  <2>2. ASSUME i # End(t) PROVE WalkIsRight(t, i)
    <3>1. i \in Nodes(t) /\ k + 1 <= i /\ i \in Nat
      BY <1>1, <2>1, <2>2
    <3>2. k < i
      BY <1>1, <3>1
    <3> QED
      BY <3>1, <3>2
  <2> QED
    BY <1>1, <2>2, ItemAppends DEF i
<1>4. Appends(t, Device(t, k), {k})
  BY AppendsDevice
<1>5. /\ ListFrom(t, t.parent[k], k) = ({k} \union Below) \union Rest
      /\ {k} \cap Below = {} /\ t.parent[k] \notin Below
      /\ ({k} \union Below) \cap Rest = {}
      /\ \A x \in {k} \union Below : t.parent[x] \notin Rest
  BY ThreeParts
<1>6. Walks(t)[k] = Device(t, k) \o below \o rest
  BY WalkSteps
<1> HIDE DEF Below, Rest, below, rest
<1>7. Appends(t, Device(t, k) \o below, {k} \union Below)
  <2>1. \A x \in {k} : t.parent[x] \notin Below
    BY <1>5
  <2> QED
    BY <1>2, <1>4, <1>5, <2>1, AppendsBoth
<1>8. Appends(t, (Device(t, k) \o below) \o rest, ({k} \union Below) \union Rest)
  BY <1>3, <1>5, <1>7, AppendsBoth
<1> QED
  BY <1>5, <1>6, <1>8 DEF WalkIsRight

LEMMA AllWalksAreRight ==
  ASSUME NEW t, IsTree(t)
  PROVE  \A k \in Nodes(t) : WalkIsRight(t, k)
<1> DEFINE N == End(t) - 1
           P == {m \in Nat : \A k \in Nodes(t) : N - m < k => WalkIsRight(t, k)}
<1>1. N \in Nat /\ Nodes(t) = 1..N
  BY TreeFacts
<1> HIDE DEF N
<1>2. 0 \in P
  BY <1>1
<1>3. ASSUME NEW m \in 1..N, m - 1 \in P PROVE m \in P
  <2>1. ASSUME NEW k \in Nodes(t), N - m < k PROVE WalkIsRight(t, k)
    <3>1. \A c \in Nodes(t) : k < c => N - (m - 1) < c
      BY <1>1, <2>1
    <3>2. \A c \in Nodes(t) : k < c => WalkIsRight(t, c)
      BY <1>3, <3>1
    <3> QED
      BY <3>2, WalkStepIsRight
  <2> QED
    BY <1>1, <2>1
<1> HIDE DEF P
<1>4. N \in P
  <2>1. 0..N \subseteq P
    BY <1>1, <1>2, <1>3, HandedOn
  <2> QED
    BY <1>1, <2>1
<1> QED
  BY <1>1, <1>4 DEF P

LEMMA UpToFinite ==
  ASSUME NEW n \in Nat PROVE IsFiniteSet(1..n) /\ Cardinality(1..n) = n
  BY FS_Interval

LEMMA WalkAppendsTheTree ==
  ASSUME NEW t \in Trees
  PROVE  Appends(t, WalkUSBItems(t), Nodes(t))
<1>1. IsTree(t)
  BY TreesAssumption DEF IsTree
<1>2. Item(t, 0, 1) # End(t) => WalkIsRight(t, Item(t, 0, 1))
  BY <1>1, ItemIsNext, AllWalksAreRight
<1>3. Appends(t, Walks(t)[Item(t, 0, 1)], ListFrom(t, 0, 1))
  BY <1>1, <1>2, ItemAppends
<1> QED
  BY <1>1, <1>3, BusHasAll DEF WalkUSBItems

(* walkUSBItems appends each device of the tree once, and a hub before     *)
(* what hangs on it, however deep the tree is.                             *)
THEOREM WalkListsTheTree ==
  ASSUME NEW t \in Trees
  PROVE  Lists(WalkUSBItems(t), t)
<1> DEFINE r == WalkUSBItems(t)
           devices == {k \in Nodes(t) : t.vendor[k]}
<1>1. Appends(t, r, Nodes(t))
  BY WalkAppendsTheTree
<1> HIDE DEF r
<1>2. DOMAIN r = 1..Len(r) /\ Len(r) \in Nat
  BY <1>1 DEF Appends
<1>3. {r[i] : i \in 1..Len(r)} = devices
  BY <1>1 DEF Appends
<1>4. Cardinality(devices) = Len(r)
  <2> DEFINE f == [i \in 1..Len(r) |-> r[i]]
  <2>1. f \in [1..Len(r) -> devices] /\ \A i \in 1..Len(r) : f[i] = r[i]
    BY <1>3
  <2> HIDE DEF f, devices
  <2>2. \A i, j \in 1..Len(r) : f[i] = f[j] => i = j
    BY <1>1, <2>1 DEF Appends
  <2>3. \A x \in devices : \E i \in 1..Len(r) : f[i] = x
    BY <1>3, <2>1
  <2>4. f \in Bijection(1..Len(r), devices)
    BY <2>1, <2>2, <2>3 DEF Bijection, Injection, IsInjective, Surjection
  <2>5. ExistsBijection(1..Len(r), devices)
    BY <2>4 DEF ExistsBijection
  <2>6. IsFiniteSet(1..Len(r)) /\ Cardinality(1..Len(r)) = Len(r)
    BY <1>2, UpToFinite
  <2> QED
    BY <2>5, <2>6, FS_Bijection
<1>5. \A k, l \in DOMAIN r : t.parent[r[k]] = r[l] => l < k
  BY <1>1, <1>2 DEF Appends
<1> QED
  BY <1>2, <1>3, <1>4, <1>5 DEF Lists, r

LEMMA NothingListed ==
  ASSUME NEW t \in Trees
  PROVE  WalkUSBItems(t) = <<>> <=> \A k \in Nodes(t) : ~ t.vendor[k]
<1> DEFINE r == WalkUSBItems(t)
           devices == {k \in Nodes(t) : t.vendor[k]}
<1>1. r \in Seq(Nodes(t)) /\ {r[i] : i \in 1..Len(r)} = devices
  BY WalkAppendsTheTree DEF Appends
<1> HIDE DEF r, devices
<1>2. r = <<>> => devices = {}
  BY <1>1
<1>3. devices = {} => r = <<>>
  <2>1. ASSUME devices = {} PROVE Len(r) = 0
    <3>1. Len(r) \in Nat
      BY <1>1
    <3>2. 1 \notin 1..Len(r)
      BY <1>1, <2>1
    <3> QED
      BY <3>1, <3>2
  <2> QED
    BY <1>1, <2>1
<1>4. devices = {} <=> \A k \in Nodes(t) : ~ t.vendor[k]
  BY DEF devices
<1> QED
  BY <1>2, <1>3, <1>4 DEF r

LEMMA DevicesOfQuery ==
  ASSUME NEW q \in Answers
  PROVE  LET d == IF q.how = "tree" THEN WalkUSBItems(q.tree) ELSE <<>>
         IN  /\ d = <<>> <=> ~HasDevices(q)
             /\ HasDevices(q) => Lists(d, q.tree)
<1>1. CASE q.how = "tree"
  <2>1. q.tree \in Trees
    BY <1>1 DEF Answers
  <2>2. HasDevices(q) <=> \E k \in Nodes(q.tree) : q.tree.vendor[k]
    BY <1>1 DEF HasDevices
  <2> QED
    BY <1>1, <2>1, <2>2, NothingListed, WalkListsTheTree
<1>2. CASE q.how # "tree"
  BY <1>2 DEF HasDevices
<1> QED
  BY <1>1, <1>2

(* The list is that of the first query that has devices, and empty if      *)
(* neither has; the one case in which devices are lost is a first query    *)
(* that timed out before a second that has some.                           *)
THEOREM USBLostOnlyByTimeout ==
  WrongUSB = {q \in Answers \X Answers : q[1].how = "timeout" /\ HasDevices(q[2])}
<1> SUFFICES ASSUME NEW host \in Answers, NEW legacy \in Answers
             PROVE  LET r == CollectUSBDevices(host, legacy)
                        right == CASE HasDevices(host) -> Lists(r, host.tree)
                                   [] ~HasDevices(host) /\ HasDevices(legacy) ->
                                        Lists(r, legacy.tree)
                                   [] OTHER -> r = <<>>
                    IN  ~right <=> host.how = "timeout" /\ HasDevices(legacy)
  BY DEF WrongUSB
<1> DEFINE Devices(q) == IF q.how = "tree" THEN WalkUSBItems(q.tree) ELSE <<>>
           r == CollectUSBDevices(host, legacy)
<1>1. ASSUME NEW q \in Answers
      PROVE  /\ Devices(q) = <<>> <=> ~HasDevices(q)
             /\ HasDevices(q) => Lists(Devices(q), q.tree)
  BY DevicesOfQuery
<1>2. r = IF Devices(host) # <<>> THEN Devices(host)
          ELSE IF host.how = "timeout" THEN <<>> ELSE Devices(legacy)
  BY DEF CollectUSBDevices
<1>3. HasDevices(host) \in BOOLEAN /\ HasDevices(legacy) \in BOOLEAN
  BY DEF HasDevices
<1>4. HasDevices(host) => host.how # "timeout"
  BY DEF HasDevices
<1>5. HasDevices(legacy) => ~Lists(<<>>, legacy.tree)
  BY DEF HasDevices, Lists
<1> HIDE DEF Devices, r
<1>6. CASE HasDevices(host)
  <2>1. Lists(r, host.tree)
    BY <1>1, <1>2, <1>6
  <2> QED
    BY <1>4, <1>6, <2>1 DEF r
<1>7. CASE ~HasDevices(host) /\ HasDevices(legacy)
  <2>1. CASE host.how = "timeout"
    <3>1. r = <<>>
      BY <1>1, <1>2, <1>7, <2>1
    <3> QED
      BY <1>5, <1>7, <2>1, <3>1 DEF r
  <2>2. CASE host.how # "timeout"
    <3>1. Lists(r, legacy.tree)
      BY <1>1, <1>2, <1>7, <2>2
    <3> QED
      BY <1>7, <2>2, <3>1 DEF r
  <2> QED
    BY <2>1, <2>2
<1>8. CASE ~HasDevices(host) /\ ~HasDevices(legacy)
  <2>1. r = <<>>
    BY <1>1, <1>2, <1>8
  <2> QED
    BY <1>8, <2>1 DEF r
<1> QED
  BY <1>3, <1>6, <1>7, <1>8

(* The facts about the machine that a run collects are right, for every    *)
(* answer of the operating system but a first USB query that times out.    *)
THEOREM CollectedRight == Spec => []CollectedIsRight
<1>1. WrongUSBInTime = {}
  BY USBLostOnlyByTimeout DEF WrongUSBInTime
<1>2. CollectedIsRight
  BY <1>1, NoPortsAreWrong, NoAdaptersAreWrong, NoDisplaysAreWrong
     DEF CollectedIsRight, AdaptersRight, PeripheralsRight
<1> QED
  BY <1>2, PTL
=============================================================================
