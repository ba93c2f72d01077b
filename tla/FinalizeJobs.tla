----------------------------- MODULE FinalizeJobs -----------------------------
(***************************************************************************)
(* The durable job that turns an ended voice call into evidence: the       *)
(* durable_jobs table of services/platform-api/app/jobs.py, the processes  *)
(* of app/worker.py that claim its rows, and the two finalizers            *)
(* (app/local_voice.py, app/external_voice.py) they run.                   *)
(*                                                                         *)
(* One action is one committed transaction, or one stretch of a            *)
(* transaction between two points where another session can be seen: the   *)
(* claim, the reads at the head of complete_job, the insert that takes a   *)
(* unique key before the provider is called, each provider call, the       *)
(* commit.  A call has one job (CallDesk shows it), so a job is named by   *)
(* its call.  The clock is abstracted to what the claim query compares it  *)
(* with: a lock is fresh or more than fifteen minutes old, an available_at *)
(* has passed or not, and `earlier` is the order of those that have.       *)
(***************************************************************************)
EXTENDS Naturals, FiniteSets

CONSTANTS Calls,        \* voice conversations, one durable job each
          Workers,      \* processes running app/worker.py
          Forms,        \* QA forms that may be configured
          MaxAttempts,  \* DurableJob.max_attempts, 5 in the code
          NoCall,       \* a worker holds no job
          NoForm        \* no active form applies

ASSUME ConstantsAssumption ==
    /\ MaxAttempts \in Nat \ {0}
    /\ NoCall \notin Calls
    /\ NoForm \notin Forms

VARIABLES
    status,      \* DurableJob.status, "none" before the call is hung up
    attempts,    \* DurableJob.attempts
    lease,       \* locked_at: "none", "fresh", or "stale" (over 15 minutes old)
    due,         \* available_at <= now
    earlier,     \* <<k, c>>: the available_at of k is before that of c
    mode,        \* payload["ai_mode"], fixed when the job is created
    recording,   \* the Recording row: "none", "uploaded" or "fixture"
    uploading,   \* calls with an upload that passed its checks before the hang-up
    evaluations, \* the QAEvaluation rows
    predicted,   \* calls with a SurveyResponse row
    written,     \* committed sets of transcript, assists and cost rows
    billed,      \* analyses the external provider has answered
    forms,       \* active QA forms
    pc, task,    \* where a worker is, and the job it claimed
    saw,         \* workers whose transaction found a Recording row when it began
    rubric       \* the form its transaction read

jobVars == <<status, attempts, lease, due, earlier, mode>>
evidenceVars == <<recording, uploading, evaluations, predicted, written>>
workerVars == <<pc, task, saw, rubric>>
vars == <<jobVars, evidenceVars, workerVars, billed, forms>>

Modes == {"local", "external"}
Providers == {"local_rules", "groq", "reviewer"}
Statuses == {"none", "pending", "running", "succeeded", "failed"}
Steps == {"idle", "claimed", "inserting", "transcribing", "analyzing",
          "writing", "raised"}

EvaluationRows == [call : Calls, form : Forms, provider : Providers]

TypeOK ==
    /\ status \in [Calls -> Statuses]
    /\ attempts \in [Calls -> 0..MaxAttempts]
    /\ lease \in [Calls -> {"none", "fresh", "stale"}]
    /\ due \in [Calls -> BOOLEAN]
    /\ earlier \subseteq Calls \X Calls
    /\ mode \in [Calls -> Modes \cup {"none"}]
    /\ recording \in [Calls -> {"none", "uploaded", "fixture"}]
    /\ uploading \subseteq Calls
    /\ evaluations \subseteq EvaluationRows
    /\ predicted \subseteq Calls
    /\ written \in [Calls -> Nat]
    /\ billed \in [Calls -> Nat]
    /\ forms \subseteq Forms
    /\ pc \in [Workers -> Steps]
    /\ task \in [Workers -> Calls \cup {NoCall}]
    /\ saw \subseteq Workers
    /\ rubric \in [Workers -> Forms \cup {NoForm}]

Init ==
    /\ status = [c \in Calls |-> "none"]
    /\ attempts = [c \in Calls |-> 0]
    /\ lease = [c \in Calls |-> "none"]
    /\ due = [c \in Calls |-> FALSE]
    /\ earlier = {}
    /\ mode = [c \in Calls |-> "none"]
    /\ recording = [c \in Calls |-> "none"]
    /\ uploading = {}
    /\ evaluations = {}
    /\ predicted = {}
    /\ written = [c \in Calls |-> 0]
    /\ billed = [c \in Calls |-> 0]
    /\ forms \in SUBSET Forms
    /\ pc = [w \in Workers |-> "idle"]
    /\ task = [w \in Workers |-> NoCall]
    /\ saw = {}
    /\ rubric = [w \in Workers |-> NoForm]

-----------------------------------------------------------------------------
(* Creating a job, and the passage of time. *)

\* c's available_at is now, after every available_at that has already passed.
BecomesDue(c) ==
    /\ due' = [due EXCEPT ![c] = TRUE]
    /\ earlier' = earlier \cup {<<k, c>> : k \in {k \in Calls : due[k]}}

\* Hang-up (control_voice) commits the ended session and the job together.  The
\* tenant's privacy mode m goes into the payload; r says how far the desktop's
\* upload of its recording came: not begun, past its checks, or committed.
StartVoiceFinalization(c, m, r) ==
    /\ status[c] = "none"
    /\ status' = [status EXCEPT ![c] = "pending"]
    /\ mode' = [mode EXCEPT ![c] = m]
    /\ recording' = [recording EXCEPT ![c] = IF r = "uploaded" THEN r ELSE "none"]
    /\ uploading' = IF r = "uploading" THEN uploading \cup {c} ELSE uploading
    /\ BecomesDue(c)
    /\ UNCHANGED <<attempts, lease, evaluations, predicted, written, workerVars, billed, forms>>

\* Fifteen minutes pass since the row was locked, whoever locked it.
LeaseExpires(c) ==
    /\ status[c] = "running" /\ lease[c] = "fresh"
    /\ lease' = [lease EXCEPT ![c] = "stale"]
    /\ UNCHANGED <<status, attempts, due, earlier, mode, evidenceVars, workerVars, billed, forms>>

\* The delay record_failure put on the job passes.
BackoffElapses(c) ==
    /\ status[c] = "pending" /\ ~due[c]
    /\ BecomesDue(c)
    /\ UNCHANGED <<status, attempts, lease, mode, evidenceVars, workerVars, billed, forms>>

-----------------------------------------------------------------------------
(* claim_recoverable_job, in a session of its own. *)

\* Mutant: the bound on attempts is off by one.
RecoverableOnceMore(c) ==
    /\ attempts[c] <= MaxAttempts
    /\ \/ status[c] = "pending" /\ due[c]
       \/ status[c] = "running" /\ lease[c] = "stale"

\* Mutant: a row left RUNNING is not looked at.
RecoverablePending(c) ==
    attempts[c] < MaxAttempts /\ status[c] = "pending" /\ due[c]

Recoverable(c) ==
    /\ attempts[c] < MaxAttempts
    /\ \/ status[c] = "pending" /\ due[c]
       \/ status[c] = "running" /\ lease[c] = "stale"

\* The earliest recoverable row, unless SKIP LOCKED passes over the rows that
\* another worker's claim has locked at that moment.
ClaimRecoverableJob(w, c) ==
    /\ pc[w] = "idle"
    /\ Recoverable(c)
    /\ Workers = {w} => \A k \in Calls : Recoverable(k) => <<k, c>> \notin earlier
    /\ status' = [status EXCEPT ![c] = "running"]
    /\ attempts' = [attempts EXCEPT ![c] = @ + 1]
    /\ lease' = [lease EXCEPT ![c] = "fresh"]
    /\ pc' = [pc EXCEPT ![w] = "claimed"]
    /\ task' = [task EXCEPT ![w] = c]
    /\ UNCHANGED <<due, earlier, mode, evidenceVars, saw, rubric, billed, forms>>

-----------------------------------------------------------------------------
(* complete_job and the finalizers, in a second session.                   *)

\* The worker's loop goes round; its session is closed.
BackToLoop(w) ==
    /\ pc' = [pc EXCEPT ![w] = "idle"]
    /\ task' = [task EXCEPT ![w] = NoCall]
    /\ saw' = saw \ {w}
    /\ rubric' = [rubric EXCEPT ![w] = NoForm]

\* The assignments that end complete_job.
MarkSucceeded(c) ==
    /\ status' = [status EXCEPT ![c] = "succeeded"]
    /\ lease' = [lease EXCEPT ![c] = "none"]
    /\ UNCHANGED <<attempts, due, earlier, mode>>

\* Mutant: the external finalizer tests for a recording, as the local one does.
AlreadyRecorded(c) == recording[c] # "none"

\* The finalizers' test for evidence that is already there: any recording for
\* the local one, an evaluation by the provider "groq" for the external one.
AlreadyFinalized(c) ==
    IF mode[c] = "local"
    THEN recording[c] # "none"
    ELSE \E e \in evaluations : e.call = c /\ e.provider = "groq"

\* Another worker's run has succeeded since the claim: complete_job returns.
AlreadySucceeded(w) ==
    /\ pc[w] = "claimed"
    /\ status[task[w]] = "succeeded"
    /\ BackToLoop(w)
    /\ UNCHANGED <<jobVars, evidenceVars, billed, forms>>

\* The finalizer returns without writing, and the job is marked SUCCEEDED.
SkipFinalized(w) ==
    /\ pc[w] = "claimed"
    /\ status[task[w]] # "succeeded"
    /\ AlreadyFinalized(task[w])
    /\ MarkSucceeded(task[w])
    /\ BackToLoop(w)
    /\ UNCHANGED <<evidenceVars, billed, forms>>

\* The reads at the head of a finalizer that has work to do.
BeginFinalize(w) ==
    LET c == task[w] IN
    /\ pc[w] = "claimed"
    /\ status[c] # "succeeded"
    /\ ~AlreadyFinalized(c)
    /\ saw' = IF recording[c] = "none" THEN saw ELSE saw \cup {w}
    /\ pc' = [pc EXCEPT ![w] =
                IF mode[c] = "local" THEN "writing"
                ELSE IF recording[c] = "none" THEN "inserting" ELSE "transcribing"]
    /\ IF mode[c] = "local" /\ forms # {}
       THEN \E f \in forms : rubric' = [rubric EXCEPT ![w] = f]
       ELSE UNCHANGED rubric
    /\ UNCHANGED <<jobVars, evidenceVars, task, billed, forms>>

\* _ensure_recording flushed a Recording row that is not committed yet: its
\* unique key is held until the transaction ends.
HoldsRecordingKey(w, c) ==
    /\ task[w] = c
    /\ mode[c] = "external" /\ w \notin saw
    /\ pc[w] \in {"transcribing", "analyzing", "writing"}

\* Mutant: the row is committed before the provider is called.
EnsureRecordingCommits(w) ==
    /\ pc[w] = "inserting"
    /\ recording[task[w]] = "none"
    /\ recording' = [recording EXCEPT ![task[w]] = "fixture"]
    /\ saw' = saw \cup {w}
    /\ pc' = [pc EXCEPT ![w] = "transcribing"]
    /\ UNCHANGED <<jobVars, uploading, evaluations, predicted, written, task, rubric,
                   billed, forms>>

\* The flush waits for a transaction that holds the key, then either takes the
\* key or meets the committed row and raises IntegrityError.
EnsureRecording(w) ==
    LET c == task[w] IN
    /\ pc[w] = "inserting"
    /\ \A v \in Workers : ~HoldsRecordingKey(v, c)
    /\ pc' = [pc EXCEPT ![w] = IF recording[c] = "none" THEN "transcribing" ELSE "raised"]
    /\ UNCHANGED <<jobVars, evidenceVars, task, saw, rubric, billed, forms>>

\* The transcript is ready (from live segments or provider.transcribe) and the
\* rubric is read.
Transcribe(w) ==
    /\ pc[w] = "transcribing"
    /\ pc' = [pc EXCEPT ![w] = "analyzing"]
    /\ IF forms = {} THEN UNCHANGED rubric
       ELSE \E f \in forms : rubric' = [rubric EXCEPT ![w] = f]
    /\ UNCHANGED <<jobVars, evidenceVars, task, saw, billed, forms>>

\* provider.analyze returns, and its tokens are spent.
Analyze(w) ==
    /\ pc[w] = "analyzing"
    /\ pc' = [pc EXCEPT ![w] = "writing"]
    /\ billed' = [billed EXCEPT ![task[w]] = @ + 1]
    /\ UNCHANGED <<jobVars, evidenceVars, task, saw, rubric, forms>>

\* Mutant: predictions have no unique key.
KeyConflictUnpredicted(w) ==
    LET c == task[w] IN
    \/ mode[c] = "local" /\ recording[c] # "none"
    \/ \E e \in evaluations : e.call = c /\ e.form = rubric[w]

\* A row this run inserts meets a committed row with the same unique key.
KeyConflict(w) ==
    LET c == task[w] IN
    \/ mode[c] = "local" /\ recording[c] # "none"
    \/ c \in predicted
    \/ \E e \in evaluations : e.call = c /\ e.form = rubric[w]

ProviderOf(c) == IF mode[c] = "local" THEN "local_rules" ELSE "groq"

\* Mutant: the evidence is committed before the job is marked.
CommitEvidenceFirst(w) ==
    LET c == task[w] IN
    /\ pc[w] = "writing"
    /\ ~KeyConflict(w)
    /\ recording' = [recording EXCEPT ![c] = IF w \in saw THEN @ ELSE "fixture"]
    /\ predicted' = predicted \cup {c}
    /\ written' = [written EXCEPT ![c] = @ + 1]
    /\ pc' = [pc EXCEPT ![w] = "claimed"]
    /\ saw' = saw \ {w}
    /\ UNCHANGED <<jobVars, uploading, evaluations, task, rubric, billed, forms>>

\* The evidence and the SUCCEEDED mark commit in one transaction.
CommitEvidence(w) ==
    LET c == task[w] IN
    /\ pc[w] = "writing"
    /\ ~KeyConflict(w)
    /\ recording' = [recording EXCEPT ![c] = IF w \in saw THEN @ ELSE "fixture"]
    /\ evaluations' = IF rubric[w] = NoForm THEN evaluations
                      ELSE evaluations \cup
                             {[call |-> c, form |-> rubric[w], provider |-> ProviderOf(c)]}
    /\ predicted' = predicted \cup {c}
    /\ UNCHANGED uploading
    /\ written' = [written EXCEPT ![c] = @ + 1]
    /\ MarkSucceeded(c)
    /\ BackToLoop(w)
    /\ UNCHANGED <<billed, forms>>

\* IntegrityError at a flush or at the commit.
CommitConflict(w) ==
    /\ pc[w] = "writing"
    /\ KeyConflict(w)
    /\ pc' = [pc EXCEPT ![w] = "raised"]
    /\ UNCHANGED <<jobVars, evidenceVars, task, saw, rubric, billed, forms>>

\* Any other exception: the provider fails, its answer does not cover the
\* rubric, there is no speech, the disk is full.
Raise(w) ==
    /\ pc[w] \in {"claimed", "inserting", "transcribing", "analyzing", "writing"}
    /\ pc' = [pc EXCEPT ![w] = "raised"]
    /\ UNCHANGED <<jobVars, evidenceVars, task, saw, rubric, billed, forms>>

\* record_failure: the run's transaction is rolled back and the row updated.
RecordFailure(w) ==
    LET c == task[w] IN
    /\ pc[w] = "raised"
    /\ lease' = [lease EXCEPT ![c] = "none"]
    /\ IF attempts[c] >= MaxAttempts
       THEN /\ status' = [status EXCEPT ![c] = "failed"]
            /\ UNCHANGED <<due, earlier>>
       ELSE /\ status' = [status EXCEPT ![c] = "pending"]
            /\ due' = [due EXCEPT ![c] = FALSE]
            /\ earlier' = {p \in earlier : c \notin {p[1], p[2]}}
    /\ BackToLoop(w)
    /\ UNCHANGED <<attempts, mode, evidenceVars, billed, forms>>

\* The process dies and is restarted: its open transaction is rolled back, and
\* the row stays as the claim left it.
Crash(w) ==
    /\ pc[w] # "idle"
    /\ BackToLoop(w)
    /\ UNCHANGED <<jobVars, evidenceVars, billed, forms>>

-----------------------------------------------------------------------------
(* What the API does meanwhile to the rows the finalizers read. *)

\* create_qa_form.
CreateForm(f) ==
    /\ f \notin forms
    /\ forms' = forms \cup {f}
    /\ UNCHANGED <<jobVars, evidenceVars, workerVars, billed>>

\* create_qa_evaluation: a reviewer scores the call, at any time, on any form;
\* the provider's name is the caller's to choose.
CreateEvaluation(c, f, p) ==
    /\ f \in forms
    /\ \A e \in evaluations : ~(e.call = c /\ e.form = f)
    /\ evaluations' = evaluations \cup {[call |-> c, form |-> f, provider |-> p]}
    /\ UNCHANGED <<jobVars, recording, uploading, predicted, written, workerVars, billed, forms>>

\* upload_voice_recording runs in a thread: the call was up when it checked, and
\* it inserts its row after the hang-up.  It waits for a worker that holds the
\* key, and answers 500 when a committed row has it.
FinishUpload(c) ==
    /\ c \in uploading
    /\ \A w \in Workers : ~HoldsRecordingKey(w, c)
    /\ uploading' = uploading \ {c}
    /\ recording' = [recording EXCEPT ![c] = IF @ = "none" THEN "uploaded" ELSE @]
    /\ UNCHANGED <<jobVars, evaluations, predicted, written, workerVars, billed, forms>>

-----------------------------------------------------------------------------
Finalize(w) ==
    \/ AlreadySucceeded(w) \/ SkipFinalized(w) \/ BeginFinalize(w)
    \/ EnsureRecording(w) \/ Transcribe(w) \/ Analyze(w)
    \/ CommitEvidence(w) \/ CommitConflict(w) \/ Raise(w) \/ RecordFailure(w)

WorkerStep(w) == Finalize(w) \/ \E c \in Calls : ClaimRecoverableJob(w, c)

Next ==
    \/ \E c \in Calls, m \in Modes, r \in {"none", "uploading", "uploaded"} :
          StartVoiceFinalization(c, m, r)
    \/ \E c \in Calls : LeaseExpires(c) \/ BackoffElapses(c)
    \/ \E w \in Workers : WorkerStep(w) \/ Crash(w)
    \/ \E c \in Calls : FinishUpload(c)
    \/ \E f \in Forms : CreateForm(f)
    \/ \E c \in Calls, f \in Forms, p \in {"groq", "reviewer"} : CreateEvaluation(c, f, p)

Spec == Init /\ [][Next]_vars

\* A worker process that stays up keeps looping, and time passes.  A crash, a
\* hang-up, a new form and a manual evaluation are never owed.
Fairness ==
    /\ \A w \in Workers : WF_vars(WorkerStep(w))
    /\ \A c \in Calls : WF_vars(LeaseExpires(c)) /\ WF_vars(BackoffElapses(c))

FairSpec == Spec /\ Fairness

-----------------------------------------------------------------------------
(* What the rest of the system is promised: OneShotFinalization. *)

Verdict == [c \in Calls |->
    IF status[c] \in {"pending", "running"} THEN "open" ELSE status[c]]

OneShot == INSTANCE OneShotFinalization WITH verdict <- Verdict, evidence <- predicted

\* A deployment with one worker process implements OneShotFinalization: a
\* verdict is never taken back, evidence appears in the step that reports
\* success, and a job given up has left none behind.
OneShotSpec == OneShot!Spec

-----------------------------------------------------------------------------
(* Safety. *)

\* However many workers ran a call's job, however often they crashed, and
\* whether or not a form was configured, its transcript, assists and cost rows
\* are written at most once, together with one predicted survey: the duplicate
\* evidence the comment at jobs.py:67-69 is afraid of never happens.
EvidenceAtMostOnce ==
    \A c \in Calls : written[c] = IF c \in predicted THEN 1 ELSE 0

\* Evidence is all or nothing: a written transcript and prediction never stand
\* without a recording, nor a fixture recording without the evidence of the
\* run that copied it, whatever failed or crashed between the flush of the
\* recording and the commit.
EvidenceIsWhole ==
    \A c \in Calls :
        /\ c \in predicted => recording[c] # "none"
        /\ recording[c] = "fixture" => c \in predicted

\* A job marked SUCCEEDED has its evidence, or one of the two tests for
\* finished work was satisfied by a row somebody else wrote.
SucceededHasEvidence ==
    \A c \in Calls : status[c] = "succeeded" =>
        \/ c \in predicted
        \/ mode[c] = "local" /\ recording[c] = "uploaded"
        \/ mode[c] = "external" /\ \E e \in evaluations : e.call = c /\ e.provider = "groq"

\* No two transactions hold the unique key of the same call's recording, and
\* none holds it once a row is committed: the two runs of a reclaimed job are
\* serialised before they pay the provider.
OneRecordingKeyHolder ==
    \A v \in Workers, c \in Calls : HoldsRecordingKey(v, c) =>
        /\ recording[c] = "none"
        /\ \A w \in Workers : HoldsRecordingKey(w, c) => v = w

\* A job is given up only when every attempt is used.
GivenUpOnlyWhenExhausted ==
    \A c \in Calls : status[c] = "failed" => attempts[c] = MaxAttempts

-----------------------------------------------------------------------------
(* The inductive invariant behind the safety properties, for the proofs of   *)
(* FinalizeJobsProofs.                                                       *)

\* A worker is busy exactly when it holds a job, and that job was created.
BusyHoldsJob ==
    \A w \in Workers :
        /\ pc[w] = "idle" <=> task[w] = NoCall
        /\ task[w] # NoCall => status[task[w]] # "none"

\* Nothing is known of a call whose job is not created, and the payload of one
\* that is created names its mode.
UnopenedIsBlank ==
    \A c \in Calls :
        /\ status[c] = "none" <=> mode[c] = "none"
        /\ status[c] = "none" => recording[c] = "none" /\ c \notin predicted \cup uploading

\* A recording row a run has seen is still there.
SeenRecordingStays ==
    \A w \in saw : task[w] # NoCall /\ recording[task[w]] # "none"

IInv ==
    /\ TypeOK
    /\ BusyHoldsJob /\ UnopenedIsBlank /\ SeenRecordingStays
    /\ EvidenceAtMostOnce /\ EvidenceIsWhole /\ SucceededHasEvidence
    /\ OneRecordingKeyHolder /\ GivenUpOnlyWhenExhausted

-----------------------------------------------------------------------------
(* Liveness. *)

Settled(c) == status[c] \in {"succeeded", "failed"}

\* The worker died during the last attempt: claim_recoverable_job excludes the
\* row for its attempts, and nothing else ever looks at it.
Stranded(c) ==
    /\ status[c] = "running" /\ attempts[c] = MaxAttempts
    /\ \A w \in Workers : task[w] # c

\* Every ended call's job comes to rest: SUCCEEDED, FAILED or stranded, for
\* good, through any number of crashes, failures and expired locks.
EveryJobComesToRest ==
    \A c \in Calls : status[c] # "none" ~> [](Settled(c) \/ Stranded(c))

-----------------------------------------------------------------------------
(* What the documents say, refuted by what the code does. *)

\* README.md:38, "a worker retries abandoned or transiently failed jobs": a job
\* whose lock went stale is claimed again or resolved.
AbandonedJobIsRetried ==
    \A c \in Calls :
        (status[c] = "running" /\ lease[c] = "stale")
            ~> (status[c] # "running" \/ lease[c] = "fresh")

\* jobs.py:67-69, "Do not let another worker reclaim a healthy in-flight job":
\* no two workers finalize the same call at once.
HealthyJobNotReclaimed ==
    \A v, w \in Workers : task[v] # NoCall /\ task[v] = task[w] => v = w

\* docs/PRODUCT_CONTRACT.md:77, "The call produces a playable recording,
\* speaker-attributed transcript, ... evidence-linked QA result": a SUCCEEDED
\* job that no reviewer interfered with has written its transcript.
SucceededWroteTranscript ==
    \A c \in Calls :
        status[c] = "succeeded" /\ (\A e \in evaluations : e.call # c) => written[c] = 1

\* README.md:21, "measured per-call AI cost": the ledger of a SUCCEEDED job
\* holds every analysis the provider billed for the call.
CostIsMeasured ==
    \A c \in Calls : status[c] = "succeeded" => billed[c] <= written[c]
=============================================================================
