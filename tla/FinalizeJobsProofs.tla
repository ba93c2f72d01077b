-------------------------- MODULE FinalizeJobsProofs --------------------------
(***************************************************************************)
(* Proofs about FinalizeJobs, for any calls, workers, forms and bound on   *)
(* attempts.                                                               *)
(***************************************************************************)
EXTENDS FinalizeJobs, TLAPS

USE ConstantsAssumption

-----------------------------------------------------------------------------
(* Type correctness. *)

\* Every action leaves each column, and each worker's registers, in its type.
LEMMA TypeInductive == TypeOK /\ BusyHoldsJob /\ [Next]_vars => TypeOK'
<1> SUFFICES ASSUME TypeOK, BusyHoldsJob, [Next]_vars PROVE TypeOK'
  OBVIOUS
<1> USE DEF TypeOK, jobVars, evidenceVars, workerVars, Modes, Statuses, Steps
<1>1. ASSUME NEW c \in Calls, NEW m \in Modes, NEW r \in {"none", "uploading", "uploaded"},
             StartVoiceFinalization(c, m, r)
      PROVE TypeOK'
  BY <1>1 DEF StartVoiceFinalization, BecomesDue
<1>2. ASSUME NEW c \in Calls, LeaseExpires(c) PROVE TypeOK'
  BY <1>2 DEF LeaseExpires
<1>3. ASSUME NEW c \in Calls, BackoffElapses(c) PROVE TypeOK'
  BY <1>3 DEF BackoffElapses, BecomesDue
<1>4. ASSUME NEW w \in Workers, NEW c \in Calls, ClaimRecoverableJob(w, c) PROVE TypeOK'
  BY <1>4 DEF ClaimRecoverableJob, Recoverable
<1>5. ASSUME NEW w \in Workers, pc[w] # "idle" PROVE task[w] \in Calls
  BY <1>5 DEF BusyHoldsJob
<1>6. ASSUME NEW w \in Workers, Finalize(w) PROVE TypeOK'
  <2>1. CASE AlreadySucceeded(w)
    BY <2>1 DEF AlreadySucceeded, BackToLoop
  <2>2. CASE SkipFinalized(w)
    BY <2>2, <1>5 DEF SkipFinalized, MarkSucceeded, BackToLoop
  <2>3. CASE BeginFinalize(w)
    BY <2>3, <1>5 DEF BeginFinalize
  <2>4. CASE EnsureRecording(w)
    BY <2>4 DEF EnsureRecording
  <2>5. CASE Transcribe(w)
    BY <2>5 DEF Transcribe
  <2>6. CASE Analyze(w)
    BY <2>6, <1>5 DEF Analyze
  <2>7. CASE CommitEvidence(w)
    BY <2>7, <1>5 DEF CommitEvidence, MarkSucceeded, BackToLoop, EvaluationRows, Providers, ProviderOf
  <2>8. CASE CommitConflict(w)
    BY <2>8 DEF CommitConflict
  <2>9. CASE Raise(w)
    BY <2>9 DEF Raise
  <2>10. CASE RecordFailure(w)
    BY <2>10, <1>5 DEF RecordFailure, BackToLoop
  <2> QED
    BY <1>6, <2>1, <2>2, <2>3, <2>4, <2>5, <2>6, <2>7, <2>8, <2>9, <2>10 DEF Finalize
<1>7. ASSUME NEW w \in Workers, Crash(w) PROVE TypeOK'
  BY <1>7 DEF Crash, BackToLoop
<1>8. ASSUME NEW f \in Forms, CreateForm(f) PROVE TypeOK'
  BY <1>8 DEF CreateForm
<1>9. ASSUME NEW c \in Calls, NEW f \in Forms, NEW p \in {"groq", "reviewer"},
             CreateEvaluation(c, f, p)
      PROVE TypeOK'
  BY <1>9 DEF CreateEvaluation, EvaluationRows, Providers
<1>10. ASSUME NEW c \in Calls, FinishUpload(c) PROVE TypeOK'
  BY <1>10 DEF FinishUpload
<1>11. CASE UNCHANGED vars
  BY <1>11 DEF vars
<1> QED
  BY <1>1, <1>2, <1>3, <1>4, <1>6, <1>7, <1>8, <1>9, <1>10, <1>11 DEF Next, WorkerStep

-----------------------------------------------------------------------------
(* The inductive invariant. *)

Rest ==
    /\ BusyHoldsJob /\ UnopenedIsBlank /\ SeenRecordingStays
    /\ EvidenceAtMostOnce /\ EvidenceIsWhole /\ SucceededHasEvidence
    /\ OneRecordingKeyHolder /\ GivenUpOnlyWhenExhausted

\* record_failure touches the job row alone; only the verdict "failed" has
\* something to show, and it shows that every attempt is used.
LEMMA RecordFailureKeepsRest ==
  ASSUME IInv, NEW w \in Workers, RecordFailure(w)
  PROVE  Rest'
<1> DEFINE c == task[w]
<1>1. c \in Calls /\ TypeOK
  BY DEF IInv, TypeOK, BusyHoldsJob, RecordFailure
<1>2. /\ pc' = [pc EXCEPT ![w] = "idle"] /\ task' = [task EXCEPT ![w] = NoCall]
      /\ saw' = saw \ {w}
      /\ UNCHANGED <<attempts, mode, recording, uploading, evaluations, predicted, written, billed>>
  BY DEF RecordFailure, BackToLoop, evidenceVars
<1>3. /\ status' \in [Calls -> Statuses]
      /\ \A k \in Calls : k # c => status'[k] = status[k]
      /\ status'[c] = IF attempts[c] >= MaxAttempts THEN "failed" ELSE "pending"
  BY <1>1 DEF RecordFailure, TypeOK, Statuses
<1> HIDE DEF c
<1>4. BusyHoldsJob' /\ UnopenedIsBlank' /\ SeenRecordingStays'
  <2>1. BusyHoldsJob'
    BY <1>1, <1>2, <1>3 DEF IInv, BusyHoldsJob, TypeOK, c
  <2>2. status[c] # "none"
    BY <1>1 DEF IInv, BusyHoldsJob, c
  <2>3. UnopenedIsBlank'
    BY <1>1, <1>2, <1>3, <2>2 DEF IInv, UnopenedIsBlank
  <2>4. SeenRecordingStays'
    BY <1>1, <1>2 DEF IInv, SeenRecordingStays, TypeOK
  <2> QED
    BY <2>1, <2>3, <2>4
<1>5. EvidenceAtMostOnce' /\ EvidenceIsWhole'
  BY <1>2 DEF IInv, EvidenceAtMostOnce, EvidenceIsWhole
<1>6. SucceededHasEvidence'
  BY <1>1, <1>2, <1>3 DEF IInv, SucceededHasEvidence
<1>7. OneRecordingKeyHolder'
  <2>1. ASSUME NEW k \in Calls PROVE ~HoldsRecordingKey(w, k)'
    BY <1>1, <1>2 DEF HoldsRecordingKey, TypeOK
  <2>2. ASSUME NEW v \in Workers \ {w}, NEW k \in Calls
        PROVE HoldsRecordingKey(v, k)' <=> HoldsRecordingKey(v, k)
    BY <1>1, <1>2 DEF HoldsRecordingKey, TypeOK
  <2> QED
    BY <1>2, <2>1, <2>2 DEF IInv, OneRecordingKeyHolder
<1>8. GivenUpOnlyWhenExhausted'
  <2> SUFFICES ASSUME NEW k \in Calls, status'[k] = "failed"
               PROVE attempts[k] = MaxAttempts
    BY <1>2 DEF GivenUpOnlyWhenExhausted
  <2>1. CASE k # c
    BY <1>3, <2>1 DEF IInv, GivenUpOnlyWhenExhausted
  <2>2. CASE k = c
    BY <1>1, <1>3, <2>2 DEF TypeOK
  <2> QED
    BY <2>1, <2>2
<1> QED
  BY <1>4, <1>5, <1>6, <1>7, <1>8 DEF Rest

\* Every action keeps every conjunct.
LEMMA RestInductive == IInv /\ [Next]_vars => Rest'
<1> SUFFICES ASSUME IInv, [Next]_vars PROVE Rest'
  OBVIOUS
<1>0. TypeOK /\ TypeOK'
  BY TypeInductive DEF IInv
<1> USE <1>0 DEF IInv, Rest, TypeOK, jobVars, evidenceVars, workerVars, Modes, Statuses, Steps,
             BusyHoldsJob, UnopenedIsBlank, SeenRecordingStays,
             EvidenceAtMostOnce, EvidenceIsWhole, SucceededHasEvidence,
             OneRecordingKeyHolder, GivenUpOnlyWhenExhausted, HoldsRecordingKey
<1>1. ASSUME NEW c \in Calls, NEW m \in Modes, NEW r \in {"none", "uploading", "uploaded"},
             StartVoiceFinalization(c, m, r)
      PROVE Rest'
  BY <1>1 DEF StartVoiceFinalization, BecomesDue
<1>2. ASSUME NEW c \in Calls, LeaseExpires(c) PROVE Rest'
  BY <1>2 DEF LeaseExpires
<1>3. ASSUME NEW c \in Calls, BackoffElapses(c) PROVE Rest'
  BY <1>3 DEF BackoffElapses, BecomesDue
<1>4. ASSUME NEW w \in Workers, NEW c \in Calls, ClaimRecoverableJob(w, c) PROVE Rest'
  BY <1>4 DEF ClaimRecoverableJob, Recoverable
<1>5. ASSUME NEW w \in Workers, pc[w] # "idle" PROVE task[w] \in Calls
  BY <1>5
<1>6. ASSUME NEW w \in Workers, Finalize(w) PROVE Rest'
  <2>1. CASE AlreadySucceeded(w)
    BY <2>1 DEF AlreadySucceeded, BackToLoop
  <2>2. CASE SkipFinalized(w)
    <3> USE <2>2, <1>5 DEF SkipFinalized, MarkSucceeded, BackToLoop
    <3>1. BusyHoldsJob' /\ UnopenedIsBlank' /\ SeenRecordingStays'
      OBVIOUS
    <3>2. EvidenceAtMostOnce' /\ EvidenceIsWhole' /\ GivenUpOnlyWhenExhausted'
      OBVIOUS
    <3>3. SucceededHasEvidence'
      BY DEF AlreadyFinalized
    <3>4. OneRecordingKeyHolder'
      OBVIOUS
    <3> QED
      BY <3>1, <3>2, <3>3, <3>4
  <2>3. CASE BeginFinalize(w)
    <3> USE <2>3, <1>5 DEF BeginFinalize
    <3>1. BusyHoldsJob' /\ UnopenedIsBlank' /\ SeenRecordingStays'
      OBVIOUS
    <3>2. EvidenceAtMostOnce' /\ EvidenceIsWhole' /\ GivenUpOnlyWhenExhausted'
      OBVIOUS
    <3>3. SucceededHasEvidence'
      OBVIOUS
    <3>4. OneRecordingKeyHolder'
      <4>1. ASSUME NEW c \in Calls PROVE ~HoldsRecordingKey(w, c)'
        <5>1. CASE mode[task[w]] = "local"
          BY <5>1
        <5>2. CASE mode[task[w]] # "local" /\ recording[task[w]] = "none"
          BY <5>2
        <5>3. CASE mode[task[w]] # "local" /\ recording[task[w]] # "none"
          BY <5>3
        <5> QED
          BY <5>1, <5>2, <5>3
      <4>2. ASSUME NEW v \in Workers \ {w}, NEW c \in Calls
            PROVE HoldsRecordingKey(v, c)' <=> HoldsRecordingKey(v, c)
        OBVIOUS
      <4> QED
        BY <4>1, <4>2
    <3> QED
      BY <3>1, <3>2, <3>3, <3>4
  <2>4. CASE EnsureRecording(w)
    BY <2>4 DEF EnsureRecording
  <2>5. CASE Transcribe(w)
    BY <2>5 DEF Transcribe
  <2>6. CASE Analyze(w)
    BY <2>6 DEF Analyze
  <2>7. CASE CommitEvidence(w)
    BY <2>7 DEF CommitEvidence, MarkSucceeded, BackToLoop, KeyConflict
  <2>8. CASE CommitConflict(w)
    BY <2>8 DEF CommitConflict
  <2>9. CASE Raise(w)
    BY <2>9 DEF Raise
  <2>10. CASE RecordFailure(w)
    BY <2>10, RecordFailureKeepsRest
  <2> QED
    BY <1>6, <2>1, <2>2, <2>3, <2>4, <2>5, <2>6, <2>7, <2>8, <2>9, <2>10 DEF Finalize
<1>7. ASSUME NEW w \in Workers, Crash(w) PROVE Rest'
  BY <1>7 DEF Crash, BackToLoop
<1>8. ASSUME NEW f \in Forms, CreateForm(f) PROVE Rest'
  BY <1>8 DEF CreateForm
<1>9. ASSUME NEW c \in Calls, NEW f \in Forms, NEW p \in {"groq", "reviewer"},
             CreateEvaluation(c, f, p)
      PROVE Rest'
  BY <1>9 DEF CreateEvaluation
<1>10. ASSUME NEW c \in Calls, FinishUpload(c) PROVE Rest'
  BY <1>10 DEF FinishUpload
<1>11. CASE UNCHANGED vars
  BY <1>11 DEF vars
<1> QED
  BY <1>1, <1>2, <1>3, <1>4, <1>6, <1>7, <1>8, <1>9, <1>10, <1>11 DEF Next, WorkerStep

-----------------------------------------------------------------------------
(* The safety theorems. *)

\* The initial table is empty, and every conjunct holds of it.
LEMMA InitIInv == Init => IInv
BY DEF Init, IInv, TypeOK, Statuses, Steps, BusyHoldsJob, UnopenedIsBlank, SeenRecordingStays,
       EvidenceAtMostOnce, EvidenceIsWhole, SucceededHasEvidence,
       OneRecordingKeyHolder, HoldsRecordingKey, GivenUpOnlyWhenExhausted

\* The inductive invariant holds in every reachable state.
THEOREM IInvHolds == Spec => []IInv
<1>1. IInv /\ [Next]_vars => IInv'
  BY TypeInductive, RestInductive DEF IInv, Rest
<1> QED
  BY InitIInv, <1>1, PTL DEF Spec

\* Every column of the job table and every worker register keeps its type.
THEOREM TypeCorrect == Spec => []TypeOK
<1>1. IInv => TypeOK
  BY DEF IInv
<1> QED
  BY IInvHolds, <1>1, PTL

\* Any number of workers, crashes and expired locks: at most one set of
\* transcript, assist, prediction and cost rows per call.
THEOREM AtMostOneEvidenceSet == Spec => []EvidenceAtMostOnce
<1>1. IInv => EvidenceAtMostOnce
  BY DEF IInv
<1> QED
  BY IInvHolds, <1>1, PTL

\* A failed or crashed run leaves no part of its evidence behind.
THEOREM EvidenceAllOrNothing == Spec => []EvidenceIsWhole
<1>1. IInv => EvidenceIsWhole
  BY DEF IInv
<1> QED
  BY IInvHolds, <1>1, PTL

\* SUCCEEDED means evidence, or a row that passes for it.
THEOREM SuccessIsJustified == Spec => []SucceededHasEvidence
<1>1. IInv => SucceededHasEvidence
  BY DEF IInv
<1> QED
  BY IInvHolds, <1>1, PTL

\* At most one transaction inserts a call's recording, and only while none is
\* committed.
THEOREM RecordingKeyIsExclusive == Spec => []OneRecordingKeyHolder
<1>1. IInv => OneRecordingKeyHolder
  BY DEF IInv
<1> QED
  BY IInvHolds, <1>1, PTL

-----------------------------------------------------------------------------
(* One worker process implements OneShotFinalization. *)

\* With one worker nobody else touches the row of a job in flight, so an open
\* or given-up job has no evidence.
Solo ==
    /\ \A w \in Workers : task[w] # NoCall => status[task[w]] = "running"
    /\ \A c \in Calls : c \in predicted => status[c] = "succeeded"

\* The worker owns the row of the job it holds.
LEMMA SoloInductive ==
  ASSUME NEW w \in Workers, Workers = {w}, IInv, Solo, [Next]_vars
  PROVE  Solo'
<1> USE DEF IInv, TypeOK, BusyHoldsJob, Solo, jobVars, evidenceVars, workerVars
<1>1. ASSUME NEW c \in Calls, NEW m \in Modes, NEW r \in {"none", "uploading", "uploaded"},
             StartVoiceFinalization(c, m, r)
      PROVE Solo'
  BY <1>1 DEF StartVoiceFinalization, UnopenedIsBlank
<1>2. ASSUME NEW c \in Calls, LeaseExpires(c) \/ BackoffElapses(c) PROVE Solo'
  BY <1>2 DEF LeaseExpires, BackoffElapses
<1>3. ASSUME NEW c \in Calls, ClaimRecoverableJob(w, c) PROVE Solo'
  BY <1>3 DEF ClaimRecoverableJob, Recoverable
<1>4. ASSUME Finalize(w) PROVE Solo'
  <2>1. CASE AlreadySucceeded(w) \/ SkipFinalized(w)
    BY <2>1 DEF AlreadySucceeded, SkipFinalized, MarkSucceeded, BackToLoop
  <2>2. CASE BeginFinalize(w) \/ EnsureRecording(w) \/ Transcribe(w) \/ Analyze(w)
    BY <2>2 DEF BeginFinalize, EnsureRecording, Transcribe, Analyze
  <2>3. CASE CommitEvidence(w)
    BY <2>3 DEF CommitEvidence, MarkSucceeded, BackToLoop
  <2>4. CASE CommitConflict(w) \/ Raise(w)
    BY <2>4 DEF CommitConflict, Raise
  <2>5. CASE RecordFailure(w)
    BY <2>5 DEF RecordFailure, BackToLoop
  <2> QED
    BY <1>4, <2>1, <2>2, <2>3, <2>4, <2>5 DEF Finalize
<1>5. CASE Crash(w)
  BY <1>5 DEF Crash, BackToLoop
<1>6. ASSUME NEW f \in Forms, CreateForm(f) PROVE Solo'
  BY <1>6 DEF CreateForm
<1>7. ASSUME NEW c \in Calls, NEW f \in Forms, NEW p \in {"groq", "reviewer"},
             CreateEvaluation(c, f, p)
      PROVE Solo'
  BY <1>7 DEF CreateEvaluation
<1>8. ASSUME NEW c \in Calls, FinishUpload(c) PROVE Solo'
  BY <1>8 DEF FinishUpload
<1>9. CASE UNCHANGED vars
  BY <1>9 DEF vars
<1> QED
  BY <1>1, <1>2, <1>3, <1>4, <1>5, <1>6, <1>7, <1>8, <1>9 DEF Next, WorkerStep

\* A step that changes neither column maps to a stutter.
LEMMA StutterRefines == UNCHANGED <<status, predicted>> => UNCHANGED OneShot!vars
BY DEF Verdict, OneShot!vars

\* Every step of the job table is a step of the abstract verdict or leaves it.
LEMMA StepRefines ==
  ASSUME NEW w \in Workers, Workers = {w}, IInv, Solo, [Next]_vars
  PROVE  [OneShot!Next]_(OneShot!vars)
<1> USE DEF IInv, TypeOK, BusyHoldsJob, Solo, jobVars, evidenceVars
<1>1. ASSUME NEW c \in Calls, NEW m \in Modes, NEW r \in {"none", "uploading", "uploaded"},
             StartVoiceFinalization(c, m, r)
      PROVE OneShot!Open(c)
  BY <1>1 DEF StartVoiceFinalization, OneShot!Open, Verdict
<1>2. ASSUME NEW c \in Calls, LeaseExpires(c) \/ BackoffElapses(c)
      PROVE UNCHANGED OneShot!vars
  BY <1>2, StutterRefines DEF LeaseExpires, BackoffElapses
<1>3. ASSUME NEW c \in Calls, ClaimRecoverableJob(w, c) PROVE UNCHANGED OneShot!vars
  BY <1>3 DEF ClaimRecoverableJob, Recoverable, Verdict, OneShot!vars
<1>4. ASSUME Finalize(w) PROVE [OneShot!Next]_(OneShot!vars)
  <2>1. CASE AlreadySucceeded(w)
    BY <2>1, StutterRefines DEF AlreadySucceeded
  <2>2. CASE SkipFinalized(w)
    <3>1. task[w] \in Calls /\ OneShot!Waive(task[w])
      BY <2>2 DEF SkipFinalized, MarkSucceeded, OneShot!Waive, Verdict
    <3> QED
      BY <3>1 DEF OneShot!Next
  <2>3. CASE BeginFinalize(w) \/ EnsureRecording(w) \/ Transcribe(w) \/ Analyze(w)
    <3>1. UNCHANGED <<status, predicted>>
      BY <2>3 DEF BeginFinalize, EnsureRecording, Transcribe, Analyze
    <3> QED
      BY <3>1, StutterRefines
  <2>4. CASE CommitEvidence(w)
    <3>1. task[w] \in Calls /\ OneShot!Publish(task[w])
      BY <2>4 DEF CommitEvidence, MarkSucceeded, OneShot!Publish, Verdict
    <3> QED
      BY <3>1 DEF OneShot!Next
  <2>5. CASE CommitConflict(w) \/ Raise(w)
    <3>1. UNCHANGED <<status, predicted>>
      BY <2>5 DEF CommitConflict, Raise
    <3> QED
      BY <3>1, StutterRefines
  <2>6. CASE RecordFailure(w)
    <3>1. task[w] \in Calls /\ status[task[w]] = "running" /\ UNCHANGED predicted
      BY <2>6 DEF RecordFailure
    <3>2. CASE attempts[task[w]] >= MaxAttempts
      <4>1. status' = [status EXCEPT ![task[w]] = "failed"]
        BY <2>6, <3>2 DEF RecordFailure
      <4>2. OneShot!GiveUp(task[w])
        BY <3>1, <4>1 DEF OneShot!GiveUp, Verdict
      <4> QED
        BY <3>1, <4>2 DEF OneShot!Next
    <3>3. CASE ~(attempts[task[w]] >= MaxAttempts)
      <4>1. status' = [status EXCEPT ![task[w]] = "pending"]
        BY <2>6, <3>3 DEF RecordFailure
      <4>2. UNCHANGED OneShot!vars
        BY <3>1, <4>1 DEF Verdict, OneShot!vars
      <4> QED
        BY <4>2
    <3> QED
      BY <3>2, <3>3
  <2> QED
    BY <1>4, <2>1, <2>2, <2>3, <2>4, <2>5, <2>6 DEF Finalize
<1>5. CASE Crash(w)
  BY <1>5, StutterRefines DEF Crash
<1>6. ASSUME NEW f \in Forms, CreateForm(f) PROVE UNCHANGED OneShot!vars
  BY <1>6, StutterRefines DEF CreateForm
<1>7. ASSUME NEW c \in Calls, NEW f \in Forms, NEW p \in {"groq", "reviewer"},
             CreateEvaluation(c, f, p)
      PROVE UNCHANGED OneShot!vars
  BY <1>7, StutterRefines DEF CreateEvaluation
<1>8. ASSUME NEW c \in Calls, FinishUpload(c) PROVE UNCHANGED OneShot!vars
  BY <1>8, StutterRefines DEF FinishUpload
<1>9. CASE UNCHANGED vars
  BY <1>9, StutterRefines DEF vars
<1> QED
  BY <1>1, <1>2, <1>3, <1>4, <1>5, <1>6, <1>7, <1>8, <1>9 DEF Next, WorkerStep, OneShot!Next

\* The deployed system, one platform-worker, implements the one-shot promise.
THEOREM OneWorkerIsOneShot ==
  ASSUME NEW w, Workers = {w}
  PROVE  Spec => OneShotSpec
<1> w \in Workers
  OBVIOUS
<1>1. Init => Solo /\ OneShot!Init
  BY DEF Init, Solo, OneShot!Init, Verdict
<1>2. IInv /\ Solo /\ [Next]_vars => Solo' /\ [OneShot!Next]_(OneShot!vars)
  BY SoloInductive, StepRefines
<1> QED
  BY <1>1, <1>2, IInvHolds, PTL DEF Spec, OneShotSpec, OneShot!Spec
=============================================================================
