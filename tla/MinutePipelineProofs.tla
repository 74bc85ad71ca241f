------------------------ MODULE MinutePipelineProofs ------------------------
(***************************************************************************)
(* For every number of transactions, attempts and mishaps: the record, its *)
(* transactions and the v0 rows agree in every reachable state, and without*)
(* infrastructure failures no transaction is abandoned.                    *)
(***************************************************************************)
EXTENDS MinutePipeline, TLAPS

\* The table offers content only to a record that has some, and never in-progress.
LEMMA TableFacts ==
    ASSUME NEW s \in Statuses, NEW target \in VALID_TRANSITIONS[s]
    PROVE  /\ target \in Statuses
           /\ target # "in-progress"
           /\ target \in WithContent => s \in WithContent
  BY DEF VALID_TRANSITIONS, Statuses, Failures, Editable, WithContent, Terminal

-----------------------------------------------------------------------------
(* Types                                                                   *)

LEMMA InitType == Init => TypeOK
<1> SUFFICES ASSUME Init PROVE TypeOK
  OBVIOUS
<1>1. [pc |-> "absent", attempt |-> 1] \in Job
  BY PipelineAssumption DEF Job, Places, Attempts
<1>2. job \in [Txs -> Job]
  BY <1>1 DEF Init
<1>3. latest \in 0..MaxTxs /\ mishaps \in 0..MaxMishaps
  BY PipelineAssumption DEF Init
<1> QED BY <1>2, <1>3 DEF Init, TypeOK

\* A job put at a known place is a job.
LEMMA MoveJobType ==
    ASSUME job \in [Txs -> Job], NEW t \in Txs, NEW pc \in Places, MoveJob(t, pc)
    PROVE  job' \in [Txs -> Job]
  BY DEF MoveJob, Job

LEMMA SendType ==
    ASSUME inbox \subseteq Request, job \in [Txs -> Job], NEW t \in Txs,
           NEW kind \in {"commit", "fail"}, NEW failure \in Failures,
           Send(kind, t, failure)
    PROVE  inbox' \subseteq Request
  BY DEF Send, Request, Job, Stages

LEMMA AdvanceType ==
    ASSUME inbox \subseteq Request, NEW r \in inbox, NEW stage \in Stages, Advance(r, stage)
    PROVE  inbox' \subseteq Request
  BY DEF Advance, Request

LEMMA PublishType ==
    ASSUME events \in [Txs -> SUBSET {"completed", "failed"}], NEW t \in Txs,
           NEW e \in {"completed", "failed"}, PublishEvent(t, e)
    PROVE  events' \in [Txs -> SUBSET {"completed", "failed"}]
  BY DEF PublishEvent

LEMMA PlacesFacts ==
    /\ {"absent", "queued", "running", "backoff", "committing", "closing", "exhausting",
        "done", "dead", "lost"} \subseteq Places
    /\ Waiting \subseteq Places
  BY DEF Places, Waiting, Ended

LEMMA AfterRaiseType == ASSUME NEW t PROVE AfterRaise(t) \in Places
  BY PlacesFacts DEF AfterRaise

LEMMA AnnounceType ==
    ASSUME events \in [Txs -> SUBSET {"completed", "failed"}], NEW t \in Txs,
           AnnounceUnreported(t)
    PROVE  events' \in [Txs -> SUBSET {"completed", "failed"}]
  BY PublishType DEF AnnounceUnreported

LEMMA MishapType == ASSUME mishaps \in 0..MaxMishaps, Mishap PROVE mishaps' \in 0..MaxMishaps
  BY PipelineAssumption DEF Mishap

LEMMA UnansweredType ==
    ASSUME job \in [Txs -> Job], events \in [Txs -> SUBSET {"completed", "failed"}],
           NEW t \in Txs, job[t].pc \in Waiting, GoesUnanswered(t)
    PROVE  /\ job' \in [Txs -> Job]
           /\ events' \in [Txs -> SUBSET {"completed", "failed"}]
<1>1. PICK pc \in Places : MoveJob(t, pc)
  <2>1. CASE job[t].pc = "committing"
    BY <2>1, AfterRaiseType DEF GoesUnanswered
  <2>2. CASE job[t].pc = "closing"
    BY <2>2, PlacesFacts DEF GoesUnanswered
  <2>3. CASE job[t].pc = "exhausting"
    BY <2>3, PlacesFacts DEF GoesUnanswered
  <2> QED BY <2>1, <2>2, <2>3 DEF Waiting
<1>2. job' \in [Txs -> Job]
  BY <1>1, MoveJobType
<1>3. events' \in [Txs -> SUBSET {"completed", "failed"}]
  BY AnnounceType DEF GoesUnanswered
<1> QED BY <1>2, <1>3

\* The effect of _mark_failed on the types.
LEMMA MarkFailedType ==
    ASSUME tx \in [Txs -> {"none", "processing", "completed", "failed"}],
           NEW t \in Txs, NEW failure \in Failures, MarkFailed(t, failure)
    PROVE  /\ tx' \in [Txs -> {"none", "processing", "completed", "failed"}]
           /\ status' \in Statuses
           /\ status' # "in-progress"
           /\ status' \notin WithContent
  BY DEF MarkFailed, Failures, Statuses, WithContent, Editable

\* What the backend reads from a request names a transaction and an output.
LEMMA RequestFacts ==
    ASSUME inbox \subseteq Request, NEW r \in inbox
    PROVE  r.tx \in Txs /\ OutputOf(r) \in Output /\ r.failure \in Failures
  BY DEF Request, OutputOf, Output

LEMMA FailureFacts == "llm-failed" \in Failures /\ "processing-error" \in Failures
  BY DEF Failures

\* A job backs off only before its last attempt: without this, a retry would leave
\* the range of the attempts.
BackoffHasAttempts == \A t \in Txs : job[t].pc = "backoff" => ~ Exhausted(t)

LEMMA TypeStep == TypeOK /\ BackoffHasAttempts /\ [Next]_vars => TypeOK'
<1> SUFFICES ASSUME TypeOK, BackoffHasAttempts, [Next]_vars PROVE TypeOK'
  OBVIOUS
<1> USE DEF TypeOK
<1>1. CASE Generate
  BY <1>1, PipelineAssumption DEF Generate, Txs, Statuses, snapshotVars
<1>2. CASE Reprocess
  BY <1>2, PipelineAssumption DEF Reprocess, Txs, Statuses, snapshotVars
<1>3. ASSUME NEW target \in Statuses, Transition(target) PROVE TypeOK'
  BY <1>3 DEF Transition, snapshotVars
<1>4. ASSUME NEW t \in Txs, EnqueueOk(t) PROVE TypeOK'
  <2>1. job' \in [Txs -> Job]
    BY <1>4, MoveJobType, PlacesFacts DEF EnqueueOk
  <2> QED BY <1>4, <2>1 DEF EnqueueOk, recordVars, snapshotVars
<1>5. ASSUME NEW t \in Txs, EnqueueError(t) PROVE TypeOK'
  <2>1. job' \in [Txs -> Job]
    BY <1>5, MoveJobType, PlacesFacts DEF EnqueueError
  <2>2. mishaps' \in 0..MaxMishaps
    BY <1>5, MishapType DEF EnqueueError
  <2>3. status' \in Statuses \cup {"none"} /\ tx' \in [Txs -> {"none", "processing", "completed", "failed"}]
    BY <1>5 DEF EnqueueError, Statuses, Failures
  <2> QED BY <1>5, <2>1, <2>2, <2>3 DEF EnqueueError, snapshotVars
<1>6. ASSUME NEW t \in Txs, Age(t) PROVE TypeOK'
  BY <1>6 DEF Age, recordVars, snapshotVars
<1>7. ASSUME NEW t \in Txs, WorkerStep(t) PROVE TypeOK'
  <2>1. CASE PopJob(t)
    <3>1. job' \in [Txs -> Job]
      BY <2>1, MoveJobType, PlacesFacts DEF PopJob
    <3> QED BY <2>1, <3>1 DEF PopJob, recordVars, snapshotVars
  <2>2. CASE AiSucceeds(t)
    <3>1. job' \in [Txs -> Job] /\ inbox' \subseteq Request
      BY <2>2, MoveJobType, SendType, PlacesFacts DEF AiSucceeds, Failures
    <3> QED BY <2>2, <3>1 DEF AiSucceeds, recordVars, snapshotVars
  <2>3. ASSUME NEW failure \in Failures, AiTerminalError(t, failure) PROVE TypeOK'
    <3>1. job' \in [Txs -> Job] /\ inbox' \subseteq Request
      BY <2>3, MoveJobType, SendType, PlacesFacts DEF AiTerminalError
    <3> QED BY <2>3, <3>1 DEF AiTerminalError, recordVars, snapshotVars
  <2>4. CASE AiError(t)
    <3>1. job' \in [Txs -> Job] /\ inbox' \subseteq Request
      BY <2>4, MoveJobType, SendType, PlacesFacts DEF AiError, Failures
    <3> QED BY <2>4, <3>1 DEF AiError, recordVars, snapshotVars
  <2>5. CASE Retry(t)
    <3>1. job[t].attempt + 1 \in Attempts
      BY <2>5, PipelineAssumption DEF Retry, BackoffHasAttempts, Exhausted, Job, Attempts
    <3>2. [pc |-> "queued", attempt |-> job[t].attempt + 1] \in Job
      BY <3>1, PlacesFacts DEF Job
    <3>3. job' \in [Txs -> Job]
      BY <2>5, <3>2 DEF Retry
    <3> QED BY <2>5, <3>3 DEF Retry, recordVars, snapshotVars
  <2>6. CASE ConnectionLost(t)
    BY <2>6, UnansweredType DEF ConnectionLost, recordVars, snapshotVars
  <2> QED BY <1>7, <2>1, <2>2, <2>3, <2>4, <2>5, <2>6 DEF WorkerStep, AiStep
<1>8. ASSUME NEW t \in Txs,
             ProviderUnreachable(t) \/ HandlerRedisError(t) \/ DropJob(t) \/ Timeout(t)
      PROVE  TypeOK'
  <2>1. CASE ProviderUnreachable(t)
    <3>1. job' \in [Txs -> Job] /\ events' \in [Txs -> SUBSET {"completed", "failed"}]
      BY <2>1, MoveJobType, AfterRaiseType, AnnounceType DEF ProviderUnreachable
    <3> QED BY <2>1, <3>1, MishapType DEF ProviderUnreachable, recordVars, snapshotVars
  <2>2. CASE HandlerRedisError(t)
    <3>1. job' \in [Txs -> Job]
      BY <2>2, MoveJobType, AfterRaiseType DEF HandlerRedisError
    <3> QED BY <2>2, <3>1, MishapType DEF HandlerRedisError, recordVars, snapshotVars
  <2>4. CASE DropJob(t)
    <3>1. job' \in [Txs -> Job]
      BY <2>4, MoveJobType, PlacesFacts DEF DropJob
    <3> QED BY <2>4, <3>1, MishapType DEF DropJob, recordVars, snapshotVars
  <2>3. CASE Timeout(t)
    <3>1. job[t].pc \in Waiting
      BY <2>3 DEF Timeout, Awaits
    <3> QED BY <2>3, <3>1, UnansweredType, MishapType DEF Timeout, recordVars, snapshotVars
  <2> QED BY <1>8, <2>1, <2>2, <2>3, <2>4
<1>9. CASE WorkerCrash
  <2>1. job' \in [Txs -> Job]
    BY <1>9, PlacesFacts DEF WorkerCrash, Job
  <2> QED BY <1>9, <2>1, MishapType DEF WorkerCrash, recordVars, snapshotVars
<1>10. CASE BackendCrash
  <2>1. caller' \in [Txs -> {"none", "enqueueing", "returned"}]
    BY <1>10 DEF BackendCrash
  <2> QED BY <1>10, <2>1, MishapType DEF BackendCrash, recordVars, snapshotVars
<1>11. ASSUME NEW r \in inbox, Commit(r) PROVE TypeOK'
  <2>1. inbox' \subseteq Request
    BY <1>11, AdvanceType DEF Commit, Stages
  <2>2. r.tx \in Txs /\ OutputOf(r) \in Output
    BY RequestFacts
  <2> QED BY <1>11, <2>1, <2>2 DEF Commit, Statuses, WithContent, Editable
<1>12. ASSUME NEW r \in inbox, CommitDuplicate(r) PROVE TypeOK'
  <2>1. inbox' \subseteq Request
    BY <1>12, AdvanceType DEF CommitDuplicate, Stages
  <2>2. r.tx \in Txs /\ OutputOf(r) \in Output
    BY RequestFacts
  <2> QED BY <1>12, <2>1, <2>2, MarkFailedType, FailureFacts DEF CommitDuplicate
<1>13. ASSUME NEW r \in inbox, MailError(r) PROVE TypeOK'
  <2>1. inbox' \subseteq Request
    BY <1>13, AdvanceType DEF MailError, Stages
  <2>2. r.tx \in Txs
    BY RequestFacts
  <2> QED BY <1>13, <2>1, <2>2, MarkFailedType, FailureFacts, MishapType
          DEF MailError, snapshotVars
<1>14. ASSUME NEW r \in inbox, CommitStorageError(r) PROVE TypeOK'
  <2>1. inbox' \subseteq Request
    BY <1>14, AdvanceType DEF CommitStorageError, Stages
  <2>2. r.tx \in Txs /\ OutputOf(r) \in Output
    BY RequestFacts
  <2>3. /\ tx' \in [Txs -> {"none", "processing", "completed", "failed"}]
        /\ status' \in Statuses \cup {"none"}
    BY <1>14, <2>2, MarkFailedType, FailureFacts DEF CommitStorageError
  <2> QED BY <1>14, <2>1, <2>2, <2>3, MishapType DEF CommitStorageError
<1>15. ASSUME NEW r \in inbox, CommitRefused(r) PROVE TypeOK'
  <2>1. r.tx \in Txs
    BY RequestFacts
  <2>2. [r EXCEPT !.kind = "fail", !.failure = "processing-error"] \in Request
    BY FailureFacts DEF Request
  <2>3. inbox' \subseteq Request
    BY <1>15, <2>2 DEF CommitRefused
  <2>4. job' \in [Txs -> Job]
    BY <1>15, <2>1, MoveJobType, PlacesFacts DEF CommitRefused
  <2> QED BY <1>15, <2>3, <2>4 DEF CommitRefused, recordVars, snapshotVars
<1>16. ASSUME NEW r \in inbox, RecordFailure(r) PROVE TypeOK'
  <2>1. inbox' \subseteq Request
    BY <1>16, AdvanceType DEF RecordFailure, Stages
  <2> QED BY <1>16, <2>1, RequestFacts, MarkFailedType DEF RecordFailure, snapshotVars
<1>17. ASSUME NEW r \in inbox, RecordFailureSwallowed(r) PROVE TypeOK'
  <2>1. inbox' \subseteq Request
    BY <1>17, AdvanceType DEF RecordFailureSwallowed, Stages
  <2> QED BY <1>17, <2>1, MishapType DEF RecordFailureSwallowed, recordVars, snapshotVars
<1>18. ASSUME NEW r \in inbox, Answer(r) PROVE TypeOK'
  <2>1. r.tx \in Txs
    BY RequestFacts
  <2>2. events' \in [Txs -> SUBSET {"completed", "failed"}]
    BY <1>18, <2>1, PublishType DEF Answer
  <2>3. job' \in [Txs -> Job]
    BY <1>18, <2>1, MoveJobType, AfterRaiseType, PlacesFacts DEF Answer
  <2>4. inbox' \subseteq Request
    BY <1>18 DEF Answer
  <2> QED BY <1>18, <2>2, <2>3, <2>4 DEF Answer, recordVars, snapshotVars
<1>19. ASSUME NEW r \in inbox, LoseRequest(r) PROVE TypeOK'
  BY <1>19, MishapType DEF LoseRequest, recordVars, snapshotVars
<1>20. CASE UNCHANGED vars
  BY <1>20 DEF vars, snapshotVars
<1> QED
  BY <1>1, <1>2, <1>3, <1>4, <1>5, <1>6, <1>7, <1>8, <1>9, <1>10, <1>11, <1>12, <1>13,
     <1>14, <1>15, <1>16, <1>17, <1>18, <1>19, <1>20
     DEF Next, UserStep, EnqueueStep, BackendStep, Adversity

-----------------------------------------------------------------------------
(* Retries                                                                 *)

\* A job that moves without entering backoff on its last attempt.
LEMMA MoveJobBackoff ==
    ASSUME TypeOK, BackoffHasAttempts, NEW t \in Txs, NEW pc, MoveJob(t, pc),
           pc = "backoff" => ~ Exhausted(t)
    PROVE  BackoffHasAttempts'
  BY DEF TypeOK, BackoffHasAttempts, MoveJob, Exhausted, Job

LEMMA AfterRaiseBackoff ==
    ASSUME NEW t PROVE AfterRaise(t) = "backoff" => ~ Exhausted(t)
  BY DEF AfterRaise

LEMMA UnansweredBackoff ==
    ASSUME TypeOK, BackoffHasAttempts, NEW t \in Txs, job[t].pc \in Waiting,
           GoesUnanswered(t)
    PROVE  BackoffHasAttempts'
<1>1. CASE job[t].pc = "committing"
  BY <1>1, MoveJobBackoff, AfterRaiseBackoff DEF GoesUnanswered
<1>2. CASE job[t].pc = "closing"
  BY <1>2, MoveJobBackoff DEF GoesUnanswered
<1>3. CASE job[t].pc = "exhausting"
  BY <1>3, MoveJobBackoff DEF GoesUnanswered
<1> QED BY <1>1, <1>2, <1>3 DEF Waiting

LEMMA BackoffStep == TypeOK /\ BackoffHasAttempts /\ [Next]_vars => BackoffHasAttempts'
<1> SUFFICES ASSUME TypeOK, BackoffHasAttempts, [Next]_vars PROVE BackoffHasAttempts'
  OBVIOUS
<1>1. CASE UNCHANGED job
  BY <1>1 DEF BackoffHasAttempts, Exhausted
<1>2. ASSUME NEW t \in Txs, EnqueueStep(t) PROVE BackoffHasAttempts'
  BY <1>1, <1>2, MoveJobBackoff DEF EnqueueStep, EnqueueOk, EnqueueError
<1>3. ASSUME NEW t \in Txs, WorkerStep(t) PROVE BackoffHasAttempts'
  <2>1. CASE PopJob(t)
    BY <2>1, MoveJobBackoff DEF PopJob
  <2>2. CASE AiSucceeds(t)
    BY <2>2, MoveJobBackoff DEF AiSucceeds
  <2>3. ASSUME NEW failure \in Failures, AiTerminalError(t, failure) PROVE BackoffHasAttempts'
    BY <2>3, MoveJobBackoff DEF AiTerminalError
  <2>4. CASE AiError(t)
    BY <2>4, MoveJobBackoff DEF AiError
  <2>5. CASE Retry(t)
    BY <2>5 DEF Retry, TypeOK, BackoffHasAttempts, Exhausted
  <2>6. CASE ConnectionLost(t)
    BY <2>6, UnansweredBackoff DEF ConnectionLost
  <2> QED BY <1>3, <2>1, <2>2, <2>3, <2>4, <2>5, <2>6 DEF WorkerStep, AiStep
<1>4. ASSUME NEW t \in Txs,
             ProviderUnreachable(t) \/ HandlerRedisError(t) \/ DropJob(t) \/ Timeout(t)
      PROVE  BackoffHasAttempts'
  <2>1. CASE ProviderUnreachable(t)
    BY <2>1, MoveJobBackoff, AfterRaiseBackoff DEF ProviderUnreachable
  <2>2. CASE HandlerRedisError(t)
    BY <2>2, MoveJobBackoff, AfterRaiseBackoff DEF HandlerRedisError
  <2>3. CASE DropJob(t)
    BY <2>3, MoveJobBackoff DEF DropJob
  <2>4. CASE Timeout(t)
    BY <2>4, UnansweredBackoff DEF Timeout, Awaits
  <2> QED BY <1>4, <2>1, <2>2, <2>3, <2>4
<1>5. CASE WorkerCrash
  BY <1>5 DEF WorkerCrash, TypeOK, BackoffHasAttempts, Exhausted
<1>6. ASSUME NEW r \in inbox, Answer(r) PROVE BackoffHasAttempts'
  <2>1. r.tx \in Txs
    BY RequestFacts DEF TypeOK
  <2> QED BY <1>1, <1>6, <2>1, MoveJobBackoff, AfterRaiseBackoff DEF Answer
<1>7. ASSUME NEW r \in inbox, CommitRefused(r) PROVE BackoffHasAttempts'
  <2>1. r.tx \in Txs
    BY RequestFacts DEF TypeOK
  <2> QED BY <1>1, <1>7, <2>1, MoveJobBackoff DEF CommitRefused
<1> QED
  BY <1>1, <1>2, <1>3, <1>4, <1>5, <1>6, <1>7
     DEF Next, UserStep, BackendStep, Adversity, vars,
         Generate, Reprocess, Transition, Age, Commit, CommitDuplicate, RecordFailure,
         BackendCrash, MailError, CommitStorageError, RecordFailureSwallowed,
         LoseRequest

\* Every variable keeps its type, whatever the number of transactions and attempts:
\* in particular no retry goes beyond MAX_RETRIES.
THEOREM TypeCorrect == Spec => []TypeOK
<1> DEFINE Inv == TypeOK /\ BackoffHasAttempts
<1>1. Init => Inv
  BY InitType DEF Init, BackoffHasAttempts
<1>2. Inv /\ [Next]_vars => Inv'
  BY TypeStep, BackoffStep
<1> QED BY <1>1, <1>2, PTL DEF Spec

-----------------------------------------------------------------------------
(* The record, its transactions and the v0 rows                            *)

\* The commit a request is about to answer "completed" for is the one that owns the
\* rows: this carries the truth of the event over the await before the publish.
AnswerTruthful == \A r \in inbox : r.stage = "committed" => owner.tx = r.tx

Consistent ==
    /\ InProgressHasLiveTx
    /\ CompletedOwnsSnapshot
    /\ ContentHasSnapshot
    /\ CompletedEventTruthful
    /\ AnswerTruthful

IInv == TypeOK /\ BackoffHasAttempts /\ Consistent

USE DEF Consistent

\* No output owns the rows yet: nothing is completed, announced or open to editors.
LEMMA NoOwnerFacts ==
    ASSUME TypeOK, Consistent, owner = NoOutput
    PROVE  /\ \A t \in Txs : tx[t] # "completed" /\ "completed" \notin events[t]
           /\ \A r \in inbox : r.stage # "committed"
           /\ status \notin WithContent
  BY DEF TypeOK, NoOutput, Txs, CompletedOwnsSnapshot, CompletedEventTruthful,
     AnswerTruthful, ContentHasSnapshot, Request

\* What every step keeps when it leaves the record, the rows and the statuses of the
\* transactions alone, announces no completion and no request becomes committed.
LEMMA QuietStep ==
    ASSUME TypeOK, Consistent, UNCHANGED <<status, tx, latest, owner>>,
           \A t \in Txs : "completed" \in events'[t] => "completed" \in events[t],
           \A r \in inbox' : r.stage = "committed" => r \in inbox
    PROVE  Consistent'
  BY DEF InProgressHasLiveTx, CompletedOwnsSnapshot, ContentHasSnapshot,
     CompletedEventTruthful, AnswerTruthful

\* A failure marked over whatever the record and the transaction were.
LEMMA FailingStep ==
    ASSUME TypeOK, Consistent, NEW t \in Txs, NEW failure \in Failures,
           MarkFailed(t, failure), UNCHANGED <<latest, events, owner>>,
           \A r \in inbox' : r.stage = "committed" => r \in inbox
    PROVE  Consistent'
<1>1. /\ tx' = [tx EXCEPT ![t] = "failed"]
      /\ status' # "in-progress"
      /\ status' \notin WithContent
  BY MarkFailedType DEF MarkFailed, TypeOK
<1>2. InProgressHasLiveTx' /\ ContentHasSnapshot'
  BY <1>1 DEF InProgressHasLiveTx, ContentHasSnapshot
<1>3. CompletedOwnsSnapshot'
  BY <1>1 DEF CompletedOwnsSnapshot, TypeOK
<1>4. CompletedEventTruthful' /\ AnswerTruthful'
  BY DEF CompletedEventTruthful, AnswerTruthful
<1> QED BY <1>2, <1>3, <1>4

\* Advancing a request to a stage other than committed commits no request.
LEMMA AdvanceQuiet ==
    ASSUME inbox \subseteq Request, NEW r \in inbox, NEW stage, stage # "committed",
           Advance(r, stage)
    PROVE  \A q \in inbox' : q.stage = "committed" => q \in inbox
  BY DEF Advance, Request

LEMMA ConsistentStep == TypeOK /\ Consistent /\ [Next]_vars => Consistent'
<1> SUFFICES ASSUME TypeOK, Consistent, [Next]_vars PROVE Consistent'
  OBVIOUS
<1>1. CASE Generate
  <2>1. owner = owner' /\ events' = events /\ inbox' = inbox
    BY <1>1 DEF Generate, snapshotVars
  <2>2. InProgressHasLiveTx' /\ ContentHasSnapshot'
    BY <1>1, PipelineAssumption DEF Generate, InProgressHasLiveTx, ContentHasSnapshot,
       TypeOK, Txs, WithContent, Editable
  <2>3. CompletedOwnsSnapshot'
    BY <1>1, <2>1 DEF Generate, CompletedOwnsSnapshot, TypeOK
  <2> QED BY <2>1, <2>2, <2>3 DEF CompletedEventTruthful, AnswerTruthful
<1>2. CASE Reprocess
  <2>1. owner = owner' /\ events' = events /\ inbox' = inbox
    BY <1>2 DEF Reprocess, snapshotVars
  <2>2. latest + 1 \in Txs
    BY <1>2, PipelineAssumption DEF Reprocess, TypeOK, Txs
  <2>3. tx'[latest'] = "processing"
    BY <1>2, <2>2 DEF Reprocess
  <2>4. \A t \in Txs : tx'[t] = "completed" => tx[t] = "completed"
    BY <1>2 DEF Reprocess
  <2>5. InProgressHasLiveTx' /\ ContentHasSnapshot'
    BY <1>2, <2>3 DEF Reprocess, InProgressHasLiveTx, ContentHasSnapshot, WithContent,
       Editable
  <2>6. CompletedOwnsSnapshot'
    BY <2>1, <2>4 DEF CompletedOwnsSnapshot
  <2> QED BY <2>1, <2>5, <2>6 DEF CompletedEventTruthful, AnswerTruthful
<1>3. ASSUME NEW target \in Statuses, Transition(target) PROVE Consistent'
  <2>1. UNCHANGED <<latest, tx, owner, events, inbox>>
    BY <1>3 DEF Transition, snapshotVars
  <2>2. /\ status' # "in-progress"
        /\ status' \in WithContent => status \in WithContent
    BY <1>3, TableFacts DEF Transition
  <2>3. InProgressHasLiveTx' /\ ContentHasSnapshot'
    BY <2>1, <2>2 DEF InProgressHasLiveTx, ContentHasSnapshot
  <2> QED BY <2>1, <2>3 DEF CompletedOwnsSnapshot, CompletedEventTruthful, AnswerTruthful
<1>4. ASSUME NEW t \in Txs, EnqueueStep(t) \/ Age(t) PROVE Consistent'
  <2>1. CASE UNCHANGED <<status, tx>>
    <3>1. UNCHANGED <<status, tx, latest, owner, events, inbox>>
      BY <1>4, <2>1 DEF EnqueueStep, EnqueueOk, EnqueueError, Age, recordVars, snapshotVars
    <3> QED BY <3>1, QuietStep
  <2>2. CASE ~ UNCHANGED <<status, tx>>
    <3>1. /\ MarkFailed(t, "processing-error")
          /\ UNCHANGED <<latest, owner, events, inbox>>
      BY <1>4, <2>2 DEF EnqueueStep, EnqueueOk, EnqueueError, Age, recordVars,
         snapshotVars, MarkFailed
    <3> QED BY <3>1, FailingStep, FailureFacts
  <2> QED BY <2>1, <2>2
<1>5. ASSUME NEW t \in Txs, WorkerStep(t) PROVE Consistent'
  <2>1. UNCHANGED <<status, tx, latest, owner>>
    BY <1>5 DEF WorkerStep, AiStep, PopJob, AiSucceeds, AiTerminalError, AiError, Retry,
       ConnectionLost, recordVars, snapshotVars
  <2>2. \A q \in inbox' : q.stage = "committed" => q \in inbox
    BY <1>5 DEF WorkerStep, AiStep, PopJob, AiSucceeds, AiTerminalError, AiError, Retry,
       ConnectionLost, Send
  <2>3. events' = events \/ events' = [events EXCEPT ![t] = @ \cup {"failed"}]
    BY <1>5 DEF WorkerStep, AiStep, PopJob, AiSucceeds, AiTerminalError, AiError, Retry,
       ConnectionLost, GoesUnanswered, AnnounceUnreported, PublishEvent
  <2>4. \A u \in Txs : "completed" \in events'[u] => "completed" \in events[u]
    BY <2>3 DEF TypeOK
  <2> QED BY <2>1, <2>2, <2>4, QuietStep
<1>6. ASSUME NEW t \in Txs,
             ProviderUnreachable(t) \/ HandlerRedisError(t) \/ DropJob(t) \/ Timeout(t)
      PROVE  Consistent'
  <2>1. UNCHANGED <<status, tx, latest, owner, inbox>>
    BY <1>6 DEF ProviderUnreachable, HandlerRedisError, DropJob, Timeout, recordVars, snapshotVars
  <2>2. events' = events \/ events' = [events EXCEPT ![t] = @ \cup {"failed"}]
    BY <1>6 DEF ProviderUnreachable, HandlerRedisError, DropJob, Timeout, GoesUnanswered,
       AnnounceUnreported, PublishEvent
  <2>3. \A u \in Txs : "completed" \in events'[u] => "completed" \in events[u]
    BY <2>2 DEF TypeOK
  <2> QED BY <2>1, <2>3, QuietStep
<1>7. CASE WorkerCrash \/ BackendCrash
  BY <1>7, QuietStep DEF WorkerCrash, BackendCrash, recordVars, snapshotVars
<1>8. ASSUME NEW r \in inbox, Commit(r) PROVE Consistent'
  <2>1. /\ owner'.tx = r.tx
        /\ owner' # NoOutput
        /\ tx' = [tx EXCEPT ![r.tx] = "completed"]
        /\ status' = "ready-for-edit"
        /\ events' = events
        /\ owner = NoOutput
    BY <1>8 DEF Commit, OutputOf, NoOutput, TypeOK, Request, Txs
  <2>2. CompletedOwnsSnapshot'
    BY <2>1, NoOwnerFacts DEF CompletedOwnsSnapshot, TypeOK
  <2>3. CompletedEventTruthful'
    BY <2>1, NoOwnerFacts DEF CompletedEventTruthful
  <2>4. AnswerTruthful'
    BY <1>8, <2>1, NoOwnerFacts DEF Commit, Advance, AnswerTruthful, TypeOK, Request
  <2> QED BY <2>1, <2>2, <2>3, <2>4 DEF InProgressHasLiveTx, ContentHasSnapshot
<1>9. ASSUME NEW r \in inbox, CommitDuplicate(r) \/ MailError(r)
      PROVE  Consistent'
  <2>1. /\ MarkFailed(r.tx, "llm-failed")
        /\ Advance(r, "rejected")
        /\ UNCHANGED <<latest, events>>
        /\ owner' = owner
    BY <1>9 DEF CommitDuplicate, MailError, snapshotVars
  <2> QED BY <2>1, FailingStep, AdvanceQuiet, RequestFacts, FailureFacts DEF TypeOK
<1>10. ASSUME NEW r \in inbox, CommitStorageError(r) PROVE Consistent'
  <2>1. \A q \in inbox' : q.stage = "committed" => q \in inbox
    BY <1>10, AdvanceQuiet DEF CommitStorageError, TypeOK
  <2>2. CASE MarkFailed(r.tx, "llm-failed")
    BY <1>10, <2>1, <2>2, FailingStep, RequestFacts, FailureFacts
       DEF CommitStorageError, TypeOK
  <2>3. CASE UNCHANGED <<tx, status>>
    BY <1>10, <2>1, <2>3, QuietStep DEF CommitStorageError
  <2> QED BY <1>10, <2>2, <2>3 DEF CommitStorageError
<1>11. ASSUME NEW r \in inbox, CommitRefused(r) \/ LoseRequest(r) PROVE Consistent'
  <2> DEFINE report == [r EXCEPT !.kind = "fail", !.failure = "processing-error"]
  <2>0. r.stage = "arrived" /\ report.stage = r.stage
    BY <1>11 DEF CommitRefused, LoseRequest, Arrived, TypeOK, Request
  <2>3. inbox' \subseteq inbox \cup {report}
    BY <1>11 DEF CommitRefused, LoseRequest
  <2> HIDE DEF report
  <2>1. \A q \in inbox' : q.stage = "committed" => q \in inbox
    BY <2>0, <2>3
  <2>2. UNCHANGED <<status, tx, latest, owner, events>>
    BY <1>11 DEF CommitRefused, LoseRequest, recordVars, snapshotVars
  <2> QED BY <2>1, <2>2, QuietStep
<1>12. ASSUME NEW r \in inbox, RecordFailure(r) PROVE Consistent'
  BY <1>12, FailingStep, AdvanceQuiet, RequestFacts DEF RecordFailure, TypeOK, snapshotVars
<1>13. ASSUME NEW r \in inbox, RecordFailureSwallowed(r) PROVE Consistent'
  BY <1>13, QuietStep, AdvanceQuiet
     DEF RecordFailureSwallowed, TypeOK, recordVars, snapshotVars
<1>14. ASSUME NEW r \in inbox, Answer(r) PROVE Consistent'
  <2>1. UNCHANGED <<status, tx, latest, owner>> /\ inbox' \subseteq inbox
    BY <1>14 DEF Answer, recordVars, snapshotVars
  <2>2. \A t \in Txs : "completed" \in events'[t] =>
                         "completed" \in events[t] \/ owner.tx = t
    BY <1>14 DEF Answer, PublishEvent, TypeOK, AnswerTruthful
  <2> QED BY <2>1, <2>2 DEF InProgressHasLiveTx, CompletedOwnsSnapshot,
          ContentHasSnapshot, CompletedEventTruthful, AnswerTruthful
<1>15. CASE UNCHANGED vars
  BY <1>15, QuietStep DEF vars, snapshotVars
<1> QED
  BY <1>1, <1>2, <1>3, <1>4, <1>5, <1>6, <1>7, <1>8, <1>9, <1>10, <1>11, <1>12, <1>13,
     <1>14, <1>15 DEF Next, UserStep, BackendStep, Adversity

LEMMA Inductive == Spec => []IInv
<1>1. Init => IInv
  <2>1. ASSUME Init PROVE Consistent
    BY <2>1 DEF Init, InProgressHasLiveTx, CompletedOwnsSnapshot, ContentHasSnapshot,
       CompletedEventTruthful, AnswerTruthful, WithContent, Editable
  <2>2. ASSUME Init PROVE BackoffHasAttempts
    BY <2>2 DEF Init, BackoffHasAttempts
  <2> QED BY <2>1, <2>2, InitType DEF IInv
<1>2. IInv /\ [Next]_vars => IInv'
  BY TypeStep, BackoffStep, ConsistentStep DEF IInv
<1> QED BY <1>1, <1>2, PTL DEF Spec

\* A record in-progress always has a live latest transaction, the one reprocess reads.
THEOREM InProgressCorrect == Spec => []InProgressHasLiveTx
  BY Inductive, PTL DEF IInv

\* At most one transaction is completed, and v0 is its output.
THEOREM OneCompletion == Spec => []CompletedOwnsSnapshot
  BY Inductive, PTL DEF IInv

\* Editors and readers never meet a record with content whose v0 rows do not exist.
THEOREM ContentBacked == Spec => []ContentHasSnapshot
  BY Inductive, PTL DEF IInv

\* The event "completed" is never published for a transaction that does not own v0.
THEOREM CompletedEventCorrect == Spec => []CompletedEventTruthful
  BY Inductive, PTL DEF IInv

\* No late or repeated commit replaces the rows of version v0.
THEOREM RowsFrozen == Spec => SnapshotRowsFrozen
<1>1. [Next]_vars => [owner # NoOutput => owner' = owner]_owner
  BY DEF Next, UserStep, EnqueueStep, WorkerStep, AiStep, BackendStep, Adversity, vars,
     snapshotVars, Generate, Reprocess, Transition, EnqueueOk, EnqueueError, Age, PopJob,
     AiSucceeds, AiTerminalError, AiError, Retry, ConnectionLost, ProviderUnreachable,
     HandlerRedisError, DropJob, Timeout, WorkerCrash, BackendCrash, Commit, CommitDuplicate,
     MailError, CommitStorageError, CommitRefused, RecordFailure,
     RecordFailureSwallowed, Answer, LoseRequest
<1> QED BY <1>1, PTL DEF Spec, SnapshotRowsFrozen

-----------------------------------------------------------------------------
(* Without infrastructure failures no transaction is abandoned: the work   *)
(* passes from the enqueueing coroutine to the job, from the job to a      *)
(* request and back, and whoever drops it has closed the transaction.      *)


\* The hand-over, for as long as nothing fails: a job waits exactly for its one request,
\* and a request that has been handled has closed its transaction.
Handover ==
    /\ \A t \in Txs : caller[t] = "enqueueing" => job[t].pc = "absent"
    /\ \A t \in Txs : t > latest => job[t].pc = "absent" /\ caller[t] # "enqueueing"
    /\ \A r \in inbox : Awaits(r.tx, r)
    /\ \A q, r \in inbox : q.tx = r.tx => q = r
    /\ \A t \in Txs : job[t].pc \in Waiting => \E r \in inbox : r.tx = t
    /\ \A r \in inbox : r.stage # "arrived" => tx[r.tx] # "processing"
    /\ \A t \in Txs : tx[t] = "processing" =>
          caller[t] = "enqueueing" \/ job[t].pc \notin Ended \cup {"absent"}

HInv == mishaps = 0 => Handover

LEMMA PlaceFacts ==
    /\ {"queued", "running", "backoff"} \cap (Waiting \cup Ended \cup {"absent"}) = {}
    /\ Waiting \cap (Ended \cup {"absent"}) = {}
    /\ "absent" \notin Ended
    /\ Ended \cap Waiting = {}
  BY DEF Waiting, Ended

\* The job of t goes to pc, the others stay.
Moves(t, pc) == job'[t].pc = pc /\ \A u \in Txs \ {t} : job'[u] = job[u]

\* A job that no request is about moves to a place where it waits for none.
LEMMA FreeMove ==
    ASSUME TypeOK, Handover, NEW t \in Txs, NEW pc \in {"queued", "running", "backoff"},
           job[t].pc \in {"absent", "queued", "running", "backoff"}, t <= latest,
           Moves(t, pc), UNCHANGED <<tx, latest, inbox>>,
           \A u \in Txs : /\ caller'[u] = "enqueueing" => u # t /\ caller[u] = "enqueueing"
                          /\ u # t => caller'[u] = caller[u]
    PROVE  Handover'
<1>1. job[t].pc \notin Waiting
  BY DEF Waiting
<1>2. \A r \in inbox : r.tx \in Txs /\ r.tx # t
  BY <1>1 DEF Handover, Awaits, TypeOK, Request
<1>3. pc \notin Waiting \cup Ended \cup {"absent"}
  BY PlaceFacts
<1>4. (\A u \in Txs : caller[u] = "enqueueing" => job[u].pc = "absent")'
  BY DEF Handover, Moves
<1>5. (\A u \in Txs : u > latest => job[u].pc = "absent" /\ caller[u] # "enqueueing")'
  BY DEF Handover, TypeOK, Txs, Moves
<1>6. (\A r \in inbox : Awaits(r.tx, r))'
  BY <1>2 DEF Handover, Awaits, KindAwaited, Moves
<1>7. (\A u \in Txs : job[u].pc \in Waiting => \E r \in inbox : r.tx = u)'
  BY <1>3 DEF Handover, Moves
<1>8. (\A u \in Txs : tx[u] = "processing" =>
          caller[u] = "enqueueing" \/ job[u].pc \notin Ended \cup {"absent"})'
  BY <1>3 DEF Handover, Moves
<1> QED BY <1>4, <1>5, <1>6, <1>7, <1>8 DEF Handover

\* A running job sends its request and waits for it.
LEMMA SendMove ==
    ASSUME TypeOK, Handover, NEW t \in Txs, job[t].pc = "running",
           NEW pc \in Waiting, MoveJob(t, pc),
           NEW kind \in {"commit", "fail"}, kind = "commit" <=> pc = "committing",
           NEW failure, Send(kind, t, failure),
           UNCHANGED <<tx, latest, caller>>
    PROVE  Handover'
<1>1. \A r \in inbox : r.tx \in Txs /\ r.tx # t
  BY DEF Handover, Awaits, TypeOK, Request, Waiting
<1>2. /\ job'[t].pc = pc /\ job'[t].attempt = job[t].attempt
      /\ \A u \in Txs \ {t} : job'[u] = job[u]
  BY DEF MoveJob, TypeOK, Job
<1>3. PICK sent : /\ inbox' = inbox \cup {sent}
                  /\ sent.tx = t /\ sent.kind = kind /\ sent.attempt = job[t].attempt
                  /\ sent.stage = "arrived"
  <2> DEFINE new == [kind |-> kind, tx |-> t, attempt |-> job[t].attempt,
                     failure |-> failure, stage |-> "arrived"]
  <2>1. inbox' = inbox \cup {new}
    BY DEF Send
  <2>2. /\ new.tx = t /\ new.kind = kind /\ new.attempt = job[t].attempt
        /\ new.stage = "arrived"
    OBVIOUS
  <2> HIDE DEF new
  <2> QED BY <2>1, <2>2
<1>5. (\A u \in Txs : caller[u] = "enqueueing" => job[u].pc = "absent")'
  BY <1>2 DEF Handover
<1>6. (\A u \in Txs : u > latest => job[u].pc = "absent" /\ caller[u] # "enqueueing")'
  BY <1>2 DEF Handover
<1>7. (\A r \in inbox : Awaits(r.tx, r))'
  <2>1. Awaits(t, sent)'
    BY <1>2, <1>3 DEF Awaits, KindAwaited
  <2>2. ASSUME NEW r \in inbox PROVE Awaits(r.tx, r)'
    BY <1>1, <1>2 DEF Handover, Awaits, KindAwaited
  <2> QED BY <1>3, <2>1, <2>2
<1>8. (\A q, r \in inbox : q.tx = r.tx => q = r)'
  BY <1>1, <1>3 DEF Handover
<1>9. (\A u \in Txs : job[u].pc \in Waiting => \E r \in inbox : r.tx = u)'
  BY <1>2, <1>3 DEF Handover
<1>10. (\A r \in inbox : r.stage # "arrived" => tx[r.tx] # "processing")'
  BY <1>3 DEF Handover
<1>11. (\A u \in Txs : tx[u] = "processing" =>
          caller[u] = "enqueueing" \/ job[u].pc \notin Ended \cup {"absent"})'
  BY <1>2, PlaceFacts DEF Handover
<1> QED BY <1>5, <1>6, <1>7, <1>8, <1>9, <1>10, <1>11 DEF Handover

\* The backend handles the request r of a job and keeps it as h to answer it later.
LEMMA HandledRequest ==
    ASSUME TypeOK, Handover, NEW r \in inbox, NEW h,
           h.tx = r.tx, h.attempt = r.attempt, h.kind = r.kind,
           inbox' = (inbox \ {r}) \cup {h},
           \A t \in Txs : tx'[t] = tx[t] \/ (t = r.tx /\ tx'[t] # "processing"),
           h.stage # "arrived" => tx'[r.tx] # "processing",
           UNCHANGED <<job, latest, caller>>
    PROVE  Handover'
<1>1. \A q \in inbox : q.tx \in Txs
  BY DEF TypeOK, Request
<1>2. \A t, q : Awaits(t, q)' <=> Awaits(t, q)
  BY DEF Awaits, KindAwaited
<1>3. (\A q \in inbox : Awaits(q.tx, q))'
  <2>1. Awaits(h.tx, h)
    BY DEF Handover, Awaits
  <2> QED BY <1>2, <2>1 DEF Handover
<1>4. (\A p, q \in inbox : p.tx = q.tx => p = q)'
  BY DEF Handover
<1>5. (\A u \in Txs : job[u].pc \in Waiting => \E q \in inbox : q.tx = u)'
  BY DEF Handover
<1>6. (\A q \in inbox : q.stage # "arrived" => tx[q.tx] # "processing")'
  BY <1>1 DEF Handover
<1>7. (\A u \in Txs : tx[u] = "processing" =>
          caller[u] = "enqueueing" \/ job[u].pc \notin Ended \cup {"absent"})'
  BY DEF Handover
<1> QED BY <1>3, <1>4, <1>5, <1>6, <1>7 DEF Handover

LEMMA AdvanceHandover ==
    ASSUME TypeOK, Handover, NEW r \in inbox, NEW stage \in Stages, Advance(r, stage),
           \A t \in Txs : tx'[t] = tx[t] \/ (t = r.tx /\ tx'[t] # "processing"),
           tx'[r.tx] # "processing",
           UNCHANGED <<job, latest, caller>>
    PROVE  Handover'
<1> DEFINE h == [r EXCEPT !.stage = stage]
<1>1. h.tx = r.tx /\ h.attempt = r.attempt /\ h.kind = r.kind
  BY DEF TypeOK, Request
<1>2. inbox' = (inbox \ {r}) \cup {h}
  BY DEF Advance
<1> HIDE DEF h
<1> QED BY <1>1, <1>2, HandledRequest

\* Before generate there is no transaction.
Fresh == status = "none" => latest = 0

LEMMA FreshStep == TypeOK /\ Fresh /\ [Next]_vars => Fresh'
<1> SUFFICES ASSUME TypeOK, Fresh, [Next]_vars, status' = "none" PROVE latest' = 0
  BY DEF Fresh
<1>1. \A t, failure : MarkFailed(t, failure) /\ failure \in Failures => status' # "none"
  BY DEF MarkFailed, Failures
<1>2. "none" \notin Statuses /\ {"llm-failed", "processing-error"} \subseteq Failures
  BY FailureFacts DEF Statuses, Failures, WithContent, Editable
<1>3. \A r \in inbox : r.failure \in Failures
  BY RequestFacts DEF TypeOK
<1> QED
  BY <1>1, <1>2, <1>3
     DEF Fresh, Next, UserStep, EnqueueStep, WorkerStep, AiStep, BackendStep, Adversity,
     vars, recordVars, Generate, Reprocess, Transition, EnqueueOk, EnqueueError, Age,
     PopJob, AiSucceeds, AiTerminalError, AiError, Retry, ConnectionLost,
     ProviderUnreachable, HandlerRedisError, DropJob, Timeout, WorkerCrash, BackendCrash,
     Commit, CommitDuplicate, MailError, CommitStorageError, CommitRefused, RecordFailure,
     RecordFailureSwallowed, Answer, LoseRequest

\* No step of the adversary goes unnoticed.
LEMMA QuietSteps ==
    ASSUME TypeOK, [Next]_vars, mishaps' = 0
    PROVE  /\ mishaps = 0
           /\ \/ UNCHANGED vars
              \/ UserStep
              \/ \E t \in Txs : EnqueueOk(t) \/ Age(t) \/ WorkerStep(t)
              \/ BackendStep
<1>1. ~ Mishap
  BY DEF Mishap, TypeOK
<1>2. \/ UNCHANGED vars
      \/ UserStep
      \/ \E t \in Txs : EnqueueOk(t) \/ Age(t) \/ WorkerStep(t)
      \/ BackendStep
  BY <1>1 DEF Next, EnqueueStep, EnqueueError, Adversity, WorkerCrash, BackendCrash,
     ProviderUnreachable, HandlerRedisError, DropJob, Timeout, MailError,
     CommitStorageError, RecordFailureSwallowed, LoseRequest
<1>3. mishaps' = mishaps
  BY <1>2 DEF UserStep, WorkerStep, AiStep, BackendStep, vars, Generate, Reprocess,
     Transition, EnqueueOk, Age, PopJob, AiSucceeds, AiTerminalError, AiError, Retry,
     ConnectionLost, Commit, CommitDuplicate, CommitRefused, RecordFailure, Answer
<1> QED BY <1>2, <1>3

\* Generate and Reprocess: the new transaction n starts with its enqueue.
LEMMA NewTx ==
    ASSUME TypeOK, Handover, NEW n \in Txs, n = latest + 1, latest' = n,
           caller' = [caller EXCEPT ![n] = "enqueueing"],
           \A t \in Txs \ {n} : tx'[t] = tx[t] \/ tx'[t] = "failed",
           UNCHANGED <<job, inbox>>
    PROVE  Handover'
<1>1. job[n].pc = "absent"
  BY DEF Handover, TypeOK, Txs
<1>2. \A r \in inbox : r.tx \in Txs \ {n}
  BY <1>1, PlaceFacts DEF Handover, Awaits, TypeOK, Request, Waiting
<1>3. \A t, r : Awaits(t, r)' <=> Awaits(t, r)
  BY DEF Awaits, KindAwaited
<1>4. (\A t \in Txs : caller[t] = "enqueueing" => job[t].pc = "absent")'
  BY <1>1 DEF Handover, TypeOK
<1>5. (\A t \in Txs : t > latest => job[t].pc = "absent" /\ caller[t] # "enqueueing")'
  BY DEF Handover, TypeOK, Txs
<1>6. (\A r \in inbox : Awaits(r.tx, r))' /\ (\A q, r \in inbox : q.tx = r.tx => q = r)'
  BY <1>3 DEF Handover
<1>7. (\A t \in Txs : job[t].pc \in Waiting => \E r \in inbox : r.tx = t)'
  BY DEF Handover
<1>8. (\A r \in inbox : r.stage # "arrived" => tx[r.tx] # "processing")'
  BY <1>2 DEF Handover
<1>9. (\A t \in Txs : tx[t] = "processing" =>
          caller[t] = "enqueueing" \/ job[t].pc \notin Ended \cup {"absent"})'
  BY DEF Handover, TypeOK
<1> QED BY <1>4, <1>5, <1>6, <1>7, <1>8, <1>9 DEF Handover

LEMMA HandoverStep == TypeOK /\ TypeOK' /\ HInv /\ Fresh /\ [Next]_vars => HInv'
<1> SUFFICES ASSUME TypeOK, TypeOK', HInv, Fresh, [Next]_vars, mishaps' = 0
             PROVE  Handover'
  BY DEF HInv
<1>0. Handover
  BY QuietSteps DEF HInv
<1>1. CASE Generate
  <2>1. latest = 0 /\ 1 \in Txs
    BY <1>1, PipelineAssumption DEF Generate, Fresh, Txs
  <2>2. /\ latest' = 1 /\ 1 = latest + 1
        /\ caller' = [caller EXCEPT ![1] = "enqueueing"]
        /\ \A t \in Txs \ {1} : tx'[t] = tx[t]
        /\ UNCHANGED <<job, inbox>>
    BY <1>1, <2>1 DEF Generate, TypeOK
  <2> QED BY <1>0, <2>1, <2>2, NewTx
<1>2. CASE Reprocess
  <2>1. latest + 1 \in Txs
    BY <1>2, PipelineAssumption DEF Reprocess, TypeOK, Txs
  <2>2. \A t \in Txs \ {latest + 1} : tx'[t] = tx[t] \/ tx'[t] = "failed"
    BY <1>2 DEF Reprocess
  <2> QED BY <1>0, <1>2, <2>1, <2>2, NewTx DEF Reprocess
<1>3. ASSUME NEW t \in Txs, EnqueueOk(t) PROVE Handover'
  <2>1. job[t].pc = "absent" /\ t <= latest
    BY <1>0, <1>3 DEF Handover, EnqueueOk, TypeOK, Txs
  <2>2. Moves(t, "queued")
    BY <1>3 DEF EnqueueOk, MoveJob, TypeOK, Job, Moves
  <2>3. \A u \in Txs : /\ caller'[u] = "enqueueing" => u # t /\ caller[u] = "enqueueing"
                       /\ u # t => caller'[u] = caller[u]
    BY <1>3 DEF EnqueueOk, TypeOK
  <2> QED BY <1>0, <1>3, <2>1, <2>2, <2>3, FreeMove DEF EnqueueOk, recordVars
<1>4. ASSUME NEW t \in Txs, WorkerStep(t) PROVE Handover'
  <2>0. ASSUME job[t].pc # "absent"
        PROVE  /\ t <= latest
               /\ \A u \in Txs : caller[u] = "enqueueing" => u # t
    BY <1>0, <2>0 DEF Handover, TypeOK, Txs
  <2>1. CASE PopJob(t)
    <3>1. Moves(t, "running")
      BY <2>1 DEF PopJob, MoveJob, TypeOK, Job, Moves
    <3> QED BY <1>0, <2>0, <2>1, <3>1, FreeMove DEF PopJob, recordVars
  <2>2. CASE AiSucceeds(t)
    BY <1>0, <2>2, SendMove DEF AiSucceeds, recordVars, Waiting
  <2>3. ASSUME NEW failure \in Failures, AiTerminalError(t, failure) PROVE Handover'
    BY <1>0, <2>3, SendMove DEF AiTerminalError, recordVars, Waiting
  <2>4. CASE AiError(t) /\ Exhausted(t)
    BY <1>0, <2>4, SendMove DEF AiError, recordVars, Waiting
  <2>5. CASE AiError(t) /\ ~ Exhausted(t)
    <3>1. Moves(t, "backoff")
      BY <2>5 DEF AiError, MoveJob, TypeOK, Job, Moves
    <3> QED BY <1>0, <2>0, <2>5, <3>1, FreeMove DEF AiError, recordVars
  <2>6. CASE Retry(t)
    <3>1. Moves(t, "queued")
      BY <2>6 DEF Retry, TypeOK, Moves
    <3> QED BY <1>0, <2>0, <2>6, <3>1, FreeMove DEF Retry, recordVars
  <2>7. CASE ConnectionLost(t)
    <3>1. PICK r \in inbox : r.tx = t
      BY <1>0, <2>7 DEF Handover, ConnectionLost
    <3>2. Awaits(t, r)
      BY <1>0, <3>1 DEF Handover
    <3> QED BY <2>7, <3>2 DEF ConnectionLost
  <2> QED BY <1>4, <2>1, <2>2, <2>3, <2>4, <2>5, <2>6, <2>7 DEF WorkerStep, AiStep
<1>5. ASSUME NEW r \in inbox, Commit(r) PROVE Handover'
  BY <1>0, <1>5, AdvanceHandover, RequestFacts DEF Commit, TypeOK, Stages
<1>6. ASSUME NEW r \in inbox, CommitDuplicate(r) PROVE Handover'
  BY <1>0, <1>6, AdvanceHandover, RequestFacts
     DEF CommitDuplicate, MarkFailed, TypeOK, Stages
<1>7. ASSUME NEW r \in inbox, RecordFailure(r) PROVE Handover'
  BY <1>0, <1>7, AdvanceHandover, RequestFacts DEF RecordFailure, MarkFailed, TypeOK, Stages
<1>8. ASSUME NEW r \in inbox, CommitRefused(r) PROVE Handover'
  <2> DEFINE report == [r EXCEPT !.kind = "fail", !.failure = "processing-error"]
  <2>1. Awaits(r.tx, r) /\ r.tx \in Txs
    BY <1>0, RequestFacts DEF Handover, TypeOK
  <2>2. r.stage = "arrived" /\ report.stage = "arrived" /\ report.tx = r.tx
        /\ report.attempt = r.attempt /\ report.kind = "fail"
    BY <1>8 DEF CommitRefused, Arrived, TypeOK, Request
  <2>3. MoveJob(r.tx, "closing") /\ inbox' = (inbox \ {r}) \cup {report}
        /\ UNCHANGED <<tx, latest, caller>>
    BY <1>8, <2>1 DEF CommitRefused, recordVars
  <2> HIDE DEF report
  <2>4. /\ job'[r.tx].pc = "closing" /\ job'[r.tx].attempt = job[r.tx].attempt
        /\ \A t \in Txs \ {r.tx} : job'[t] = job[t]
    BY <2>1, <2>3 DEF MoveJob, TypeOK, Job
  <2>5. \A q \in inbox \ {r} : q.tx \in Txs \ {r.tx}
    BY <1>0 DEF Handover, TypeOK, Request
  <2>6. "closing" \in Waiting /\ job[r.tx].pc \in Waiting
    BY <2>1 DEF Waiting, Awaits
  <2>7. (\A q \in inbox : Awaits(q.tx, q))'
    <3>1. Awaits(r.tx, report)'
      BY <2>1, <2>2, <2>4, <2>6 DEF Awaits, KindAwaited
    <3>2. ASSUME NEW q \in inbox \ {r} PROVE Awaits(q.tx, q)'
      BY <1>0, <2>4, <2>5 DEF Handover, Awaits, KindAwaited
    <3> QED BY <2>2, <2>3, <3>1, <3>2
  <2>8. (\A p, q \in inbox : p.tx = q.tx => p = q)'
    BY <1>0, <2>2, <2>3, <2>5 DEF Handover
  <2>9. (\A t \in Txs : job[t].pc \in Waiting => \E q \in inbox : q.tx = t)'
    BY <1>0, <2>2, <2>3, <2>4 DEF Handover
  <2>10. (\A q \in inbox : q.stage # "arrived" => tx[q.tx] # "processing")'
    BY <1>0, <2>2, <2>3 DEF Handover
  <2>11. (\A t \in Txs : tx[t] = "processing" =>
            caller[t] = "enqueueing" \/ job[t].pc \notin Ended \cup {"absent"})'
    BY <1>0, <2>3, <2>4, <2>6, PlaceFacts DEF Handover
  <2>12. (\A t \in Txs : caller[t] = "enqueueing" => job[t].pc = "absent")'
         /\ (\A t \in Txs : t > latest => job[t].pc = "absent" /\ caller[t] # "enqueueing")'
    BY <1>0, <2>3, <2>4, <2>6, PlaceFacts DEF Handover
  <2> QED BY <2>7, <2>8, <2>9, <2>10, <2>11, <2>12 DEF Handover
<1>9. ASSUME NEW r \in inbox, Answer(r) PROVE Handover'
  <2>1. Awaits(r.tx, r) /\ r.tx \in Txs /\ tx[r.tx] # "processing"
    BY <1>0, <1>9, RequestFacts DEF Handover, TypeOK, Answer
  <2>2. PICK pc \in Ended \cup {"backoff"} : MoveJob(r.tx, pc)
    BY <1>9, <2>1 DEF Answer, AfterRaise, Ended
  <2>3. inbox' = inbox \ {r} /\ UNCHANGED <<tx, latest, caller>>
    BY <1>9 DEF Answer, recordVars
  <2>4. job'[r.tx].pc = pc /\ \A t \in Txs \ {r.tx} : job'[t] = job[t]
    BY <2>1, <2>2 DEF MoveJob, TypeOK, Job
  <2>5. \A q \in inbox \ {r} : q.tx \in Txs \ {r.tx}
    BY <1>0 DEF Handover, TypeOK, Request
  <2>6. pc \notin Waiting /\ job[r.tx].pc \in Waiting
    BY <2>1, <2>2, PlaceFacts DEF Awaits
  <2>7. (\A q \in inbox : Awaits(q.tx, q))'
    BY <1>0, <2>3, <2>4, <2>5 DEF Handover, Awaits, KindAwaited
  <2>8. (\A t \in Txs : job[t].pc \in Waiting => \E q \in inbox : q.tx = t)'
    BY <1>0, <2>3, <2>4, <2>6 DEF Handover
  <2>9. (\A t \in Txs : tx[t] = "processing" =>
            caller[t] = "enqueueing" \/ job[t].pc \notin Ended \cup {"absent"})'
    BY <1>0, <2>1, <2>3, <2>4 DEF Handover
  <2>10. (\A t \in Txs : caller[t] = "enqueueing" => job[t].pc = "absent")'
         /\ (\A t \in Txs : t > latest => job[t].pc = "absent" /\ caller[t] # "enqueueing")'
    BY <1>0, <2>3, <2>4, <2>6, PlaceFacts DEF Handover
  <2>11. (\A p, q \in inbox : p.tx = q.tx => p = q)'
         /\ (\A q \in inbox : q.stage # "arrived" => tx[q.tx] # "processing")'
    BY <1>0, <2>3 DEF Handover
  <2> QED BY <2>7, <2>8, <2>9, <2>10, <2>11 DEF Handover
<1>10. ASSUME UNCHANGED <<latest, tx, caller, job, inbox>> PROVE Handover'
  BY <1>0, <1>10 DEF Handover, Awaits, KindAwaited
<1>11. CASE \/ UNCHANGED vars
            \/ \E target \in Statuses : Transition(target)
            \/ \E t \in Txs : Age(t)
  BY <1>10, <1>11 DEF vars, Transition, Age, recordVars
<1> QED BY <1>1, <1>2, <1>3, <1>4, <1>5, <1>6, <1>7, <1>8, <1>9, <1>11, QuietSteps
        DEF UserStep, BackendStep

LEMMA HandedOver == Spec => [](IInv /\ HInv /\ Fresh)
<1>1. Init => HInv /\ Fresh
  <2>1. ASSUME Init, NEW t \in Txs PROVE job[t].pc = "absent" /\ tx[t] # "processing"
    BY <2>1 DEF Init
  <2>2. ASSUME Init PROVE inbox = {} /\ latest = 0 /\ caller = [t \in Txs |-> "none"]
    BY <2>2 DEF Init
  <2> QED BY <2>1, <2>2, PlaceFacts DEF HInv, Handover, Fresh, Waiting
<1>2. IInv /\ IInv' /\ HInv /\ Fresh /\ [Next]_vars => HInv' /\ Fresh'
  BY HandoverStep, FreshStep DEF IInv
<1> QED BY <1>1, <1>2, Inductive, PTL DEF Spec

\* As long as the infrastructure does not fail, a transaction in processing is in
\* somebody's hand: an enqueue, a live job, or a request at the backend.
THEOREM NothingAbandoned == Spec => []NoAbandonedTx
<1>1. IInv /\ HInv => NoAbandonedTx
  BY DEF IInv, HInv, Handover, NoAbandonedTx, InHand
<1> QED BY <1>1, HandedOver, PTL

-----------------------------------------------------------------------------
(* The snapshot object                                                     *)

\* Once the only transaction has its rows, nothing of it is left that could commit again.
Kept ==
    owner # NoOutput =>
        /\ job[1].pc \in {"committing", "done"}
        /\ \A r \in inbox : r.stage = "committed"

KeptInv == mishaps = 0 /\ latest <= 1 => v0obj = owner /\ Kept

LEMMA KeptStep == TypeOK /\ HInv /\ Fresh /\ KeptInv /\ [Next]_vars => KeptInv'
<1> SUFFICES ASSUME TypeOK, HInv, Fresh, KeptInv, [Next]_vars, mishaps' = 0, latest' <= 1
             PROVE  v0obj' = owner' /\ Kept'
  BY DEF KeptInv
<1>0. /\ Handover /\ mishaps = 0 /\ 1 \in Txs
      /\ latest <= 1 => v0obj = owner /\ Kept
  BY QuietSteps, PipelineAssumption DEF HInv, KeptInv, Txs
<1>1. CASE Generate
  <2>1. latest = 0
    BY <1>1 DEF Generate, Fresh
  <2>2. job[1].pc = "absent"
    BY <1>0, <2>1 DEF Handover
  <2>3. owner = NoOutput
    BY <1>0, <2>1, <2>2 DEF Kept
  <2> QED BY <1>0, <1>1, <2>1, <2>3 DEF Generate, snapshotVars, Kept
<1>2. ~ Reprocess
  BY PipelineAssumption DEF Reprocess, TypeOK
<1> SUFFICES ASSUME ~ Generate PROVE v0obj' = owner' /\ Kept'
  BY <1>1
<1>3. latest' = latest
  BY <1>2, QuietSteps
     DEF UserStep, Transition, EnqueueOk, Age, WorkerStep, AiStep, BackendStep, vars, PopJob, AiSucceeds,
         AiTerminalError, AiError, Retry, ConnectionLost, Commit, CommitDuplicate, CommitRefused,
         RecordFailure, Answer
<1>4. v0obj = owner /\ Kept
  BY <1>0, <1>3
<1>5. \A r \in inbox : r.tx = 1 /\ job[1].pc \in Waiting /\ Awaits(1, r)
  <2>1. ASSUME NEW r \in inbox PROVE r.tx = 1 /\ job[1].pc \in Waiting /\ Awaits(1, r)
    <3>1. r.tx \in Txs /\ Awaits(r.tx, r)
      BY <1>0 DEF Handover, TypeOK, Request
    <3>2. job[r.tx].pc # "absent"
      BY <3>1 DEF Awaits, Waiting
    <3>3. ~ (r.tx > latest)
      BY <1>0, <3>1, <3>2 DEF Handover
    <3>4. r.tx = 1
      BY <1>3, <3>1, <3>3 DEF Txs, TypeOK
    <3> QED BY <3>1, <3>4 DEF Awaits
  <2> QED BY <2>1
<1>6. ASSUME NEW t \in Txs, EnqueueOk(t) \/ WorkerStep(t) PROVE v0obj' = owner' /\ Kept'
  <2>1. owner' = owner /\ v0obj' = v0obj
    BY <1>6 DEF EnqueueOk, WorkerStep, AiStep, PopJob, AiSucceeds, AiTerminalError, AiError, Retry,
                ConnectionLost, snapshotVars
  <2>2. CASE owner = NoOutput
    BY <1>4, <2>1, <2>2 DEF Kept
  <2>3. CASE owner # NoOutput
    <3>1. job[1].pc \in {"committing", "done"}
      BY <1>4, <2>3 DEF Kept
    <3>2. caller[1] # "enqueueing"
      BY <1>0, <3>1 DEF Handover
    <3>3. t = 1
      <4>1. t <= latest
        BY <1>0, <1>6 DEF Handover, EnqueueOk, WorkerStep, AiStep, PopJob, AiSucceeds, AiTerminalError,
                          AiError, Retry, ConnectionLost, Waiting, TypeOK, Txs
      <4> QED BY <1>3, <4>1 DEF Txs, TypeOK
    <3>4. ConnectionLost(1) /\ job[1].pc \in Waiting
      BY <1>6, <3>1, <3>2, <3>3 DEF EnqueueOk, WorkerStep, AiStep, PopJob, AiSucceeds, AiTerminalError,
                                    AiError, Retry, ConnectionLost
    <3>5. PICK r \in inbox : r.tx = 1
      BY <1>0, <3>4 DEF Handover
    <3>6. Awaits(1, r)
      BY <1>5, <3>5
    <3> QED BY <3>4, <3>5, <3>6 DEF ConnectionLost
  <2> QED BY <2>2, <2>3
<1>7. ASSUME NEW r \in inbox, Commit(r) PROVE v0obj' = owner' /\ Kept'
  <2>1. job[1].pc = "committing"
    <3>1. r.kind = "commit" /\ Awaits(1, r)
      BY <1>5, <1>7 DEF Commit, Arrived
    <3> QED BY <3>1 DEF Awaits, KindAwaited
  <2>2. inbox = {r}
    BY <1>0, <1>5 DEF Handover
  <2> DEFINE h == [r EXCEPT !.stage = "committed"]
  <2>3. inbox' = {h}
    BY <1>7, <2>2 DEF Commit, Advance
  <2>4. h.stage = "committed"
    BY DEF TypeOK, Request
  <2> HIDE DEF h
  <2> QED BY <1>7, <2>1, <2>3, <2>4 DEF Commit, Kept
<1>8. ASSUME NEW r \in inbox, CommitDuplicate(r) PROVE FALSE
  BY <1>4, <1>8 DEF CommitDuplicate, Arrived, Kept
<1>9. ASSUME NEW r \in inbox, CommitRefused(r) \/ RecordFailure(r) PROVE v0obj' = owner' /\ Kept'
  <2>1. r.stage = "arrived"
    BY <1>9 DEF CommitRefused, RecordFailure, Arrived
  <2>2. owner = NoOutput
    BY <1>4, <2>1 DEF Kept
  <2>3. owner' = owner /\ v0obj' = v0obj
    BY <1>9 DEF CommitRefused, RecordFailure, snapshotVars
  <2> QED BY <1>4, <2>2, <2>3 DEF Kept
<1>10. ASSUME NEW r \in inbox, Answer(r) PROVE v0obj' = owner' /\ Kept'
  <2>1. owner' = owner /\ v0obj' = v0obj /\ inbox' = inbox \ {r} /\ Awaits(1, r) /\ r.tx = 1
    BY <1>5, <1>10 DEF Answer, snapshotVars
  <2>2. CASE owner = NoOutput
    BY <1>4, <2>1, <2>2 DEF Kept
  <2>3. CASE owner # NoOutput
    <3>1. r.stage = "committed" /\ job[1].pc = "committing"
      BY <1>4, <1>5, <2>3 DEF Kept, Waiting
    <3>2. MoveJob(1, "done")
      BY <1>10, <2>1, <3>1 DEF Answer
    <3>3. job'[1].pc = "done"
      BY <1>0, <3>2 DEF MoveJob, TypeOK, Job
    <3> QED BY <1>4, <2>1, <3>3 DEF Kept
  <2> QED BY <2>2, <2>3
<1>11. CASE \/ UNCHANGED vars
            \/ \E target \in Statuses : Transition(target)
            \/ \E t \in Txs : Age(t)
  <2>1. UNCHANGED <<owner, v0obj, job, inbox>>
    BY <1>11 DEF vars, Transition, Age, snapshotVars
  <2> QED BY <1>4, <2>1 DEF Kept
<1> QED BY <1>2, <1>6, <1>7, <1>8, <1>9, <1>10, <1>11, QuietSteps DEF UserStep, BackendStep

\* The audit snapshot in MinIO is the committed output for a minute that was not reprocessed
\* and met no infrastructure failure: no attempt writes the object after the commit.
THEOREM SnapshotKept == Spec => []SnapshotObjectKept
<1>1. Init => KeptInv
  BY DEF Init, KeptInv, Kept
<1>2. IInv /\ HInv /\ Fresh /\ KeptInv /\ [Next]_vars => KeptInv'
  BY KeptStep DEF IInv
<1>3. KeptInv => SnapshotObjectKept
  BY DEF KeptInv, SnapshotObjectKept
<1> QED BY <1>1, <1>2, <1>3, HandedOver, PTL DEF Spec

-----------------------------------------------------------------------------
(* What every step keeps, whatever fails                                   *)

\* A job, a request or an enqueueing coroutine belongs to a transaction that exists.
Known ==
    /\ \A t \in Txs : caller[t] = "enqueueing" => job[t].pc = "absent" /\ tx[t] # "none"
    /\ \A t \in Txs : job[t].pc # "absent" => tx[t] # "none"
    /\ \A r \in inbox : job[r.tx].pc # "absent"
    /\ \A t \in Txs : t > latest => tx[t] = "none"
    /\ \A t \in Txs : job[t].pc = "exhausting" => Exhausted(t)

\* Jobs change after they were pushed, or as their enqueue returns.
LEMMA KnownKept ==
    ASSUME TypeOK, Known, latest' = latest,
           \A u \in Txs : caller'[u] = "enqueueing" => caller[u] = "enqueueing",
           \A u \in Txs : tx'[u] = tx[u] \/ (tx[u] # "none" /\ tx'[u] # "none"),
           \A u \in Txs :
              \/ job'[u] = job[u]
              \/ /\ job[u].pc # "absent" \/ (caller[u] = "enqueueing" /\ caller'[u] # "enqueueing")
                 /\ job'[u].pc # "absent"
                 /\ job'[u].pc = "exhausting" => job'[u].attempt >= MaxRetries,
           \A r \in inbox' : r \in inbox \/ (r.tx \in Txs /\ job[r.tx].pc # "absent")
    PROVE  Known'
<1>1. \A u \in Txs : job[u].pc # "absent" => job'[u].pc # "absent"
  OBVIOUS
<1>2. (\A t \in Txs : caller[t] = "enqueueing" => job[t].pc = "absent" /\ tx[t] # "none")'
  BY DEF Known
<1>3. (\A t \in Txs : job[t].pc # "absent" => tx[t] # "none")'
  BY DEF Known
<1>4. (\A r \in inbox : job[r.tx].pc # "absent")'
  BY <1>1, RequestFacts DEF Known, TypeOK
<1>5. (\A t \in Txs : t > latest => tx[t] = "none")'
  BY DEF Known
<1>6. (\A t \in Txs : job[t].pc = "exhausting" => Exhausted(t))'
  BY DEF Known, Exhausted
<1> QED BY <1>2, <1>3, <1>4, <1>5, <1>6 DEF Known

\* A new transaction.
LEMMA KnownNew ==
    ASSUME TypeOK, Known, NEW n \in Txs, n = latest + 1, latest' = n,
           caller' = [caller EXCEPT ![n] = "enqueueing"],
           tx'[n] # "none",
           \A u \in Txs \ {n} : tx'[u] = tx[u] \/ (tx[u] # "none" /\ tx'[u] # "none"),
           UNCHANGED <<job, inbox>>
    PROVE  Known'
<1>1. tx[n] = "none" /\ job[n].pc = "absent"
  BY DEF Known, TypeOK, Txs
<1>2. (\A t \in Txs : caller[t] = "enqueueing" => job[t].pc = "absent" /\ tx[t] # "none")'
  BY <1>1 DEF Known, TypeOK
<1>3. (\A t \in Txs : job[t].pc # "absent" => tx[t] # "none")'
  BY DEF Known
<1>5. (\A t \in Txs : t > latest => tx[t] = "none")'
  BY DEF Known, TypeOK, Txs
<1>6. (\A t \in Txs : job[t].pc = "exhausting" => Exhausted(t))' /\ (\A r \in inbox : job[r.tx].pc # "absent")'
  BY DEF Known, Exhausted
<1> QED BY <1>2, <1>3, <1>5, <1>6 DEF Known

LEMMA MoveIs ==
    ASSUME job \in [Txs -> Job], NEW t \in Txs, NEW pc, MoveJob(t, pc)
    PROVE  /\ job'[t].pc = pc /\ job'[t].attempt = job[t].attempt
           /\ \A u \in Txs \ {t} : job'[u] = job[u]
  BY DEF MoveJob, Job

\* A step of the job t, with the request it may send.
LEMMA KnownMove ==
    ASSUME TypeOK, Known, NEW t \in Txs, NEW pc, MoveJob(t, pc), pc # "absent",
           pc = "exhausting" => Exhausted(t), UNCHANGED <<latest, caller, tx>>,
           job[t].pc # "absent",
           \A r \in inbox' : r \in inbox \/ r.tx = t
    PROVE  Known'
<1>1. /\ job'[t].pc = pc /\ job'[t].attempt = job[t].attempt
      /\ \A u \in Txs \ {t} : job'[u] = job[u]
  BY MoveIs DEF TypeOK
<1> QED BY <1>1, KnownKept DEF Exhausted

\* A step that touches no job and no coroutine.
LEMMA KnownRecord ==
    ASSUME TypeOK, Known, UNCHANGED <<latest, caller, job>>,
           \A u \in Txs : tx'[u] = tx[u] \/ (tx[u] # "none" /\ tx'[u] # "none"),
           \A r \in inbox' : r \in inbox \/ (r.tx \in Txs /\ job[r.tx].pc # "absent")
    PROVE  Known'
  BY KnownKept

\* The transaction of a request exists.
LEMMA KnownTx ==
    ASSUME TypeOK, Known, NEW r \in inbox
    PROVE  r.tx \in Txs /\ job[r.tx].pc # "absent" /\ tx[r.tx] # "none"
  BY RequestFacts DEF TypeOK, Known

LEMMA AdvanceIs ==
    ASSUME TypeOK, NEW r \in inbox, NEW stage, Advance(r, stage)
    PROVE  \E h : /\ h.tx = r.tx /\ h.stage = stage
                  /\ inbox' = (inbox \ {r}) \cup {h}
<1> DEFINE h == [r EXCEPT !.stage = stage]
<1>1. h.tx = r.tx /\ h.stage = stage
  BY DEF TypeOK, Request
<1>2. inbox' = (inbox \ {r}) \cup {h}
  BY DEF Advance
<1> HIDE DEF h
<1> QED BY <1>1, <1>2

LEMMA KnownAdvance ==
    ASSUME TypeOK, Known, NEW r \in inbox, NEW stage, Advance(r, stage),
           UNCHANGED <<latest, caller, job>>,
           \A u \in Txs : tx'[u] = tx[u] \/ (u = r.tx /\ tx'[u] # "none")
    PROVE  Known'
<1>1. PICK h : h.tx = r.tx /\ inbox' = (inbox \ {r}) \cup {h}
  BY AdvanceIs
<1> QED BY <1>1, KnownTx, KnownRecord

LEMMA KnownUnanswered ==
    ASSUME TypeOK, Known, NEW t \in Txs, job[t].pc \in Waiting, GoesUnanswered(t),
           UNCHANGED <<latest, caller, tx, inbox>>
    PROVE  Known'
<1>1. PICK pc \in {"dead", "backoff", "done"} : MoveJob(t, pc)
  BY DEF GoesUnanswered, AfterRaise, Waiting
<1> QED BY <1>1, KnownMove DEF Waiting

LEMMA KnownStep == TypeOK /\ Known /\ Fresh /\ [Next]_vars => Known'
<1> SUFFICES ASSUME TypeOK, Known, Fresh, [Next]_vars PROVE Known'
  OBVIOUS
<1> USE DEF recordVars, snapshotVars
<1>1. CASE Generate
  <2>1. latest = 0 /\ 1 \in Txs /\ 1 = latest + 1
    BY <1>1, PipelineAssumption DEF Generate, Fresh, Txs
  <2>2. tx'[1] # "none" /\ \A u \in Txs \ {1} : tx'[u] = tx[u]
    BY <1>1, <2>1 DEF Generate, TypeOK
  <2> QED BY <1>1, <2>1, <2>2, KnownNew DEF Generate
<1>2. CASE Reprocess
  <2>1. latest + 1 \in Txs /\ latest \in Txs
    BY <1>2, PipelineAssumption DEF Reprocess, TypeOK, Txs
  <2>2. tx'[latest + 1] # "none"
    BY <1>2, <2>1 DEF Reprocess
  <2>3. \A u \in Txs \ {latest + 1} : tx'[u] = tx[u] \/ (tx[u] # "none" /\ tx'[u] # "none")
    <3>1. CASE status = "in-progress"
      <4>1. tx[latest] # "none"
        BY <1>2, <3>1 DEF Reprocess, Eligible, Failures
      <4> QED BY <1>2, <4>1 DEF Reprocess
    <3>2. CASE status # "in-progress"
      BY <1>2, <3>2 DEF Reprocess
    <3> QED BY <3>1, <3>2
  <2> QED BY <1>2, <2>1, <2>2, <2>3, KnownNew DEF Reprocess
<1>3. ASSUME NEW target \in Statuses, Transition(target) PROVE Known'
  BY <1>3, KnownRecord DEF Transition
<1>4. ASSUME NEW t \in Txs, EnqueueStep(t) PROVE Known'
  <2>1. caller[t] = "enqueueing" /\ caller' = [caller EXCEPT ![t] = "returned"]
        /\ UNCHANGED <<latest, inbox>> /\ tx[t] # "none"
    BY <1>4 DEF EnqueueStep, EnqueueOk, EnqueueError, Known
  <2>2. \A u \in Txs : caller'[u] = "enqueueing" => caller[u] = "enqueueing"
    BY <2>1 DEF TypeOK
  <2>3. caller'[t] # "enqueueing"
    BY <2>1 DEF TypeOK
  <2>4. \A u \in Txs : tx'[u] = tx[u] \/ (tx[u] # "none" /\ tx'[u] # "none")
    BY <1>4, <2>1 DEF EnqueueStep, EnqueueOk, EnqueueError, TypeOK
  <2>5. CASE UNCHANGED job
    BY <2>1, <2>2, <2>4, <2>5, KnownKept
  <2>6. CASE MoveJob(t, "queued")
    <3>1. job'[t].pc = "queued" /\ \A u \in Txs \ {t} : job'[u] = job[u]
      BY <2>6, MoveIs DEF TypeOK
    <3> QED BY <2>1, <2>2, <2>3, <2>4, <3>1, KnownKept
  <2> QED BY <1>4, <2>5, <2>6 DEF EnqueueStep, EnqueueOk, EnqueueError
<1>5. ASSUME NEW t \in Txs, Age(t) PROVE Known'
  BY <1>5, KnownRecord DEF Age
<1>6. ASSUME NEW t \in Txs, WorkerStep(t) PROVE Known'
  <2>1. CASE PopJob(t)
    BY <2>1, KnownMove DEF PopJob
  <2>2. CASE AiSucceeds(t)
    BY <2>2, KnownMove DEF AiSucceeds, Send
  <2>3. ASSUME NEW failure \in Failures, AiTerminalError(t, failure) PROVE Known'
    BY <2>3, KnownMove DEF AiTerminalError, Send
  <2>4. CASE AiError(t)
    BY <2>4, KnownMove DEF AiError, Send
  <2>5. CASE Retry(t)
    <3>1. job[t].pc = "backoff" /\ job'[t].pc = "queued" /\ \A u \in Txs \ {t} : job'[u] = job[u]
      BY <2>5 DEF Retry, TypeOK
    <3> QED BY <2>5, <3>1, KnownKept DEF Retry
  <2>6. CASE ConnectionLost(t)
    BY <2>6, KnownUnanswered DEF ConnectionLost
  <2> QED BY <1>6, <2>1, <2>2, <2>3, <2>4, <2>5, <2>6 DEF WorkerStep, AiStep
<1>7. ASSUME NEW t \in Txs,
             ProviderUnreachable(t) \/ HandlerRedisError(t) \/ DropJob(t) \/ Timeout(t)
      PROVE  Known'
  <2>1. CASE ProviderUnreachable(t) \/ HandlerRedisError(t)
    <3>1. AfterRaise(t) \in {"dead", "backoff"} /\ MoveJob(t, AfterRaise(t)) /\ job[t].pc = "running"
      BY <2>1 DEF ProviderUnreachable, HandlerRedisError, AfterRaise
    <3>2. PICK pc \in {"dead", "backoff"} : MoveJob(t, pc)
      BY <3>1
    <3> QED BY <2>1, <3>1, <3>2, KnownMove DEF ProviderUnreachable, HandlerRedisError
  <2>2. CASE DropJob(t)
    BY <2>2, KnownMove DEF DropJob
  <2>3. CASE Timeout(t)
    BY <2>3, KnownUnanswered DEF Timeout, Awaits
  <2> QED BY <1>7, <2>1, <2>2, <2>3
<1>8. CASE WorkerCrash
  <2>1. \A u \in Txs :
           \/ job'[u] = job[u]
           \/ job[u].pc # "absent" /\ job'[u].pc = "lost"
    BY <1>8 DEF WorkerCrash, Waiting, TypeOK, Job
  <2> QED BY <1>8, <2>1, KnownKept DEF WorkerCrash
<1>9. CASE BackendCrash
  <2>1. \A u \in Txs : caller'[u] = "enqueueing" => caller[u] = "enqueueing"
    BY <1>9 DEF BackendCrash
  <2> QED BY <1>9, <2>1, KnownKept DEF BackendCrash
<1>10. ASSUME NEW r \in inbox, Commit(r) \/ CommitDuplicate(r) \/ MailError(r) \/ RecordFailure(r)
       PROVE  Known'
  <2>1. PICK stage : Advance(r, stage)
    BY <1>10 DEF Commit, CommitDuplicate, MailError, RecordFailure
  <2>2. \A u \in Txs : tx'[u] = tx[u] \/ (u = r.tx /\ tx'[u] # "none")
    BY <1>10 DEF Commit, CommitDuplicate, MailError, RecordFailure, MarkFailed, TypeOK
  <2> QED BY <1>10, <2>1, <2>2, KnownAdvance DEF Commit, CommitDuplicate, MailError, RecordFailure
<1>11. ASSUME NEW r \in inbox, CommitStorageError(r) \/ RecordFailureSwallowed(r) PROVE Known'
  <2>1. \A u \in Txs : tx'[u] = tx[u] \/ (u = r.tx /\ tx'[u] # "none")
    BY <1>11 DEF CommitStorageError, RecordFailureSwallowed, MarkFailed, TypeOK
  <2>2. UNCHANGED <<latest, caller, job>>
    BY <1>11 DEF CommitStorageError, RecordFailureSwallowed
  <2>3. CASE \E stage : Advance(r, stage)
    BY <2>1, <2>2, <2>3, KnownAdvance
  <2>4. CASE inbox' = inbox \ {r}
    BY <2>1, <2>2, <2>4, KnownRecord, KnownTx
  <2> QED BY <1>11, <2>3, <2>4 DEF CommitStorageError, RecordFailureSwallowed
<1>12. ASSUME NEW r \in inbox, CommitRefused(r) PROVE Known'
  <2> DEFINE report == [r EXCEPT !.kind = "fail", !.failure = "processing-error"]
  <2>1. report.tx = r.tx
    BY DEF TypeOK, Request
  <2>2. inbox' \subseteq inbox \cup {report}
    BY <1>12 DEF CommitRefused
  <2> HIDE DEF report
  <2>3. CASE MoveJob(r.tx, "closing")
    BY <1>12, <2>1, <2>2, <2>3, KnownMove, KnownTx DEF CommitRefused
  <2>4. CASE UNCHANGED job
    BY <1>12, <2>1, <2>2, <2>4, KnownRecord, KnownTx DEF CommitRefused
  <2> QED BY <1>12, <2>3, <2>4 DEF CommitRefused
<1>13. ASSUME NEW r \in inbox, Answer(r) PROVE Known'
  <2>1. PICK pc \in {"dead", "backoff", "done"} : MoveJob(r.tx, pc) \/ UNCHANGED job
    BY <1>13 DEF Answer, AfterRaise
  <2>2. UNCHANGED <<latest, caller, tx>> /\ inbox' \subseteq inbox
    BY <1>13 DEF Answer
  <2> QED BY <2>1, <2>2, KnownMove, KnownRecord, KnownTx
<1>14. ASSUME NEW r \in inbox, LoseRequest(r) PROVE Known'
  BY <1>14, KnownRecord DEF LoseRequest
<1>15. CASE UNCHANGED vars
  BY <1>15, KnownRecord DEF vars
<1> QED
  BY <1>1, <1>2, <1>3, <1>4, <1>5, <1>6, <1>7, <1>8, <1>9, <1>10, <1>11, <1>12, <1>13, <1>14, <1>15
     DEF Next, UserStep, BackendStep, Adversity

-----------------------------------------------------------------------------
(* What was announced, for as long as nothing fails                        *)

\* A handled request says what its transaction has become, and a completed transaction
\* leaves nothing behind that could still change it.
Settling ==
    /\ \A r \in inbox : r.stage = "committed" => tx[r.tx] = "completed"
    /\ \A r \in inbox : r.stage \in {"rejected", "recorded"} => tx[r.tx] = "failed"
    /\ \A r \in inbox : r.stage = "rejected" => owner # NoOutput
    /\ \A t \in Txs : tx[t] = "completed" =>
          /\ job[t].pc \in {"committing", "done"}
          /\ \A r \in inbox : r.tx = t => r.stage = "committed"
    /\ owner = NoOutput => \A t \in Txs : events[t] # {} => job[t].pc \in Ended

SInv == mishaps = 0 => Settling

\* A job that nobody has completed or announced, and that has no handled request, moves on.
LEMMA SettlingMove ==
    ASSUME TypeOK, Settling, NEW t \in Txs, job[t].pc \notin Ended \cup {"committing"},
           \A u \in Txs \ {t} : job'[u] = job[u],
           UNCHANGED <<tx, owner, events>>,
           \A r \in inbox' : r \in inbox \/ (r.tx = t /\ r.stage = "arrived")
    PROVE  Settling'
<1>1. tx[t] # "completed" /\ (owner = NoOutput => events[t] = {})
  BY DEF Settling, Ended
<1>2. (\A r \in inbox : r.stage = "committed" => tx[r.tx] = "completed")'
      /\ (\A r \in inbox : r.stage \in {"rejected", "recorded"} => tx[r.tx] = "failed")'
      /\ (\A r \in inbox : r.stage = "rejected" => owner # NoOutput)'
  BY DEF Settling
<1>3. (\A u \in Txs : tx[u] = "completed" =>
          /\ job[u].pc \in {"committing", "done"}
          /\ \A r \in inbox : r.tx = u => r.stage = "committed")'
  BY <1>1 DEF Settling
<1>4. (owner = NoOutput => \A u \in Txs : events[u] # {} => job[u].pc \in Ended)'
  BY <1>1 DEF Settling
<1> QED BY <1>2, <1>3, <1>4 DEF Settling

\* A request is handled: its transaction completes or fails, and no other one is touched.
LEMMA SettlingHandled ==
    ASSUME TypeOK, Handover, Settling, NEW r \in inbox, r.stage = "arrived",
           NEW stage, Advance(r, stage),
           NEW end, tx' = [tx EXCEPT ![r.tx] = end],
           UNCHANGED <<job, events>>,
           \/ /\ stage = "committed" /\ end = "completed"
              /\ r.kind = "commit" /\ owner' # NoOutput
           \/ /\ stage \in {"rejected", "recorded"} /\ end = "failed" /\ owner' = owner
              /\ stage = "rejected" => owner # NoOutput
    PROVE  Settling'
<1>0. r.tx \in Txs /\ Awaits(r.tx, r) /\ tx'[r.tx] = end
      /\ \A u \in Txs \ {r.tx} : tx'[u] = tx[u]
  BY RequestFacts DEF Handover, TypeOK
<1>1. PICK h : h.tx = r.tx /\ h.stage = stage /\ inbox' = (inbox \ {r}) \cup {h}
  BY AdvanceIs
<1>2. \A q \in inbox \ {r} : q.tx \in Txs \ {r.tx}
  BY DEF Handover, TypeOK, Request
<1>3. (\A q \in inbox : q.stage = "committed" => tx[q.tx] = "completed")'
  BY <1>0, <1>1, <1>2 DEF Settling
<1>4. (\A q \in inbox : q.stage \in {"rejected", "recorded"} => tx[q.tx] = "failed")'
  BY <1>0, <1>1, <1>2 DEF Settling
<1>5. (\A q \in inbox : q.stage = "rejected" => owner # NoOutput)'
  BY <1>1 DEF Settling
<1>6. end = "completed" => job[r.tx].pc = "committing"
  BY <1>0 DEF Awaits, KindAwaited
<1>7. ASSUME NEW u \in Txs, tx'[u] = "completed"
      PROVE  /\ job'[u].pc \in {"committing", "done"}
             /\ \A q \in inbox' : q.tx = u => q.stage = "committed"
  <2>1. CASE u = r.tx
    BY <1>0, <1>1, <1>2, <1>6, <1>7, <2>1
  <2>2. CASE u # r.tx
    BY <1>0, <1>1, <1>7, <2>2 DEF Settling
  <2> QED BY <2>1, <2>2
<1>8. (owner = NoOutput => \A u \in Txs : events[u] # {} => job[u].pc \in Ended)'
  BY DEF Settling
<1> QED BY <1>3, <1>4, <1>5, <1>7, <1>8 DEF Settling

\* Nothing that Settling speaks of changes, but for transactions without request that are
\* not completed.
LEMMA SettlingTx ==
    ASSUME Settling, TypeOK, UNCHANGED <<job, inbox, owner, events>>,
           \A u \in Txs : \/ tx'[u] = tx[u]
                          \/ tx'[u] # "completed" /\ tx[u] # "completed" /\ tx[u] # "failed"
    PROVE  Settling'
<1>0. \A r \in inbox : r.tx \in Txs
  BY RequestFacts DEF TypeOK
<1>1. \A u \in Txs : /\ tx[u] = "failed" => tx'[u] = "failed"
                     /\ tx[u] = "completed" <=> tx'[u] = "completed"
  OBVIOUS
<1> QED BY <1>0, <1>1 DEF Settling

LEMMA SettlingStep ==
    TypeOK /\ Consistent /\ HInv /\ Fresh /\ Known /\ SInv /\ [Next]_vars => SInv'
<1> SUFFICES ASSUME TypeOK, Consistent, HInv, Fresh, Known, SInv, [Next]_vars, mishaps' = 0
             PROVE  Settling'
  BY DEF SInv
<1> USE DEF recordVars, snapshotVars
<1>0. Handover /\ Settling
  BY QuietSteps DEF HInv, SInv
<1>1. CASE Generate
  <2>1. \A u \in Txs \ {1} : tx'[u] = tx[u]
    BY <1>1 DEF Generate, TypeOK
  <2>2. 1 \in Txs /\ tx'[1] = "processing"
    BY <1>1, PipelineAssumption DEF Generate, TypeOK, Txs
  <2>3. tx[1] = "none"
    <3>1. latest = 0
      BY <1>1 DEF Generate, Fresh
    <3> QED BY <2>2, <3>1 DEF Known
  <2> QED BY <1>0, <1>1, <2>1, <2>2, <2>3, SettlingTx DEF Generate
<1>2. CASE Reprocess
  <2>1. latest + 1 \in Txs /\ latest \in Txs
    BY <1>2, PipelineAssumption DEF Reprocess, TypeOK, Txs
  <2>2. tx[latest + 1] = "none" /\ tx'[latest + 1] = "processing"
    BY <1>2, <2>1 DEF Reprocess, Known, TypeOK
  <2>3. \A u \in Txs \ {latest + 1} :
           tx'[u] = tx[u] \/ (tx'[u] = "failed" /\ tx[u] = "processing")
    BY <1>2 DEF Reprocess, InProgressHasLiveTx
  <2> QED BY <1>0, <1>2, <2>2, <2>3, SettlingTx DEF Reprocess
<1>3. CASE \/ UNCHANGED vars
           \/ \E target \in Statuses : Transition(target)
           \/ \E t \in Txs : Age(t)
  BY <1>0, <1>3, SettlingTx DEF vars, Transition, Age
<1>4. ASSUME NEW t \in Txs, EnqueueOk(t) PROVE Settling'
  <2>1. job[t].pc = "absent" /\ \A u \in Txs \ {t} : job'[u] = job[u]
    BY <1>0, <1>4, MoveIs DEF EnqueueOk, Handover, TypeOK
  <2> QED BY <1>0, <1>4, <2>1, SettlingMove DEF EnqueueOk, Ended
<1>5. ASSUME NEW t \in Txs, WorkerStep(t) PROVE Settling'
  <2>1. ~ ConnectionLost(t)
    BY <1>0 DEF ConnectionLost, Handover
  <2>2. job[t].pc \in {"queued", "running", "backoff"}
    BY <1>5, <2>1 DEF WorkerStep, AiStep, PopJob, AiSucceeds, AiTerminalError, AiError, Retry
  <2>3. \A u \in Txs \ {t} : job'[u] = job[u]
    BY <1>5, <2>1, MoveIs
       DEF WorkerStep, AiStep, PopJob, AiSucceeds, AiTerminalError, AiError, Retry, TypeOK
  <2>4. \A r \in inbox' : r \in inbox \/ (r.tx = t /\ r.stage = "arrived")
    BY <1>5, <2>1
       DEF WorkerStep, AiStep, PopJob, AiSucceeds, AiTerminalError, AiError, Retry, Send
  <2>5. UNCHANGED <<tx, owner, events>>
    BY <1>5, <2>1
       DEF WorkerStep, AiStep, PopJob, AiSucceeds, AiTerminalError, AiError, Retry
  <2> QED BY <1>0, <2>2, <2>3, <2>4, <2>5, SettlingMove DEF Ended
<1>6. ASSUME NEW r \in inbox, Commit(r) PROVE Settling'
  <2>1. owner' # NoOutput
    BY <1>6, RequestFacts DEF Commit, TypeOK, OutputOf, NoOutput, Txs
  <2> QED BY <1>0, <1>6, <2>1, SettlingHandled DEF Commit, Arrived
<1>7. ASSUME NEW r \in inbox, CommitDuplicate(r) \/ RecordFailure(r) PROVE Settling'
  BY <1>0, <1>7, SettlingHandled DEF CommitDuplicate, RecordFailure, MarkFailed, Arrived
<1>8. ASSUME NEW r \in inbox, CommitRefused(r) PROVE Settling'
  <2> DEFINE report == [r EXCEPT !.kind = "fail", !.failure = "processing-error"]
  <2>1. report.tx = r.tx /\ report.stage = r.stage /\ r.stage = "arrived"
    BY <1>8 DEF TypeOK, Request, CommitRefused, Arrived
  <2>2. inbox' \subseteq inbox \cup {report}
    BY <1>8 DEF CommitRefused
  <2> HIDE DEF report
  <2>3. r.tx \in Txs /\ tx[r.tx] # "completed" /\ job[r.tx].pc \in Waiting
    BY <1>0, <2>1, RequestFacts DEF Settling, TypeOK, Handover, Awaits
  <2>4. \A u \in Txs \ {r.tx} : job'[u] = job[u]
    BY <1>8, <2>3, MoveIs DEF CommitRefused, TypeOK
  <2>5. UNCHANGED <<tx, owner, events>>
    BY <1>8 DEF CommitRefused
  <2>6. owner = NoOutput => events[r.tx] = {}
    BY <1>0, <2>3, PlaceFacts DEF Settling
  <2>7. (\A q \in inbox : q.stage = "committed" => tx[q.tx] = "completed")'
        /\ (\A q \in inbox : q.stage \in {"rejected", "recorded"} => tx[q.tx] = "failed")'
        /\ (\A q \in inbox : q.stage = "rejected" => owner # NoOutput)'
    BY <1>0, <2>1, <2>2, <2>5 DEF Settling
  <2>8. (\A u \in Txs : tx[u] = "completed" =>
            /\ job[u].pc \in {"committing", "done"}
            /\ \A q \in inbox : q.tx = u => q.stage = "committed")'
    BY <1>0, <2>1, <2>2, <2>3, <2>4, <2>5 DEF Settling
  <2>9. (owner = NoOutput => \A u \in Txs : events[u] # {} => job[u].pc \in Ended)'
    BY <1>0, <2>3, <2>4, <2>5, <2>6 DEF Settling
  <2> QED BY <2>7, <2>8, <2>9 DEF Settling
<1>9. ASSUME NEW r \in inbox, Answer(r) PROVE Settling'
  <2>1. r.tx \in Txs /\ Awaits(r.tx, r) /\ r.stage # "arrived" /\ r.stage \in Stages
    BY <1>0, <1>9, RequestFacts DEF Handover, TypeOK, Answer, Request
  <2>2. UNCHANGED <<tx, owner>> /\ inbox' = inbox \ {r}
    BY <1>9 DEF Answer
  <2>3. PICK pc : /\ MoveJob(r.tx, pc)
                  /\ r.stage # "rejected" => pc \in {"dead", "done"}
                  /\ r.stage = "committed" /\ job[r.tx].pc # "exhausting" => pc = "done"
    BY <1>9, <2>1 DEF Answer
  <2>4. job'[r.tx].pc = pc /\ \A u \in Txs \ {r.tx} : job'[u] = job[u]
    BY <2>1, <2>3, MoveIs DEF TypeOK
  <2>5. \A u \in Txs \ {r.tx} : events'[u] = events[u]
    BY <1>9, <2>1 DEF Answer, PublishEvent, TypeOK
  <2>6. (\A q \in inbox : q.stage = "committed" => tx[q.tx] = "completed")'
        /\ (\A q \in inbox : q.stage \in {"rejected", "recorded"} => tx[q.tx] = "failed")'
        /\ (\A q \in inbox : q.stage = "rejected" => owner # NoOutput)'
    BY <1>0, <2>2 DEF Settling
  <2>7. tx[r.tx] = "completed" => pc = "done"
    <3>1. ASSUME tx[r.tx] = "completed" PROVE pc = "done"
      <4>1. r.stage = "committed" /\ job[r.tx].pc \in {"committing", "done"}
        BY <1>0, <2>1, <3>1 DEF Settling
      <4> QED BY <2>3, <4>1
    <3> QED BY <3>1
  <2>8. (\A u \in Txs : tx[u] = "completed" =>
            /\ job[u].pc \in {"committing", "done"}
            /\ \A q \in inbox : q.tx = u => q.stage = "committed")'
    BY <1>0, <2>2, <2>4, <2>7 DEF Settling
  <2>9. owner = NoOutput => pc \in Ended
    BY <1>0, <2>3, NoOwnerFacts DEF Settling, Ended
  <2>10. (owner = NoOutput => \A u \in Txs : events[u] # {} => job[u].pc \in Ended)'
    BY <1>0, <2>2, <2>4, <2>5, <2>9 DEF Settling
  <2> QED BY <2>6, <2>8, <2>10 DEF Settling
<1> QED BY <1>1, <1>2, <1>3, <1>4, <1>5, <1>6, <1>7, <1>8, <1>9, QuietSteps DEF UserStep, BackendStep

LEMMA Settled == Spec => [](IInv /\ HInv /\ Fresh /\ Known /\ SInv)
<1>1. Init => Known /\ SInv
  <2>1. ASSUME Init, NEW t \in Txs
        PROVE  job[t].pc = "absent" /\ tx[t] = "none" /\ events[t] = {} /\ caller[t] = "none"
    BY <2>1 DEF Init
  <2>2. ASSUME Init PROVE inbox = {}
    BY <2>2 DEF Init
  <2> QED BY <2>1, <2>2 DEF Known, SInv, Settling
<1>2. IInv /\ HInv /\ Fresh /\ Known /\ SInv /\ [Next]_vars => Known' /\ SInv'
  BY KnownStep, SettlingStep DEF IInv
<1> QED BY <1>1, <1>2, HandedOver, PTL DEF Spec

-----------------------------------------------------------------------------
(* The pipeline implements Generation                                      *)

LEMMA MishapsGrow ==
    ASSUME TypeOK, [Next]_vars
    PROVE  Failed => Failed'
<1>1. mishaps \in Nat
  BY PipelineAssumption DEF TypeOK
<1>2. Mishap => mishaps' = mishaps + 1
  BY DEF Mishap
<1>3. Mishap \/ UNCHANGED mishaps
  BY DEF Next, UserStep, EnqueueStep, WorkerStep, AiStep, BackendStep, Adversity, vars,
     Generate, Reprocess, Transition, EnqueueOk, EnqueueError, Age, PopJob,
     AiSucceeds, AiTerminalError, AiError, Retry, ConnectionLost, ProviderUnreachable,
     HandlerRedisError, DropJob, Timeout, WorkerCrash, BackendCrash, Commit, CommitDuplicate,
     MailError, CommitStorageError, CommitRefused, RecordFailure,
     RecordFailureSwallowed, Answer, LoseRequest
<1> QED BY <1>1, <1>2, <1>3 DEF Failed

LEMMA MishapFails == ASSUME TypeOK, Mishap PROVE Failed'
<1>1. mishaps \in Nat /\ mishaps' = mishaps + 1
  BY PipelineAssumption DEF TypeOK, Mishap
<1> QED BY <1>1 DEF Failed

\* Both modules take the statuses and their table from MinuteStatus.
LEMMA SameTables ==
    /\ Abstract!Failures = Failures
    /\ Abstract!Statuses = Statuses
    /\ Abstract!VALID_TRANSITIONS = VALID_TRANSITIONS
BY DEF Abstract!Failures, Failures, Abstract!Editable, Editable, Abstract!WithContent, WithContent,
   Abstract!Statuses, Statuses, Abstract!Terminal, Terminal,
   Abstract!VALID_TRANSITIONS, VALID_TRANSITIONS

\* The steps of Generation, apart from the line that faults stay.
AbstractMove ==
    \/ \E t \in Txs : Abstract!Begin(t) \/ Abstract!Complete(t) \/ Abstract!Fail(t)
    \/ Abstract!Move
    \/ \E t \in Txs, end \in {"completed", "failed"} : Abstract!Announce(t, end)
    \/ UNCHANGED <<status, tx, owner, events>>

\* An event published, or repeated, by a step that changes nothing else.
LEMMA AnnounceMove ==
    ASSUME NEW t \in Txs, NEW end \in {"completed", "failed"}, PublishEvent(t, end),
           end = "completed" => owner # NoOutput /\ owner.tx = t,
           ~ Failed' => tx[t] = end,
           UNCHANGED <<status, tx, owner>>
    PROVE  AbstractMove
<1>1. Abstract!Announce(t, end)
  BY DEF Abstract!Announce, PublishEvent
<1> QED BY <1>1 DEF AbstractMove

LEMMA FailMove ==
    ASSUME NEW t \in Txs, NEW failure \in Failures, MarkFailed(t, failure), tx[t] # "none",
           tx[t] = "completed" => Failed',
           UNCHANGED <<owner, events>>
    PROVE  AbstractMove
<1>1. Abstract!Fail(t)
  BY SameTables DEF Abstract!Fail, MarkFailed
<1> QED BY <1>1 DEF AbstractMove

\* The last attempt may end in an announcement that nobody confirms; that takes a fault.
LEMMA UnreportedMove ==
    ASSUME NEW t \in Txs, AnnounceUnreported(t), Failed', UNCHANGED <<status, tx, owner>>
    PROVE  AbstractMove
<1>1. CASE PublishEvent(t, "failed")
  BY <1>1, AnnounceMove
<1>2. CASE UNCHANGED events
  BY <1>2 DEF AbstractMove
<1> QED BY <1>1, <1>2 DEF AnnounceUnreported

LEMMA GenerationStep ==
    ASSUME IInv, HInv, Fresh, Known, SInv, [Next]_vars
    PROVE  AbstractMove
<1> USE DEF recordVars, snapshotVars
<1>0. /\ TypeOK /\ Consistent /\ (Failed => Failed')
      /\ ~ Failed => Handover /\ Settling
  <2>1. TypeOK /\ Consistent
    BY DEF IInv
  <2>2. ~ Failed => mishaps = 0
    BY <2>1, PipelineAssumption DEF Failed, TypeOK
  <2> QED BY <2>1, <2>2, MishapsGrow DEF HInv, SInv
<1>1. CASE Generate
  <2>1. latest = 0 /\ 1 \in Txs
    BY <1>1, PipelineAssumption DEF Generate, Fresh, Txs
  <2>2. tx[1] = "none"
    BY <2>1 DEF Known
  <2>3. tx' = [u \in Txs |-> IF u = 1 THEN "processing" ELSE IF u \in {} THEN "failed" ELSE tx[u]]
    BY <1>0, <1>1 DEF Generate, TypeOK
  <2>4. \E S \in SUBSET {u \in Txs : tx[u] = "processing"} :
           tx' = [u \in Txs |-> IF u = 1 THEN "processing" ELSE IF u \in S THEN "failed" ELSE tx[u]]
    <3> WITNESS {} \in SUBSET {u \in Txs : tx[u] = "processing"}
    <3> QED BY <2>3
  <2>5. Abstract!Begin(1)
    BY <1>1, <2>2, <2>4 DEF Generate, Abstract!Begin
  <2> QED BY <2>1, <2>5 DEF AbstractMove
<1>2. CASE Reprocess
  <2>1. latest + 1 \in Txs /\ latest \in Txs
    BY <1>0, <1>2, PipelineAssumption DEF Reprocess, TypeOK, Txs
  <2>2. tx[latest + 1] = "none"
    BY <1>0, <2>1 DEF Known, TypeOK
  <2>3. status \in {"none", "in-progress"} \cup Failures
    BY <1>2 DEF Reprocess, Eligible
  <2> DEFINE S == IF status = "in-progress" THEN {latest} ELSE {}
  <2>4. S \subseteq {u \in Txs : tx[u] = "processing"}
    BY <1>0, <2>1 DEF InProgressHasLiveTx
  <2>5. tx' = [u \in Txs |-> IF u = latest + 1 THEN "processing" ELSE IF u \in S THEN "failed" ELSE tx[u]]
    BY <1>2 DEF Reprocess
  <2> HIDE DEF S
  <2>6. Abstract!Begin(latest + 1)
    BY <1>2, <2>2, <2>3, <2>4, <2>5, SameTables DEF Reprocess, Abstract!Begin
  <2> QED BY <2>1, <2>6 DEF AbstractMove
<1>3. ASSUME NEW target \in Statuses, Transition(target) PROVE AbstractMove
  <2>1. Abstract!Move
    BY <1>3, SameTables DEF Transition, Abstract!Move
  <2> QED BY <2>1 DEF AbstractMove
<1>4. ASSUME NEW t \in Txs, EnqueueStep(t) PROVE AbstractMove
  <2>1. CASE UNCHANGED <<status, tx>>
    BY <1>4, <2>1 DEF EnqueueStep, EnqueueOk, EnqueueError, AbstractMove
  <2>2. CASE EnqueueError(t) /\ MarkFailed(t, "processing-error")
    <3>1. Failed' /\ tx[t] # "none"
      BY <1>0, <2>2, MishapFails DEF EnqueueError, Known
    <3> QED BY <2>2, <3>1, FailMove, FailureFacts DEF EnqueueError
  <2> QED BY <1>4, <2>1, <2>2 DEF EnqueueStep, EnqueueOk, EnqueueError, MarkFailed
<1>5. ASSUME NEW t \in Txs, Age(t) PROVE AbstractMove
  BY <1>5 DEF Age, AbstractMove
<1>6. ASSUME NEW t \in Txs, WorkerStep(t) PROVE AbstractMove
  <2>1. CASE ConnectionLost(t)
    <3>1. Failed'
      <4>1. ASSUME ~ Failed PROVE FALSE
        BY <1>0, <2>1, <4>1 DEF ConnectionLost, Handover
      <4> QED BY <1>0, <4>1
    <3> QED BY <2>1, <3>1, UnreportedMove DEF ConnectionLost, GoesUnanswered
  <2>2. CASE ~ ConnectionLost(t)
    BY <1>6, <2>2 DEF WorkerStep, AiStep, PopJob, AiSucceeds, AiTerminalError, AiError, Retry, AbstractMove
  <2> QED BY <2>1, <2>2
<1>7. ASSUME NEW t \in Txs,
             ProviderUnreachable(t) \/ HandlerRedisError(t) \/ DropJob(t) \/ Timeout(t)
      PROVE  AbstractMove
  <2>1. Failed'
    BY <1>0, <1>7, MishapFails DEF ProviderUnreachable, HandlerRedisError, DropJob, Timeout
  <2>2. CASE AnnounceUnreported(t)
    BY <1>7, <2>1, <2>2, UnreportedMove DEF ProviderUnreachable, HandlerRedisError, DropJob, Timeout
  <2>3. CASE UNCHANGED events
    BY <1>7, <2>3 DEF ProviderUnreachable, HandlerRedisError, DropJob, Timeout, AbstractMove
  <2> QED BY <1>7, <2>2, <2>3 DEF ProviderUnreachable, HandlerRedisError, DropJob, Timeout, GoesUnanswered
<1>8. CASE WorkerCrash \/ BackendCrash
  BY <1>8 DEF WorkerCrash, BackendCrash, AbstractMove
<1>9. ASSUME NEW r \in inbox, Commit(r) PROVE AbstractMove
  <2>1. r.tx \in Txs /\ tx[r.tx] # "none"
    BY <1>0, KnownTx
  <2>2. owner' # NoOutput /\ owner'.tx = r.tx
    BY <1>0, <1>9, RequestFacts DEF Commit, TypeOK, OutputOf, NoOutput, Txs
  <2>3. events[r.tx] # {} => Failed'
    <3>1. ASSUME ~ Failed PROVE events[r.tx] = {}
      <4>1. job[r.tx].pc \notin Ended
        BY <1>0, <2>1, <3>1, PlaceFacts DEF Handover, Awaits
      <4> QED BY <1>0, <1>9, <2>1, <3>1, <4>1 DEF Settling, Commit
    <3> QED BY <1>0, <3>1
  <2>4. Abstract!Complete(r.tx)
    BY <1>9, <2>1, <2>2, <2>3 DEF Commit, Abstract!Complete
  <2> QED BY <2>1, <2>4 DEF AbstractMove
<1>10. ASSUME NEW r \in inbox, Arrived(r, "commit") \/ Arrived(r, "fail"), tx[r.tx] = "completed"
       PROVE  Failed
  <2>1. r.tx \in Txs /\ r.stage = "arrived"
    BY <1>0, <1>10, KnownTx DEF Arrived
  <2> QED BY <1>0, <1>10, <2>1 DEF Settling
<1>11. ASSUME NEW r \in inbox, CommitDuplicate(r) \/ RecordFailure(r) PROVE AbstractMove
  <2>1. r.tx \in Txs /\ tx[r.tx] # "none" /\ r.failure \in Failures
    BY <1>0, KnownTx, RequestFacts DEF TypeOK
  <2>2. tx[r.tx] = "completed" => Failed'
    BY <1>0, <1>10, <1>11 DEF CommitDuplicate, RecordFailure
  <2> QED BY <1>11, <2>1, <2>2, FailMove, FailureFacts DEF CommitDuplicate, RecordFailure
<1>12. ASSUME NEW r \in inbox, MailError(r) \/ CommitStorageError(r) PROVE AbstractMove
  <2>1. r.tx \in Txs /\ tx[r.tx] # "none"
    BY <1>0, KnownTx
  <2>2. Failed'
    BY <1>0, <1>12, MishapFails DEF MailError, CommitStorageError
  <2>3. CASE MarkFailed(r.tx, "llm-failed")
    BY <1>12, <2>1, <2>2, <2>3, FailMove, FailureFacts DEF MailError, CommitStorageError
  <2>4. CASE UNCHANGED <<tx, status>>
    BY <1>12, <2>4 DEF MailError, CommitStorageError, AbstractMove
  <2> QED BY <1>12, <2>3, <2>4 DEF MailError, CommitStorageError
<1>13. ASSUME NEW r \in inbox, CommitRefused(r) \/ RecordFailureSwallowed(r) \/ LoseRequest(r)
       PROVE  AbstractMove
  BY <1>13 DEF CommitRefused, RecordFailureSwallowed, LoseRequest, AbstractMove
<1>14. ASSUME NEW r \in inbox, Answer(r) PROVE AbstractMove
  <2>1. r.tx \in Txs /\ r.stage \in Stages /\ r.stage # "arrived"
    BY <1>0, <1>14, RequestFacts DEF Answer, TypeOK, Request
  <2>2. UNCHANGED <<status, tx, owner>>
    BY <1>14 DEF Answer
  <2>3. CASE r.stage = "committed"
    <3>1. owner.tx = r.tx
      BY <1>0, <2>3 DEF AnswerTruthful
    <3>2. owner # NoOutput
      BY <2>1, <3>1 DEF NoOutput, Txs
    <3>3. ~ Failed' => tx[r.tx] = "completed"
      BY <1>0, <2>3 DEF Settling
    <3>4. PublishEvent(r.tx, "completed")
      BY <1>14, <2>3 DEF Answer
    <3> QED BY <2>1, <2>2, <3>1, <3>2, <3>3, <3>4, AnnounceMove
  <2>4. CASE r.stage # "committed"
    <3>1. ~ Failed' => tx[r.tx] = "failed"
      BY <1>0, <2>1, <2>4 DEF Settling, Stages
    <3>2. PublishEvent(r.tx, "failed")
      BY <1>14, <2>4 DEF Answer
    <3> QED BY <2>1, <2>2, <3>1, <3>2, AnnounceMove
  <2> QED BY <2>3, <2>4
<1>15. CASE UNCHANGED vars
  BY <1>15 DEF vars, AbstractMove
<1> QED
  BY <1>1, <1>2, <1>3, <1>4, <1>5, <1>6, <1>7, <1>8, <1>9, <1>11, <1>12, <1>13, <1>14, <1>15
     DEF Next, UserStep, BackendStep, Adversity

\* What users, editors and SSE clients may believe of a minute, for any number of
\* transactions, attempts and failures: the first committed output stays, a minute with
\* content is not generated again, an announcement is true when it is made, and without
\* an infrastructure failure no completed transaction fails and none completes after its
\* failure was announced.
THEOREM GenerationImplemented == Spec => ImplementsGeneration
<1>1. Init => Abstract!Init
  BY DEF Init, Abstract!Init, Failed
<1>2. IInv /\ HInv /\ Fresh /\ Known /\ SInv /\ [Next]_vars => [Abstract!Next]_(Abstract!vars)
  <2> SUFFICES ASSUME IInv, HInv, Fresh, Known, SInv, [Next]_vars PROVE Abstract!Next
    OBVIOUS
  <2>1. AbstractMove /\ (Failed => Failed')
    BY GenerationStep, MishapsGrow DEF IInv
  <2> QED BY <2>1 DEF AbstractMove, Abstract!Next
<1> QED BY <1>1, <1>2, Settled, PTL DEF Spec, ImplementsGeneration, Abstract!Spec

\* MinuteWatch lets the status of a transaction and the messages of its channel change as
\* the pipeline does, whatever fails: no other outcome reaches a browser.
THEOREM OutcomesWatched == Spec => OutcomesAsWatched
<1>1. IInv /\ HInv /\ Fresh /\ Known /\ SInv /\ [Next]_vars => [OutcomesMove]_<<tx, events>>
  <2> SUFFICES ASSUME IInv, HInv, Fresh, Known, SInv, [Next]_vars PROVE OutcomesMove
    OBVIOUS
  <2>1. /\ tx \in [Txs -> {"none", "processing", "completed", "failed"}]
        /\ events \in [Txs -> SUBSET {"completed", "failed"}]
    BY DEF IInv, TypeOK
  <2>2. AbstractMove
    BY GenerationStep
  <2>3. ASSUME NEW u \in Txs, Abstract!Begin(u) PROVE OutcomesMove
    BY <2>1, <2>3 DEF Abstract!Begin, OutcomesMove, OutcomeMoves
  <2>4. ASSUME NEW u \in Txs, Abstract!Complete(u) \/ Abstract!Fail(u) PROVE OutcomesMove
    BY <2>1, <2>4 DEF Abstract!Complete, Abstract!Fail, OutcomesMove, OutcomeMoves
  <2>5. ASSUME NEW u \in Txs, NEW end \in {"completed", "failed"}, Abstract!Announce(u, end)
        PROVE  OutcomesMove
    BY <2>1, <2>5 DEF Abstract!Announce, OutcomesMove
  <2>6. CASE Abstract!Move \/ UNCHANGED <<status, tx, owner, events>>
    BY <2>6 DEF Abstract!Move, OutcomesMove
  <2> QED BY <2>2, <2>3, <2>4, <2>5, <2>6 DEF AbstractMove
<1> QED BY <1>1, Settled, PTL DEF Spec, OutcomesAsWatched

-----------------------------------------------------------------------------
(* The jobs stay within JobContract                                        *)

\* The steps of JobContract, apart from the line that faults stay.
QueueMove ==
    \/ \E t \in Txs : Queue!Step(t)
    \/ \E S \in SUBSET Txs : Queue!Lose(S)
    \/ UNCHANGED <<JobStages, JobRuns>>

Busy == {"running"} \cup Waiting

LEMMA StageFacts ==
    /\ \A p \in Busy : StageAt(p) = "running"
    /\ \A p \in Places \ Busy : StageAt(p) = p
    /\ \A a : RunsAt("lost", a) = 0 /\ RunsAt("absent", a) = a - 1 /\ RunsAt("queued", a) = a - 1
    /\ \A a : \A p \in Busy \cup {"backoff", "done", "dead"} : RunsAt(p, a) = a
    /\ Busy \subseteq Places
    /\ Busy \cap ({"absent", "queued", "backoff"} \cup Ended) = {}
  BY DEF Busy, Waiting, Ended, Places, StageAt, RunsAt

\* One job changes place, and perhaps its attempt.
LEMMA OneJob ==
    ASSUME NEW t \in Txs, NEW pc, NEW attempt,
           job'[t].pc = pc, job'[t].attempt = attempt,
           \A u \in Txs \ {t} : job'[u] = job[u]
    PROVE  /\ JobStages' = [JobStages EXCEPT ![t] = StageAt(pc)]
           /\ JobRuns' = [JobRuns EXCEPT ![t] = RunsAt(pc, attempt)]
           /\ JobStages[t] = StageAt(job[t].pc)
           /\ JobRuns[t] = RunsAt(job[t].pc, job[t].attempt)
  BY DEF JobStages, JobRuns

\* The places a handler takes its job through, with the attempts that the limit leaves.
LEMMA QueueMoves ==
    ASSUME TypeOK, NEW t \in Txs, NEW pc \in Places, MoveJob(t, pc),
           \/ job[t].pc = "absent" /\ pc = "queued"
           \/ job[t].pc = "queued" /\ pc = "running"
           \/ job[t].pc \in Busy /\ pc \in Waiting \cup {"done"}
           \/ job[t].pc \in Busy /\ pc = "backoff" /\ ~ Exhausted(t)
           \/ job[t].pc \in Busy /\ pc = "dead" /\ Exhausted(t)
    PROVE  QueueMove
<1> DEFINE a == job[t].attempt
<1>1. a \in 1..MaxRetries /\ MaxRetries \in Nat /\ job \in [Txs -> Job]
  BY PipelineAssumption DEF TypeOK, Job, Attempts
<1>2. /\ job'[t].pc = pc /\ job'[t].attempt = a
      /\ \A u \in Txs \ {t} : job'[u] = job[u]
  BY <1>1, MoveIs
<1> HIDE DEF a
<1>3. /\ JobStages' = [JobStages EXCEPT ![t] = StageAt(pc)]
      /\ JobRuns' = [JobRuns EXCEPT ![t] = RunsAt(pc, a)]
      /\ JobStages[t] = StageAt(job[t].pc)
      /\ JobRuns[t] = RunsAt(job[t].pc, a)
  BY <1>2, OneJob DEF a
<1>4. JobRuns = [JobRuns EXCEPT ![t] = JobRuns[t]] /\ JobStages = [JobStages EXCEPT ![t] = JobStages[t]]
  BY DEF JobRuns, JobStages
<1>5. CASE job[t].pc = "absent" /\ pc = "queued"
  <2>0. /\ StageAt("absent") = "absent" /\ StageAt("queued") = "queued"
        /\ RunsAt("absent", a) = RunsAt("queued", a)
    BY StageFacts, PlacesFacts DEF Busy, Waiting
  <2>1. Queue!Push(t)
    BY <1>3, <1>4, <1>5, <2>0 DEF Queue!Push, Queue!Moves
  <2> QED BY <2>1 DEF QueueMove, Queue!Step
<1>6. CASE job[t].pc = "queued" /\ pc = "running"
  <2>1. StageAt("queued") = "queued" /\ StageAt("running") = "running"
    BY StageFacts DEF Busy, Places, Waiting
  <2>2. RunsAt("queued", a) = a - 1 /\ RunsAt("running", a) = a
    BY StageFacts DEF Busy
  <2>4. JobRuns[t] < MaxRetries /\ JobRuns[t] + 1 = a
    BY <1>1, <1>3, <1>6, <2>2
  <2>5. Queue!Moves(t, "queued", "running")
    BY <1>3, <1>6, <2>1 DEF Queue!Moves
  <2>6. JobRuns' = [JobRuns EXCEPT ![t] = @ + 1]
    BY <1>3, <1>6, <2>2, <2>4
  <2>3. Queue!Run(t)
    BY <2>4, <2>5, <2>6 DEF Queue!Run
  <2> QED BY <2>3 DEF QueueMove, Queue!Step
<1>7. ASSUME job[t].pc \in Busy
      PROVE  JobStages[t] = "running" /\ JobRuns[t] = a
  BY <1>3, <1>7, StageFacts
<1>8. CASE job[t].pc \in Busy /\ pc \in Waiting
  <2>1. StageAt(pc) = "running" /\ RunsAt(pc, a) = a
    BY <1>8, StageFacts DEF Busy
  <2> QED BY <1>3, <1>4, <1>7, <1>8, <2>1 DEF QueueMove
<1>9. CASE job[t].pc \in Busy /\ pc \in {"done", "backoff", "dead"}
  <2>1. StageAt(pc) = pc /\ RunsAt(pc, a) = a
    BY <1>9, StageFacts DEF Ended
  <2>2. UNCHANGED JobRuns
    BY <1>3, <1>4, <1>7, <1>9, <2>1
  <2>3. Queue!Moves(t, "running", pc)
    BY <1>3, <1>7, <1>9, <2>1 DEF Queue!Moves
  <2>4. JobRuns[t] = a /\ (Exhausted(t) <=> a >= MaxRetries)
    BY <1>7, <1>9 DEF Exhausted, a
  <2>5. CASE pc = "done"
    BY <2>2, <2>3, <2>5 DEF QueueMove, Queue!Step, Queue!Succeed
  <2>6. CASE pc = "backoff"
    BY <1>1, <1>9, <2>2, <2>3, <2>4, <2>6, PlaceFacts DEF QueueMove, Queue!Step, Queue!BackOff
  <2>7. CASE pc = "dead"
    BY <1>1, <1>9, <2>2, <2>3, <2>4, <2>7, PlaceFacts DEF QueueMove, Queue!Step, Queue!Bury, Ended
  <2> QED BY <1>9, <2>5, <2>6, <2>7
<1> QED BY <1>5, <1>6, <1>8, <1>9

\* What is lost is lost by a fault.
LEMMA LosingMove ==
    ASSUME Failed', NEW S \in SUBSET Txs,
           \A t \in S : job'[t].pc = "lost",
           \A t \in Txs \ S : job'[t] = job[t]
    PROVE  QueueMove
<1>1. JobStages' = [t \in Txs |-> IF t \in S THEN "lost" ELSE JobStages[t]]
  BY StageFacts, PlacesFacts DEF JobStages, Busy, Waiting
<1>2. JobRuns' = [t \in Txs |-> IF t \in S THEN 0 ELSE JobRuns[t]]
  BY StageFacts DEF JobRuns
<1>3. Queue!Lose(S)
  BY <1>1, <1>2 DEF Queue!Lose
<1> QED BY <1>3 DEF QueueMove

\* An exception that leaves a handler, whatever raised it.
LEMMA RaisingMove ==
    ASSUME TypeOK, NEW t \in Txs, job[t].pc \in Busy, MoveJob(t, AfterRaise(t))
    PROVE  QueueMove
<1>1. CASE Exhausted(t)
  BY <1>1, QueueMoves, PlacesFacts DEF AfterRaise
<1>2. CASE ~ Exhausted(t)
  BY <1>2, QueueMoves, PlacesFacts DEF AfterRaise
<1> QED BY <1>1, <1>2

LEMMA UnansweredQueueMove ==
    ASSUME TypeOK, Known, NEW t \in Txs, job[t].pc \in Waiting, GoesUnanswered(t)
    PROVE  QueueMove
<1>1. job[t].pc \in Busy
  BY DEF Busy
<1>2. CASE job[t].pc = "committing"
  BY <1>1, <1>2, RaisingMove DEF GoesUnanswered
<1>3. CASE job[t].pc = "closing"
  BY <1>1, <1>3, QueueMoves, PlacesFacts DEF GoesUnanswered
<1>4. CASE job[t].pc = "exhausting"
  BY <1>1, <1>4, QueueMoves, PlacesFacts DEF GoesUnanswered, Known
<1> QED BY <1>2, <1>3, <1>4 DEF Waiting

\* The next attempt is pushed with its number.
LEMMA RetryQueueMove ==
    ASSUME TypeOK, NEW t \in Txs, Retry(t)
    PROVE  QueueMove
<1> DEFINE a == job[t].attempt
<1>1. a \in Nat
  BY PipelineAssumption DEF TypeOK, Job, Attempts
<1>2. /\ job'[t].pc = "queued" /\ job'[t].attempt = a + 1
      /\ \A u \in Txs \ {t} : job'[u] = job[u]
  BY DEF Retry, TypeOK
<1> HIDE DEF a
<1>3. /\ JobStages' = [JobStages EXCEPT ![t] = StageAt("queued")]
      /\ JobRuns' = [JobRuns EXCEPT ![t] = RunsAt("queued", a + 1)]
      /\ JobStages[t] = StageAt("backoff")
      /\ JobRuns[t] = RunsAt("backoff", a)
  BY <1>2, OneJob DEF a, Retry
<1>4. StageAt("queued") = "queued" /\ StageAt("backoff") = "backoff"
  BY StageFacts, PlacesFacts DEF Busy, Waiting
<1>5. RunsAt("queued", a + 1) = a /\ RunsAt("backoff", a) = a
  BY <1>1, StageFacts
<1>6. UNCHANGED JobRuns
  BY <1>3, <1>5 DEF JobRuns
<1>7. Queue!PushAgain(t)
  BY <1>3, <1>4, <1>6 DEF Queue!PushAgain, Queue!Moves
<1> QED BY <1>7 DEF QueueMove, Queue!Step

LEMMA QueueStep ==
    ASSUME TypeOK, BackoffHasAttempts, Known, [Next]_vars
    PROVE  QueueMove
<1>1. CASE UNCHANGED job
  BY <1>1 DEF QueueMove, JobStages, JobRuns
<1>2. ASSUME NEW t \in Txs, EnqueueStep(t) PROVE QueueMove
  <2>1. job[t].pc = "absent"
    BY <1>2 DEF EnqueueStep, EnqueueOk, EnqueueError, Known
  <2>2. CASE MoveJob(t, "queued")
    BY <2>1, <2>2, QueueMoves, PlacesFacts
  <2> QED BY <1>1, <1>2, <2>2 DEF EnqueueStep, EnqueueOk, EnqueueError
<1>3. ASSUME NEW t \in Txs, WorkerStep(t) PROVE QueueMove
  <2>1. CASE PopJob(t)
    BY <2>1, QueueMoves, PlacesFacts DEF PopJob
  <2>2. CASE AiSucceeds(t)
    BY <2>2, QueueMoves, PlacesFacts DEF AiSucceeds, Busy, Waiting
  <2>3. ASSUME NEW failure \in Failures, AiTerminalError(t, failure) PROVE QueueMove
    BY <2>3, QueueMoves, PlacesFacts DEF AiTerminalError, Busy, Waiting
  <2>4. CASE AiError(t)
    BY <2>4, QueueMoves, PlacesFacts DEF AiError, Busy, Waiting
  <2>5. CASE Retry(t)
    BY <2>5, RetryQueueMove
  <2>6. CASE ConnectionLost(t)
    BY <2>6, UnansweredQueueMove DEF ConnectionLost
  <2> QED BY <1>3, <2>1, <2>2, <2>3, <2>4, <2>5, <2>6 DEF WorkerStep, AiStep
<1>4. ASSUME NEW t \in Txs,
             ProviderUnreachable(t) \/ HandlerRedisError(t) \/ DropJob(t) \/ Timeout(t)
      PROVE  QueueMove
  <2>1. CASE ProviderUnreachable(t)
    BY <2>1, RaisingMove DEF ProviderUnreachable, Busy
  <2>2. CASE HandlerRedisError(t)
    BY <2>2, RaisingMove DEF HandlerRedisError, Busy
  <2>3. CASE DropJob(t)
    <3>1. Failed'
      BY <2>3, MishapFails DEF DropJob
    <3>2. job'[t].pc = "lost" /\ \A u \in Txs \ {t} : job'[u] = job[u]
      BY <2>3, MoveIs DEF DropJob, TypeOK
    <3>3. /\ {t} \in SUBSET Txs
          /\ \A u \in {t} : job'[u].pc = "lost"
      BY <3>2
    <3> QED BY <3>1, <3>2, <3>3, LosingMove
  <2>4. CASE Timeout(t)
    BY <2>4, UnansweredQueueMove DEF Timeout, Awaits
  <2> QED BY <1>4, <2>1, <2>2, <2>3, <2>4
<1>5. CASE WorkerCrash
  <2> DEFINE S == {t \in Txs : job[t].pc \in {"running", "backoff"} \cup Waiting}
  <2>1. Failed'
    BY <1>5, MishapFails DEF WorkerCrash
  <2>2. \A t \in S : job'[t].pc = "lost"
    BY <1>5 DEF WorkerCrash, TypeOK, Job
  <2>3. \A t \in Txs \ S : job'[t] = job[t]
    BY <1>5 DEF WorkerCrash
  <2> HIDE DEF S
  <2>4. S \in SUBSET Txs
    BY DEF S
  <2> QED BY <2>1, <2>2, <2>3, <2>4, LosingMove
<1>6. ASSUME NEW r \in inbox, Answer(r) PROVE QueueMove
  <2>1. r.tx \in Txs
    BY RequestFacts DEF TypeOK
  <2>2. CASE Awaits(r.tx, r)
    <3>1. job[r.tx].pc \in Waiting /\ job[r.tx].pc \in Busy
      BY <2>2 DEF Awaits, Busy
    <3>2. CASE job[r.tx].pc = "exhausting"
      <4>1. Exhausted(r.tx) /\ AfterRaise(r.tx) = "dead"
        BY <2>1, <3>2 DEF Known, AfterRaise
      <4>2. MoveJob(r.tx, "dead")
        BY <1>6, <2>2, <3>2, <4>1 DEF Answer
      <4> QED BY <2>1, <3>1, <4>1, <4>2, QueueMoves, PlacesFacts
    <3>3. CASE r.stage = "rejected" /\ job[r.tx].pc # "exhausting"
      <4>1. MoveJob(r.tx, AfterRaise(r.tx))
        BY <1>6, <2>2, <3>3 DEF Answer
      <4> QED BY <2>1, <3>1, <4>1, RaisingMove
    <3>4. CASE r.stage # "rejected" /\ job[r.tx].pc # "exhausting"
      BY <1>6, <2>1, <2>2, <3>1, <3>4, QueueMoves, PlacesFacts DEF Answer
    <3> QED BY <3>2, <3>3, <3>4
  <2> QED BY <1>1, <1>6, <2>2 DEF Answer
<1>7. ASSUME NEW r \in inbox, CommitRefused(r) PROVE QueueMove
  <2>1. r.tx \in Txs
    BY RequestFacts DEF TypeOK
  <2>2. CASE Awaits(r.tx, r)
    BY <1>7, <2>1, <2>2, QueueMoves, PlacesFacts DEF CommitRefused, Awaits, Busy, Waiting
  <2> QED BY <1>1, <1>7, <2>2 DEF CommitRefused
<1> QED
  BY <1>1, <1>2, <1>3, <1>4, <1>5, <1>6, <1>7
     DEF Next, UserStep, BackendStep, Adversity, vars,
         Generate, Reprocess, Transition, Age, Commit, CommitDuplicate, RecordFailure,
         BackendCrash, MailError, CommitStorageError, RecordFailureSwallowed,
         LoseRequest

\* The pipeline asks of the queue nothing that JobWorker does not show the runtime to
\* give, for any number of transactions, attempts and failures: a transaction's job is
\* pushed once, at most MaxRetries attempts run one after the other, it is buried only
\* after the last one, and without an infrastructure failure it is not lost.
THEOREM JobContractKept == Spec => KeepsJobContract
<1>1. Init => Queue!Init
  <2> SUFFICES ASSUME Init PROVE Queue!Init
    OBVIOUS
  <2>1. \A t \in Txs : job[t].pc = "absent" /\ job[t].attempt = 1
    BY DEF Init
  <2>2. StageAt("absent") = "absent" /\ RunsAt("absent", 1) = 0
    BY StageFacts, PlacesFacts DEF Busy, Waiting
  <2>3. ~ Failed
    BY DEF Init, Failed
  <2> QED BY <2>1, <2>2, <2>3 DEF Queue!Init, JobStages, JobRuns
<1>2. IInv /\ Known /\ [Next]_vars => [Queue!Next]_(Queue!vars)
  <2> SUFFICES ASSUME IInv, Known, [Next]_vars PROVE Queue!Next
    OBVIOUS
  <2>1. QueueMove /\ (Failed => Failed')
    BY QueueStep, MishapsGrow DEF IInv
  <2>2. CASE UNCHANGED <<JobStages, JobRuns>>
    <3>1. Queue!Evict({})
      BY <2>2 DEF Queue!Evict, JobStages
    <3> QED BY <2>1, <3>1 DEF Queue!Next
  <2> QED BY <2>1, <2>2 DEF QueueMove, Queue!Next
<1> QED BY <1>1, <1>2, Settled, PTL DEF Spec, KeepsJobContract, Queue!Spec

=============================================================================
