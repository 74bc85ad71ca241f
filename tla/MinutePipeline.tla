--------------------------- MODULE MinutePipeline ---------------------------
(***************************************************************************)
(* The life of one minute from POST /minutes/generate on: the backend's    *)
(* TX1 and reprocess, the job the worker runs for each transaction, the    *)
(* two internal requests the job ends with (commit and fail), and the      *)
(* user's transitions that meanwhile act on the same record.               *)
(*                                                                         *)
(* The backend is one asyncio process with synchronous database calls: a   *)
(* handler is atomic between two awaits.  A request the worker stopped     *)
(* waiting for is still handled.  JobWorker models the queue in detail;    *)
(* here a job is its place in the handler.                                 *)
(***************************************************************************)
EXTENDS MinuteStatus, Integers, FiniteSets

CONSTANTS
    MaxTxs,      \* bound on MinuteTransactions: one generate, the rest reprocesses
    MaxRetries,  \* MAX_RETRIES of the worker
    MaxMishaps   \* bound on failures of the infrastructure

ASSUME PipelineAssumption ==
    /\ MaxTxs \in Nat \ {0}
    /\ MaxRetries \in Nat \ {0}
    /\ MaxMishaps \in Nat

VARIABLES
    status,    \* Record.status, "none" before generate
    deleted,   \* Record.deleted_at is set
    latest,    \* number of MinuteTransactions; the one created last is tx[latest]
    tx,        \* MinuteTransaction.status
    stale,     \* transactions older than STALE_PROCESSING_MINUTES
    caller,    \* the backend coroutine that created t and has to enqueue its job
    job,       \* the worker's job of each transaction
    inbox,     \* internal requests the backend has received and not answered
    owner,     \* the output whose v0 rows (Object, RecordVersion, RecordDraft) exist
    v0obj,     \* the output last written to schema_output_v0.json
    events,    \* SSE events published for each transaction
    mishaps    \* infrastructure failures so far

recordVars == <<status, deleted, tx>>
snapshotVars == <<owner, v0obj>>
vars == <<status, deleted, latest, tx, stale, caller, job, inbox, owner, v0obj, events, mishaps>>

Txs == 1..MaxTxs
Attempts == 1..MaxRetries

\* A job waits for the backend in three places: the commit, the report of an error it
\* will not retry ("closing"), the report of the last failed attempt ("exhausting").
Waiting == {"committing", "closing", "exhausting"}
Ended == {"done", "dead", "lost"}
Places == {"absent", "queued", "running", "backoff"} \cup Waiting \cup Ended
Job == [pc : Places, attempt : Attempts]

\* An AI output: every attempt calls the provider again.
Output == [tx : Txs, attempt : Attempts]
NoOutput == [tx |-> 0]

Stages == {"arrived", "committed", "rejected", "recorded"}
Request == [kind : {"commit", "fail"}, tx : Txs, attempt : Attempts,
            failure : Failures, stage : Stages]

Init ==
    /\ status = "none"
    /\ deleted = FALSE
    /\ latest = 0
    /\ tx = [t \in Txs |-> "none"]
    /\ stale = {}
    /\ caller = [t \in Txs |-> "none"]
    /\ job = [t \in Txs |-> [pc |-> "absent", attempt |-> 1]]
    /\ inbox = {}
    /\ owner = NoOutput
    /\ v0obj = NoOutput
    /\ events = [t \in Txs |-> {}]
    /\ mishaps = 0

Mishap ==
    /\ mishaps < MaxMishaps
    /\ mishaps' = mishaps + 1

MoveJob(t, pc) == job' = [job EXCEPT ![t].pc = pc]

\* Mutant: failures are recorded and not announced.
PublishCompletedOnly(t, e) ==
    events' = IF e = "completed" THEN [events EXCEPT ![t] = @ \cup {e}] ELSE events

PublishEvent(t, e) == events' = [events EXCEPT ![t] = @ \cup {e}]

-----------------------------------------------------------------------------
(* Backend: generate, reprocess and the transitions of the user            *)

\* TX1 commits the record and its first transaction; the enqueue is awaited next.
Generate ==
    /\ status = "none"
    /\ status' = "in-progress"
    /\ latest' = 1
    /\ tx' = [tx EXCEPT ![1] = "processing"]
    /\ caller' = [caller EXCEPT ![1] = "enqueueing"]
    /\ UNCHANGED <<deleted, stale, job, inbox, snapshotVars, events, mishaps>>

\* Mutant: a stalled transaction cannot be reprocessed.
EligibleWhenFailed == status \in Failures

\* get_reprocess_eligibility
Eligible ==
    \/ status \in Failures
    \/ /\ status = "in-progress"
       /\ \/ tx[latest] = "failed"
          \/ tx[latest] = "processing" /\ latest \in stale

\* A stalled transaction is closed; one left "processing" under a failed record is not.
Reprocess ==
    /\ ~ deleted
    /\ latest \in 1..(MaxTxs - 1)
    /\ Eligible
    /\ tx' = [t \in Txs |->
                CASE t = latest + 1 -> "processing"
                  [] t = latest /\ status = "in-progress" -> "failed"
                  [] OTHER -> tx[t]]
    /\ latest' = latest + 1
    /\ status' = "in-progress"
    /\ caller' = [caller EXCEPT ![latest + 1] = "enqueueing"]
    /\ UNCHANGED <<deleted, stale, job, inbox, snapshotVars, events, mishaps>>

EnqueueOk(t) ==
    /\ caller[t] = "enqueueing"
    /\ caller' = [caller EXCEPT ![t] = "returned"]
    /\ MoveJob(t, "queued")
    /\ UNCHANGED <<recordVars, latest, stale, inbox, snapshotVars, events, mishaps>>

\* The RPUSH raises, perhaps after Redis applied it.  generate only logs; reprocess
\* marks the transaction and, whatever happened to it meanwhile, the record.
EnqueueError(t) ==
    /\ caller[t] = "enqueueing"
    /\ Mishap
    /\ caller' = [caller EXCEPT ![t] = "returned"]
    /\ \/ UNCHANGED job
       \/ MoveJob(t, "queued")
    /\ IF t = 1
       THEN UNCHANGED <<status, tx>>
       ELSE /\ tx' = [tx EXCEPT ![t] = "failed"]
            /\ status' = "processing-error"
    /\ UNCHANGED <<deleted, latest, stale, inbox, snapshotVars, events>>

\* STALE_PROCESSING_MINUTES have passed since the transaction was written.
Age(t) ==
    /\ tx[t] = "processing"
    /\ t \notin stale
    /\ stale' = stale \cup {t}
    /\ UNCHANGED <<recordVars, latest, caller, job, inbox, snapshotVars, events, mishaps>>

\* Mutant: any status the user names, without the table.
TransitionUnchecked(target) ==
    /\ status \in Statuses
    /\ ~ deleted
    /\ target # "in-progress"
    /\ status' = target
    /\ deleted' = (target = "deleted")
    /\ UNCHANGED <<latest, tx, stale, caller, job, inbox, snapshotVars, events, mishaps>>

\* transition_minute; MinuteRecord models what it does to versions and drafts.
Transition(target) ==
    /\ status \in Statuses
    /\ ~ deleted
    /\ target \in VALID_TRANSITIONS[status]
    /\ status' = target
    /\ deleted' = (target = "deleted")
    /\ UNCHANGED <<latest, tx, stale, caller, job, inbox, snapshotVars, events, mishaps>>

-----------------------------------------------------------------------------
(* Worker: handle_minutes_job inside _execute_job                          *)

\* Mutant: the last attempt is still retried.
ExhaustedLate(t) == job[t].attempt > MaxRetries

Exhausted(t) == job[t].attempt >= MaxRetries

\* The exception leaves the handler: _execute_job retries or buries the job.
AfterRaise(t) == IF Exhausted(t) THEN "dead" ELSE "backoff"

\* The finally clause: a failure nobody reported is announced on the last attempt.
AnnounceUnreported(t) ==
    IF Exhausted(t) THEN PublishEvent(t, "failed") ELSE UNCHANGED events

Send(kind, t, failure) ==
    inbox' = inbox \cup {[kind |-> kind, tx |-> t, attempt |-> job[t].attempt,
                          failure |-> failure, stage |-> "arrived"]}

PopJob(t) ==
    /\ job[t].pc = "queued"
    /\ MoveJob(t, "running")
    /\ UNCHANGED <<recordVars, latest, stale, caller, inbox, snapshotVars, events, mishaps>>

\* The provider answered and the output parses: commit_tx2.
AiSucceeds(t) ==
    /\ job[t].pc = "running"
    /\ MoveJob(t, "committing")
    /\ Send("commit", t, "llm-failed")
    /\ UNCHANGED <<recordVars, latest, stale, caller, snapshotVars, events, mishaps>>

\* NonRetryableMinuteError
AiTerminalError(t, failure) ==
    /\ job[t].pc = "running"
    /\ MoveJob(t, "closing")
    /\ Send("fail", t, failure)
    /\ UNCHANGED <<recordVars, latest, stale, caller, snapshotVars, events, mishaps>>

\* Mutant: the last attempt ends without the report.
AiErrorUnreported(t) ==
    /\ job[t].pc = "running"
    /\ MoveJob(t, AfterRaise(t))
    /\ UNCHANGED <<recordVars, latest, stale, caller, inbox, snapshotVars, events, mishaps>>

\* Any other exception of the processing: reported on the last attempt only.
AiError(t) ==
    /\ job[t].pc = "running"
    /\ IF Exhausted(t)
       THEN MoveJob(t, "exhausting") /\ Send("fail", t, "processing-error")
       ELSE MoveJob(t, "backoff") /\ UNCHANGED inbox
    /\ UNCHANGED <<recordVars, latest, stale, caller, snapshotVars, events, mishaps>>

\* The provider configuration cannot be fetched: a retryable BackendClientError is
\* raised without a report, even on the last attempt.
ProviderUnreachable(t) ==
    /\ job[t].pc = "running"
    /\ Mishap
    /\ MoveJob(t, AfterRaise(t))
    /\ AnnounceUnreported(t)
    /\ UNCHANGED <<recordVars, latest, stale, caller, inbox, snapshotVars>>

\* get_redis raises before the try: no report and no event.
HandlerRedisError(t) ==
    /\ job[t].pc = "running"
    /\ Mishap
    /\ MoveJob(t, AfterRaise(t))
    /\ UNCHANGED <<recordVars, latest, stale, caller, inbox, snapshotVars, events>>

Retry(t) ==
    /\ job[t].pc = "backoff"
    /\ job' = [job EXCEPT ![t] = [pc |-> "queued", attempt |-> @.attempt + 1]]
    /\ UNCHANGED <<recordVars, latest, stale, caller, inbox, snapshotVars, events, mishaps>>

\* Redis fails as the loop records the pop or as the task pushes the next attempt.
DropJob(t) ==
    /\ job[t].pc \in {"queued", "backoff"}
    /\ Mishap
    /\ MoveJob(t, "lost")
    /\ UNCHANGED <<recordVars, latest, stale, caller, inbox, snapshotVars, events>>

\* The process dies: what it had popped is gone, what it had sent is not.
WorkerCrash ==
    /\ Mishap
    /\ job' = [t \in Txs |->
                 IF job[t].pc \in {"running", "backoff"} \cup Waiting
                 THEN [job[t] EXCEPT !.pc = "lost"] ELSE job[t]]
    /\ UNCHANGED <<recordVars, latest, stale, caller, inbox, snapshotVars, events>>

KindAwaited(t) == IF job[t].pc = "committing" THEN "commit" ELSE "fail"
Awaits(t, r) ==
    /\ job[t].pc \in Waiting
    /\ r.tx = t
    /\ r.attempt = job[t].attempt
    /\ r.kind = KindAwaited(t)

\* URLError or timeout.  A lost commit is retryable; a lost report is only logged.
GoesUnanswered(t) ==
    /\ MoveJob(t, CASE job[t].pc = "committing" -> AfterRaise(t)
                    [] job[t].pc = "closing"    -> "done"
                    [] job[t].pc = "exhausting" -> "dead")
    /\ AnnounceUnreported(t)

\* The request is no longer at the backend: the connection breaks.
ConnectionLost(t) ==
    /\ job[t].pc \in Waiting
    /\ ~ \E r \in inbox : Awaits(t, r)
    /\ GoesUnanswered(t)
    /\ UNCHANGED <<recordVars, latest, stale, caller, inbox, snapshotVars, mishaps>>

\* BACKEND_TIMEOUT expires while the backend still works on the request, or the
\* answer is lost.
Timeout(t) ==
    /\ \E r \in inbox : Awaits(t, r)
    /\ Mishap
    /\ GoesUnanswered(t)
    /\ UNCHANGED <<recordVars, latest, stale, caller, inbox, snapshotVars>>

-----------------------------------------------------------------------------
(* Backend: the internal requests                                          *)

Advance(r, stage) == inbox' = (inbox \ {r}) \cup {[r EXCEPT !.stage = stage]}

\* Mutant: the transaction is marked and the record forgotten.
MarkTxOnly(t, failure) ==
    /\ tx' = [tx EXCEPT ![t] = "failed"]
    /\ UNCHANGED status

\* _mark_failed: no look at the statuses it overwrites, nor at deleted_at.
MarkFailed(t, failure) ==
    /\ tx' = [tx EXCEPT ![t] = "failed"]
    /\ status' = failure

OutputOf(r) == [tx |-> r.tx, attempt |-> r.attempt]
Arrived(r, kind) == r.stage = "arrived" /\ r.kind = kind

\* Mutant: the rows are committed and the object is not written.
CommitRowsOnly(r) ==
    /\ Arrived(r, "commit")
    /\ owner = NoOutput
    /\ owner' = OutputOf(r)
    /\ tx' = [tx EXCEPT ![r.tx] = "completed"]
    /\ status' = "ready-for-edit"
    /\ Advance(r, "committed")
    /\ UNCHANGED <<deleted, latest, stale, caller, job, v0obj, events, mishaps>>

\* _execute_tx2 up to its commit: nothing but the unique v0 rows protects the record.
Commit(r) ==
    /\ Arrived(r, "commit")
    /\ owner = NoOutput
    /\ owner' = OutputOf(r)
    /\ v0obj' = OutputOf(r)
    /\ tx' = [tx EXCEPT ![r.tx] = "completed"]
    /\ status' = "ready-for-edit"
    /\ Advance(r, "committed")
    /\ UNCHANGED <<deleted, latest, stale, caller, job, events, mishaps>>

\* Mutant: a commit that finds the v0 rows is taken for a repeated one and succeeds.
AcceptDuplicate(r) ==
    /\ Arrived(r, "commit")
    /\ owner # NoOutput
    /\ tx' = [tx EXCEPT ![r.tx] = "completed"]
    /\ status' = "ready-for-edit"
    /\ Advance(r, "committed")
    /\ UNCHANGED <<deleted, latest, stale, caller, job, snapshotVars, events, mishaps>>

\* Mutant: it replaces the rows.
UpsertDuplicate(r) ==
    /\ Arrived(r, "commit")
    /\ owner # NoOutput
    /\ owner' = OutputOf(r)
    /\ v0obj' = OutputOf(r)
    /\ Advance(r, "committed")
    /\ UNCHANGED <<recordVars, latest, stale, caller, job, events, mishaps>>

\* The v0 rows exist: the objects are overwritten, then the flush raises.
CommitDuplicate(r) ==
    /\ Arrived(r, "commit")
    /\ owner # NoOutput
    /\ v0obj' = OutputOf(r)
    /\ MarkFailed(r.tx, "llm-failed")
    /\ Advance(r, "rejected")
    /\ UNCHANGED <<deleted, latest, stale, caller, job, owner, events, mishaps>>

\* The await on the notice by email raises after the commit: the except clause marks
\* the failure over whatever the record has become meanwhile.
MailError(r) ==
    /\ r.stage = "committed"
    /\ Mishap
    /\ MarkFailed(r.tx, "llm-failed")
    /\ Advance(r, "rejected")
    /\ UNCHANGED <<deleted, latest, stale, caller, job, snapshotVars, events>>

\* MinIO or MariaDB raises, before or after the object was written; _mark_failed may
\* raise in turn, which is ignored, or the query that follows it, which ends the request.
CommitStorageError(r) ==
    /\ Arrived(r, "commit")
    /\ Mishap
    /\ v0obj' \in {v0obj, OutputOf(r)}
    /\ MarkFailed(r.tx, "llm-failed") \/ UNCHANGED <<tx, status>>
    /\ Advance(r, "rejected") \/ inbox' = inbox \ {r}
    /\ UNCHANGED <<deleted, latest, stale, caller, job, owner, events>>

\* 4xx: the body is refused before the service runs.  If the job still listens it
\* reports the failure.
CommitRefused(r) ==
    /\ Arrived(r, "commit")
    /\ IF Awaits(r.tx, r)
       THEN /\ MoveJob(r.tx, "closing")
            /\ inbox' = (inbox \ {r}) \cup
                        {[r EXCEPT !.kind = "fail", !.failure = "processing-error"]}
       ELSE /\ inbox' = inbox \ {r}
            /\ UNCHANGED job
    /\ UNCHANGED <<recordVars, latest, stale, caller, snapshotVars, events, mishaps>>

\* fail_minute_tx2
RecordFailure(r) ==
    /\ Arrived(r, "fail")
    /\ MarkFailed(r.tx, r.failure)
    /\ Advance(r, "recorded")
    /\ UNCHANGED <<deleted, latest, stale, caller, job, snapshotVars, events, mishaps>>

\* _mark_failed raises inside: ignored, and the failure is announced all the same.
RecordFailureSwallowed(r) ==
    /\ Arrived(r, "fail")
    /\ Mishap
    /\ Advance(r, "recorded")
    /\ UNCHANGED <<recordVars, latest, stale, caller, job, snapshotVars, events>>

\* The await on publish, then the answer: 200, or 500 for a rejected commit.
Answer(r) ==
    LET t == r.tx
        rejected == r.stage = "rejected"
    IN  /\ r.stage # "arrived"
        /\ PublishEvent(t, IF r.stage = "committed" THEN "completed" ELSE "failed")
        /\ inbox' = inbox \ {r}
        /\ IF Awaits(t, r)
           THEN MoveJob(t, CASE rejected -> AfterRaise(t)
                             [] job[t].pc = "exhausting" -> "dead"
                             [] OTHER -> "done")
           ELSE UNCHANGED job
        /\ UNCHANGED <<recordVars, latest, stale, caller, snapshotVars, mishaps>>

\* A request lost on its way.
LoseRequest(r) ==
    /\ r.stage = "arrived"
    /\ Mishap
    /\ inbox' = inbox \ {r}
    /\ UNCHANGED <<recordVars, latest, stale, caller, job, snapshotVars, events>>

\* Handlers die between two awaits; what they committed stays.
BackendCrash ==
    /\ Mishap
    /\ inbox' = {}
    /\ caller' = [t \in Txs |-> IF caller[t] = "enqueueing" THEN "returned" ELSE caller[t]]
    /\ UNCHANGED <<recordVars, latest, stale, job, snapshotVars, events>>

-----------------------------------------------------------------------------
UserStep ==
    \/ Generate
    \/ Reprocess
    \/ \E target \in Statuses : Transition(target)

EnqueueStep(t) == EnqueueOk(t) \/ EnqueueError(t)

AiStep(t) ==
    \/ AiSucceeds(t)
    \/ \E failure \in Failures : AiTerminalError(t, failure)
    \/ AiError(t)

WorkerStep(t) == PopJob(t) \/ AiStep(t) \/ Retry(t) \/ ConnectionLost(t)

BackendStep ==
    \E r \in inbox :
        \/ Commit(r) \/ CommitDuplicate(r) \/ CommitRefused(r)
        \/ RecordFailure(r)
        \/ Answer(r)

Adversity ==
    \/ WorkerCrash \/ BackendCrash
    \/ \E t \in Txs :
          ProviderUnreachable(t) \/ HandlerRedisError(t) \/ DropJob(t) \/ Timeout(t)
    \/ \E r \in inbox :
          \/ MailError(r) \/ CommitStorageError(r)
          \/ RecordFailureSwallowed(r) \/ LoseRequest(r)

Next ==
    \/ UserStep
    \/ \E t \in Txs : EnqueueStep(t) \/ Age(t) \/ WorkerStep(t)
    \/ BackendStep
    \/ Adversity

Spec == Init /\ [][Next]_vars

\* The backend's loop, the worker's tasks and the clock make progress; the provider
\* answers or fails within its timeout.  Users and the adversary owe nothing.
FairSpec ==
    /\ Spec
    /\ WF_vars(BackendStep)
    /\ \A t \in Txs :
          /\ WF_vars(EnqueueStep(t))
          /\ WF_vars(WorkerStep(t))
          /\ WF_vars(Age(t))

-----------------------------------------------------------------------------
(* Properties                                                              *)

\* Every variable keeps its type.
TypeOK ==
    /\ status \in Statuses \cup {"none"}
    /\ deleted \in BOOLEAN
    /\ latest \in 0..MaxTxs
    /\ tx \in [Txs -> {"none", "processing", "completed", "failed"}]
    /\ stale \subseteq Txs
    /\ caller \in [Txs -> {"none", "enqueueing", "returned"}]
    /\ job \in [Txs -> Job]
    /\ inbox \subseteq Request
    /\ owner \in Output \cup {NoOutput}
    /\ v0obj \in Output \cup {NoOutput}
    /\ events \in [Txs -> SUBSET {"completed", "failed"}]
    /\ mishaps \in 0..MaxMishaps

\* A record shown as being processed has its latest transaction in processing - the
\* one reprocess looks at: no crash, late request or lost answer leaves a record
\* in-progress with a latest transaction that has already ended.
InProgressHasLiveTx == status = "in-progress" => tx[latest] = "processing"

\* At most one transaction is completed, and the version v0 is its output: results of
\* superseded or repeated jobs never take another one's place.
CompletedOwnsSnapshot ==
    \A t \in Txs : tx[t] = "completed" => owner.tx = t

\* A record open to the editors, or published, has the rows of a committed output.
ContentHasSnapshot == status \in WithContent => owner # NoOutput

\* An SSE client told "completed" is told the truth, then and later: the output the
\* record was built from is that transaction's.
CompletedEventTruthful ==
    \A t \in Txs : "completed" \in events[t] => owner.tx = t

\* Somebody still works on t: its enqueue, its job, or a request at the backend.
InHand(t) ==
    \/ caller[t] = "enqueueing"
    \/ job[t].pc \notin Ended \cup {"absent"}
    \/ \E r \in inbox : r.tx = t /\ r.stage = "arrived"

\* Without infrastructure failures no transaction is abandoned in processing,
\* whichever attempt failed where and whatever users did meanwhile.
NoAbandonedTx ==
    mishaps = 0 => \A t \in Txs : tx[t] = "processing" => InHand(t)

\* The audit snapshot in MinIO is the committed output, unless a transaction was
\* reprocessed while its job was alive or an infrastructure failure had a job
\* send its commit again.
SnapshotObjectKept == mishaps = 0 /\ latest <= 1 => v0obj = owner

\* The rows of version v0 are written once and for all.
SnapshotRowsFrozen == [][owner # NoOutput => owner' = owner]_owner

OutcomesMove ==
    \A t \in Txs :
        /\ tx'[t] # tx[t] => <<tx[t], tx'[t]>> \in OutcomeMoves
        /\ "completed" \in events'[t] \ events[t] => owner.tx = t

\* A transaction takes only the steps that MinuteWatch reckons with: it never starts over,
\* and what is announced as completed has been committed.
OutcomesAsWatched == [][OutcomesMove]_<<tx, events>>

\* Without infrastructure failures an accepted minute leaves in-progress.
GenerationEnds == status = "in-progress" ~> (status # "in-progress" \/ mishaps > 0)

\* Whatever fails, a minute in-progress ends or can be reprocessed by its user.
NeverStuck == status = "in-progress" ~> (status # "in-progress" \/ Eligible)

\* routers/v1/minutes.py:564: the SSE client listens until completed or failed.
\* Without infrastructure failures that event is published for every transaction.
EveryTxAnnounced ==
    \A t \in Txs : tx[t] = "processing" ~> (events[t] # {} \/ mishaps > 0)

\* Seeds of record_statuses: completed and deleted are terminal.
TerminalStatusesStay == [][(status \in Terminal) => status' = status]_status

\* minutes_handler.py:935-937: failed is not announced, nor is the transaction taken
\* out of pending, while the job is still to be retried.
FailureIsFinal ==
    \A t \in Txs : job[t].pc = "backoff" => "failed" \notin events[t] /\ tx[t] # "failed"

-----------------------------------------------------------------------------
(* The two contracts: Generation is what the pipeline promises of the      *)
(* minute, JobContract what it may assume of the queue (JobWorker keeps    *)
(* it).                                                                    *)

Failed == mishaps > 0

Abstract == INSTANCE Generation WITH told <- events, faulty <- Failed

\* For users, editors and SSE clients the worker, its retries, the internal requests
\* and MinIO do not exist: the first output committed is the content of the minute for
\* good, a minute that has content is never generated again, what is announced was
\* true when it was said, and a completed transaction is taken back, or completes
\* after an announced failure, only if the infrastructure failed.
ImplementsGeneration == Abstract!Spec

StageAt(place) ==
    CASE place \in {"running"} \cup Waiting -> "running"
      [] OTHER -> place

\* The pop starts the attempt that the queued message carries.
RunsAt(place, attempt) ==
    CASE place = "lost" -> 0
      [] place \in {"absent", "queued"} -> attempt - 1
      [] OTHER -> attempt

JobStages == [t \in Txs |-> StageAt(job[t].pc)]
JobRuns == [t \in Txs |-> RunsAt(job[t].pc, job[t].attempt)]

Queue == INSTANCE JobContract WITH
    Jobs <- Txs, stage <- JobStages, runs <- JobRuns, faulty <- Failed

\* The jobs of this module take no step that the runtime of JobWorker does not offer:
\* pushed once, run at most MaxRetries times, buried only after the last attempt.
KeepsJobContract == Queue!Spec

=============================================================================
