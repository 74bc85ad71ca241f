# MinuetAItor: TLA+ models, checks and proofs

MinuetAItor turns meeting material into minutes: a user uploads files, an AI
provider writes a structured draft, editors complete it, guests review it and it
is published. This directory models the parts of the program in which several
actors share state: the job runtime of the workers, the pipeline that generates a
minute, its editorial life and its PDFs on the server; the editor, the session and
the watching of a generation in the browser; and the backups of the whole system.
The models are translated from the code; `PROJECT.json` maps every definition to the
lines it stands for, and lists the hazards the properties are aimed at.

Paths are relative to the repository; `backend/` stands for
`APP/volumes/backend/app/`, `worker/`, `pdf-worker/` and `backup-worker/` for the
same of those services, and `frontend/` for `APP/volumes/frontend/src/`.

## 1. Inventory

### Job runtime: `worker/worker.py`, `worker/core/`, `pdf-worker/main.py`

- **State.** Redis lists `queue:minutes`, `queue:email`, `queue:maintenance`,
  `queue:pdf` and the shared `queue:dlq` (durable: appendonly). In each process:
  where the main loop stands, the envelope it holds in a local variable, the tasks
  that wait for the semaphore or hold it.
- **Operations.** RPUSH by a producer; BLPOP in priority order; activity HSET;
  `create_task`; acquire; run the handler; finish, or back off and RPUSH the next
  attempt, or RPUSH a dead letter and LTRIM.
- **Interactions.** Producers and workers share only Redis; a handler calls the
  backend by HTTP.
- **Hard.** The envelope that is in no list and no task between BLPOP and
  `create_task`; cancellation (SIGINT) at each await of the loop; a process that
  dies with its tasks; an RPUSH the Redis client sends again after a timeout; two
  commands where one would be needed (RPUSH, LTRIM); fixed priorities.
- **Correct when.** No job disappears or runs twice while the infrastructure holds;
  dead letters have had all their attempts; every job ends; the lists drain; the
  dead-letter list stays bounded.

### Generation pipeline: `backend/services/minutes/generate.py`, `reprocess.py`, `internal_minutes_service.py`, `worker/handlers/minutes_handler.py`, `worker/core/backend_client.py`

- **State.** `Record.status` and `deleted_at`, one `MinuteTransaction` per generate
  or reprocess, the rows of version 0 (unique), `schema_output_v0.json` in MinIO, the
  job, the HTTP requests between worker and backend, the SSE events published.
- **Operations.** TX1; enqueue; the worker's call of the provider; commit (TX2);
  report of a failure; reprocess of a failed or stalled minute; user transitions.
- **Interactions.** The worker waits for an answer up to `BACKEND_TIMEOUT`, the
  backend goes on regardless; both publish to the same SSE channel; the user can
  cancel, delete or reprocess while a job runs.
- **Hard.** Late, repeated and lost commits; failures between the database, MinIO,
  Redis and email; the several except clauses of the last attempt; `_mark_failed`,
  which overwrites without looking.
- **Correct when.** Record, latest transaction, version 0 and announced events
  agree; one output owns version 0 for good; no transaction is forgotten; an
  accepted minute ends or can be tried again.

### Status matrix: `backend/services/minutes/constants.py`

The statuses of a record and the transitions a user may ask for. Shared by the
other models.

### Editorial life: `backend/services/minutes_service.py`, `minute_views_service.py`

- **State.** The record's status, its versions, the active one, the objects
  `schema_output_vN.json` and `draft_current.json`, the reporting items projected
  from a version, the observations.
- **Operations.** `transition_minute` in its eight transitions; saving a draft;
  saving review content; creating, withdrawing and resolving observations.
- **Interactions.** Editors, guests and the autosave of the frontend act on one
  record. Handlers of the single asyncio process interleave at their awaits only.
- **Hard.** The await of pending → preview with its SQL transaction open; the await
  of the rate limiter between the check and the insert of an observation; writes to
  two objects and the database that can fail half-way; rollbacks that leave objects.
- **Correct when.** Versions form a line that is only amended at its end and under
  review; snapshot, draft and projection agree; nothing pending is published.

### PDFs of a minute: `backend/events/pdf_dispatch.py`, `services/pdf_job_builder.py`, `pdf-worker/handlers/minute_pdf.py`

- **State.** `drafts/{id}/draft_current.pdf` and `published/{id}/final.pdf` in MinIO;
  the jobs in `queue:pdf`, each carrying its content.
- **Operations.** A save, a submission or a refresh asks for a draft PDF; a listener
  at the flush of a status change asks for the first draft (and for another whenever
  the record becomes `pending`) or for the final one; a job is rendered and uploaded.
- **Interactions.** The handlers of the editorial life push; pdf-worker runs three
  jobs at once and retries after a delay. Nothing comes back.
- **Hard.** The builder renders the editor's format, and raises on a draft that is still in
  the AI's; all drafts of a record overwrite one object, in the order the jobs happen
  to finish; the push precedes the commit; its errors are logged only; a job may be
  rendered again after its upload.
- **Correct when.** The published PDF is of the published version; the draft PDF, once
  its jobs are over, is of the content people are looking at.

### Minute editor of the browser: `frontend/pages/minuteEditor/`, `store/minuteEditorStore.js`

- **State.** The store (document, baseline of the last save, dirty flag), which outlives
  the page; the status the page loaded; the panel of observations; requests under way.
- **Operations.** Load, leave; edit, roll back; save, save and submit, return, publish,
  cancel; insert an observation into the document and resolve it.
- **Interactions.** Calls of the backend; events of the observation stream; other
  editors and guests through the record.
- **Hard.** Answers that write the store in whatever state they find it; dialogs of the
  global ModalManager, which outlive the page that opened them; two-step operations
  (save, then transition; store, then resolve) that another step separates;

  a status that changes elsewhere.
- **Correct when.** A rollback restores what is stored; the buttons send what the server
  takes; what was inserted stays inserted.

### Sessions of users: `frontend/store/authStore.js`, `store/sessionStore.js`, `services/axiosInterceptor.js`, `components/SessionExpiryModal.jsx`, `hooks/useAuthSessionSSE.js`, `backend/services/auth_service.py`

- **State.** The token, whose user is shown, the queue of refused calls, the refresh
  under way; on the server the sessions in Redis.
- **Operations.** Login, local logout, reload; a call and its refusal; renewal by a
  refused call or by the modal; a session that ends elsewhere.
- **Interactions.** One refresh serves all refused calls; the modal and the interceptor
  share it; the stream of the session ends it.
- **Hard.** Answers that arrive after a logout or a login; a refresh that deletes the
  old session before it creates the new one; a queue told by some ends of a refresh only,
  and before the await in which the next call may still join it.
- **Correct when.** Token and name shown are of who logged in; one refresh at a time, of
  the token in use; every waiting call is told.

### Watching a generation: `backend/routers/v1/minutes.py`, `frontend/hooks/useMinuteSSE.js`, `utils/authorizedEventStream.js`, `pages/minutes/Minute.jsx`

- **State.** The pending transactions, one stream for each with its retries, the status
  queries asked at a break, the list of minutes and its fetches.
- **Operations.** Open, subscribe, publish, break, reconnect, time out, reconcile,
  notify, reload the list; logout and login; renewal of the token.
- **Interactions.** Redis pub/sub, which keeps nothing; the list follows the notices.
- **Hard.** The status check before the subscription; reconciliations that answer late;
  streams that keep an old token; fetches of the list that overtake each other, and
  handlers that fetch, after an await, what the list showed when they were called.
- **Correct when.** The notice is true and comes once; the list shows what was announced;
  a pending transaction is eventually over for the browser too.

### Backups and restore: `backend/services/system_backups_service.py`, `backup-worker/`

- **State.** The rows of operations and artifacts, `queue:backups`, the packages on
  disk, the task of the worker. A package holds those rows as they were.
- **Operations.** Back up, purge by retention, delete by hand, restore (a safety backup,
  TRUNCATE, import, registration, FLUSHDB); cancel; retry; reconcile the catalogue
  with the disk.
- **Interactions.** The backend writes rows and pushes jobs; the worker writes the same
  rows through its own connection; every page of the panel reconciles.
- **Hard.** Writes without a condition from both sides; pushes that are applied and answered
  by an error, or sent twice; a restore that replaces the very
  rows that describe it, while requests go on; candidates of a purge chosen at the
  request; jobs that a crash or the FLUSHDB drops.
- **Correct when.** What is completed has its package; retention leaves one; what was
  cancelled in time never runs; what is active is being worked on.

### Not modelled

| Part | Why |
|---|---|
| Guest access (`routers/v1/minute_views.py`, `access_request_service.py`) | One-time passwords and visitor sessions: a key with a TTL and a row per visitor; no step of one depends on another. What guests do to a minute is in `MinuteRecord` and `MinuteEditor`. |
| Maintenance and scheduler (`scheduler.py`, `system_maintenance_service.py`, `maintenance_handler.py`) | One process posts a tick a minute; its tasks delete old rows and are idempotent. That the lock may expire under a slow tick (146) is a listed hazard without an observable effect. |
| `PATCH /records` (`records_service.py:222`) | Sets any status outside the matrix: with it every property that relates the status to versions or transactions is false by definition. Listed as a hazard. |
| Email (`email_queue.py`, `email_handler.py`) | I/O inside one job; the job itself is one of `JobWorker`'s. |
| Notifications | Rows written best effort; nothing decides on them. |
| Catalogs, access control, reports, provider configuration | Row-at-a-time CRUD and queries. |
| The other pages of the frontend | Forms over one REST call, tables, charts: markup and the state of one component. They are most of the repository's lines. |
| Deployment and schema | Read for the assumptions of section 3. |

## 2. Modules

| Module | What it is |
|---|---|
| `JobContract` | Abstract: what producers and handlers may rely on of the queues |
| `JobWorker`, `MCJobWorker` | Workers, queues, retries, dead letters, stops, crashes; its instances |
| `JobWorkerProofs` | Its theorems |
| `MinuteStatus` | Statuses and the table of transitions, used by the other models of a minute |
| `Generation` | Abstract: what users, editors and SSE clients may rely on of a minute being generated |
| `MinutePipeline` | One minute from generate to its committed output |
| `MinutePipelineProofs` | Its theorems |
| `VersionedDocument` | Abstract: what editors and guests may rely on |
| `MinuteRecord`, `MCMinuteRecord` | The editorial life; `Doc` is the refinement mapping |
| `MinuteRecordProofs` | Its theorems, the refinement among them |
| `MinutePdf`, `MCMinutePdf` | Extends `MinuteRecord`: every step of it together with the PDF job it asks for, and pdf-worker |
| `MinutePdfProofs` | Its theorems, and that it implements `MinuteRecord` |
| `MinuteEditor`, `MCMinuteEditor` | The editor of one browser window beside the record |
| `MinuteEditorProofs` | Its theorems |
| `ClientSession`, `MCClientSession` | The session of one browser window beside the server's sessions |
| `ClientSessionProofs` | Its theorems |
| `MinuteWatch`, `MCMinuteWatch` | Streams, reconciliation, notices and list of one browser window |
| `MinuteWatchProofs` | Its theorems |
| `Backups`, `MCBackups` | Backups, purges, deletions and restores of one scope |
| `BackupsProofs` | Its theorems |

`MinutePipeline` starts before the first version exists and `MinuteRecord` where
`Commit` succeeds; both extend `MinuteStatus`. The pipeline abstracts the queue of
`JobWorker` to a place (`job[t].pc`) and keeps from it what reaches a minute: a job
can be retried with one more attempt, buried, or lost. The two meet in `JobContract`:
`JobWorker` implements it, and the steps of the pipeline's jobs are steps of it (a job
that a resent RPUSH doubles is lost there, and in the pipeline shows only as a commit
that arrives again). `MinutePdf` does the same with `queue:pdf`, without a contract.
`MinuteEditor` reduces the record of `MinuteRecord` to what a client sees of it.
`MinuteWatch` reduces a transaction of `MinutePipeline` to its outcome and to the
messages of its channel, and lets them change as the pipeline may change them
(`OutcomeMoves`, in `MinuteStatus`; `OutcomesWatched` is the theorem): also from
`completed` to `failed` and back, and with a `failed` that no status bears out.

```
            JobContract                    Generation           VersionedDocument
           /           \                 /          \                  |
   implements         stays within   implements     outcomes        implements
         /                 \           /                \              |
    JobWorker            MinutePipeline  ------------  MinuteWatch   MinuteRecord
                                                                        |
                                                                    implements
                                                                        |
                                                                     MinutePdf
```

### Correspondence

**JobWorker.** `loop[w]` is the point where `main_loop` awaits: `listening` in
BLPOP, `popped` in the HSET that follows, `sleeping` in an except clause, `draining`
in the final `gather`, `down`. `hand[w]` is the local variable `raw`. `waiting[w]`
is the FIFO of the semaphore and `slot[w, i]` a task that holds a place, in the
phase of `_execute_job` it has reached. `PdfWorkers` are the processes that run
`pdf-worker/main.py`, whose Redis client does not resend and which does not trim.
`Pop` … `Restart` are the steps of `main_loop` and its signals, `Start` … `Trim`
those of `_execute_job` and `send_to_dlq`. `produced`, `runs`, `fate` and the two
bounds are ghosts. A job leaves the system as `done`, `discarded` (unreadable
envelope, or no handler) or `evicted` (LTRIM); nothing else is an end.

**MinutePipeline.** `status`, `deleted`, `tx` and `latest` are rows; `owner` is the
output for which the unique rows of version 0 exist, `v0obj` the one last written to
the object. An output is named by the transaction and attempt that produced it.
`job[t].pc` is the place of `handle_minutes_job`: the three waiting places are the
three calls of the backend it can be in. `inbox` holds the requests the backend has
received; `stage` is the await its handler has reached. `caller[t]` is the coroutine
of generate or reprocess between its commit and its enqueue. Every except clause of
the handler is an action (`AiTerminalError`, `AiError`, `ProviderUnreachable`,
`HandlerRedisError`, `CommitRefused`, `GoesUnanswered`), and `AnnounceUnreported` is
its finally clause. `events[t]` is what the code hands to publish.

The two abstract modules say less than the code. `Generation` keeps the record's status,
the transactions, the owner of version 0 and the announcements; `JobContract` keeps of a
job its stage and how often it was run. Both let a fault (`faulty`) excuse something, and
name what: only then may a completed transaction fail, one complete after its failure was
announced, an announcement be untrue, or a job be lost.

**MinuteRecord.** One action per transition; pending → preview is two, because it
awaits between writing the object and committing the rows: `opening` is the draft it
has read, and a non-empty one says that its SQL transaction is open. What other
handlers can do meanwhile follows from the locks of that transaction: an autosave
succeeds, a second submission rewrites the object and then waits on the unique keys
until it times out, an update of the record waits and times out. An observation is
`checked` between the status check and its insert. `items[v]` is the content that the
reporting rows of a version were projected from.

**MinutePdf.** `jobs` are the jobs asked for and not over; each carries its content and
whether it is the one asked for last (`newest`). A job is rendered in any order, and once
more (`jobs' \in {jobs, jobs \ {j}}`). A content is `AiContent`, in the format in which the
AI answered, or one that an editor saved (`Edited`). The mappers of
`pdf_job_builder.py:865-921` raise on the first, and `pdf_dispatch.py:78` and
`minutes_service.py:1457` only log it: `EnqueueEdited` asks for nothing then. `OpenWithPdf`
… `RefreshReviewPdf` are the actions of `MinuteRecord` conjoined with `Enqueue`;
`ReturnAborts` and `PublishAborts` are transitions whose listener pushed at the flush and
whose commit failed. `drift` and `fault` are ghosts: they name why a draft PDF may differ
from the content by now, and which job was lost.

**MinuteEditor.** `doc`, `baseline` and `isDirty` are the store, `local` is
`recordMeta.status`, `listed` the panel. A request is in `requests` from the click to the
answer; the server serves it or refuses it (`Serve`, `Refuse`, `LoseAnswer`) in any order,
and its answer writes the store wherever it has got to; `live` says that the component that
asked is still mounted. An open dialog is a request not confirmed yet (`Dialogs`): it is
opened on the page (`Offer`), one at a time, and may be confirmed after the page was left,
over the emptied store or the record loaded again (`ConfirmInsert`, `ConfirmReview`,
`LateEdit`, `rollbackToSnapshot`). The dialogs of the other transitions and of a verdict
send nothing of the page, so that an open one counts as its request. A document is a text
and the set of observations inserted into it. `OthersSave`, `OthersMove`, `OthersResolve`
and the two guest actions are what everyone else may do. `diverged`, `moved` and `dropped`
are ghosts, explained with the properties.

**ClientSession.** A token is the number of its session, `owner[k]` the user of session `k`,
so that the history of issued tokens is the sequence `owner`. A call is `sent`, answered
(`ok`, `denied`), `waiting` for a refresh, or `told` that its refresh failed: it shows so,
in an await, with `isRefreshing` still set (`TellFailure`, `Notified`). A refresh goes from
`sent` to `ok`, `refused` or `failed`. `failedQueue` and `isRefreshing` are the module
variables of the interceptor. `Revoke` is every way in which a session ends elsewhere,
another window that shares the token included. `who`, `crossed`, `late` and `stranded` are
ghosts.

**MinuteWatch.** `source[tx]` is the entry of the hook's map: `connecting`, `checked` (the
endpoint has read the status and not yet subscribed), `open`, `waiting` for its next
attempt, `dead` (given up, still in the map). `recon[tx]` are the status queries under way,
which closing the stream does not cancel. `list`, `filter` and `fetches` are the page of
minutes; a filter stands for filters, page and view, and `FirstPage` for what
`setCurrentPage(1)` makes of it. `start[tx]` and `changing` are the calls that start a
generation or change a status, from the click to the answer, each with the list it was
clicked in: their closures fetch that list (`RefreshAsClicked`, `StatusChanged`), and
`strayed` says that the list has moved on since. `Begin` is the server's half of a call,
`Started` the window's. `Publish` is a message on the channel: `completed` of what has
completed at some time, `failed` also of a transaction whose job gave up without an answer.
`told`, `times`, `been`, `presumed`, `crossed`, `strayed` and `overtaken` are ghosts; `been`
is what the transaction has come to so far, `presumed` the ones a stream called failed by a
timeout or a message the status did not bear out.

**Backups.** `row`, `catalog` and `stray` are the tables (`stray`: rows inserted since a
TRUNCATE under keys of the dump), `dump[p]` the tables in package `p`. `pushing` are
operations between their commit and their push; a push may be applied with its answer late
(`reply`), and then time out: `PushTimesOut` marks the row failed whatever it has become.
The worker's Redis client, unlike the backend's, sends a push again that it has no answer to
(`doubled`). `cancels` are cancellations between check and write. `task.at` is the phase of
the handler: `working`, `purging`, `saved`, `truncated`, `imported`, `registered`, `failed`
(in its backoff). `Leftovers` is what TRUNCATEs and imports that fail leave, by the order of
the tables; a crash among them leaves what a `Fail` before the `Crash` does. `removed`,
`deleted`, `torn` and `lost` are ghosts; `torn` says that a TRUNCATE stopped after the
catalogue and before the operations. While the statements run, nobody sees the tables
between two of them: that is left out.

## 3. Assumptions read from the code

- The backend is one uvicorn process and the handlers concerned are `async def` with
  synchronous database calls: a handler is atomic between two awaits.
- MariaDB transactions are atomic; the unique keys on versions and objects hold.
- Redis keeps its lists over a restart. A lost BLPOP reply may lose the head.
- The containers restart (`restart: unless-stopped`). SIGINT cancels the loop;
  SIGTERM and SIGKILL have no handler and count as a crash.
- A provider answers or fails within its timeout.
- JavaScript in the browser is single-threaded: a handler runs to its next await. What
  is awaited is answered in any order.
- pdf-worker runs three jobs at once, backup-worker one (its semaphore is of size 1).
- `mariadb` sends the statements one by one, stops at the first error and does not roll
  back; MariaDB commits a TRUNCATE at once.

## 4. Runs

| Run | Instance | Question | Result |
|---|---|---|---|
| `job_runtime` | `worker.py`, 2 slots, 4 jobs (one without handler, one unreadable), 2 attempts, DLQ 1, 1 failure, 1 stop | Is a job ever lost, doubled or buried early; is `JobContract` implemented; do jobs end and lists drain? | holds, 162k states |
| `job_dlq_limit` | worker and pdf-worker, DLQ 1, no failure | Is the shared DLQ bounded? | **violated** |
| `pipeline_generation` | 2 transactions, 2 attempts, 1 failure | Do record, transactions, version 0 and events agree; is `Generation` implemented; does a minute end, or can it be tried again? | holds, 211k states |
| `pipeline_terminal` | 1 transaction, no failure | Do terminal statuses stay? | **violated** |
| `pipeline_failed_event` | 1 transaction, 2 attempts, 1 failure | Is `failed` final? | **violated** |
| `record_pdf` | 2 visible versions, the AI's content and 2 edited ones, 1 observation, 1 storage failure or job fault, 1 overlap, 3 jobs | Versions, contents, observations, the refinement; which content is in which PDF? | holds, 2.46M states |
| `record_publish` | 1 visible version | Is everything resolved when published? | **violated** |
| `record_autosave` | 1 visible version, 1 overlap | Does the snapshot hold the draft? | **violated** |
| `editor` | 1 observation, 2 texts, 2 requests in flight, the open dialog among them | Do window and server agree? | holds, 2.72M states |
| `session` | 2 users, 2 calls and the modal, 3 sessions | Whose token, whose name, who waits? | holds, 908k states |
| `watch` | 1 transaction, a list of 3 (two pages, another filter), 1 retry, 1 status query at a time, 1 fetch or change of status that a user adds to | Is the notice true and single, does it come, does the list follow? | holds, 1.01M states |
| `backups` | 2 operations, 2 packages and room for 2 more, 2 attempts, 1 failure | Packages, retention, cancellation, abandoned operations | holds, 3.09M states |

Deadlock is not checked: when all jobs are over and nobody asks for anything more, the
system rests.

### What the properties say

Several properties except a window: a condition on a ghost variable that names the
steps after which the code does not keep the promise. The windows are the code's, each
is named here, and outside them the property has to hold for every interleaving.

**Jobs.** `JobConserved` counts every place a job can be in against how often it was
pushed, so a job is neither lost nor doubled as long as no failure happened; SIGINTs in
BLPOP are not failures. `DeadLettersExhausted`: a buried job had all its attempts.
`ImplementsContract` adds the order: while nothing fails a job is run only when queued,
never by two tasks, at most `MaxRetries` times, retried only before the last attempt and
buried only after it, and an evicted one was dead.

**Pipeline.** `InProgressHasLiveTx` is what makes reprocess work: eligibility looks at
the latest transaction only. `ImplementsGeneration` says that only the first committed
output counts, though nothing but the unique rows stops the others; that at most one
transaction is completed and owns version 0; that a minute with content never goes back
to in-progress; that without a failure no completed transaction fails and none completes
after its failure was announced. `SnapshotObjectKept` says when the object follows the
rows (a rejected second commit overwrites it: hence its condition).
`CompletedEventTruthful` covers what a
client was told. `NoAbandonedTx` follows the work from hand to hand.

**Record.** `ImplementsDocument` includes that a rolled back submission, whose object
stays in MinIO, never shows through in a version. `ReviewIsConsistent` relates snapshot,
draft and reporting items under review.

**PDFs.** `FinalIsPublished`: the final PDF shows the published version, and is there or on
its way; a version that nobody saved in the editor, which is still in the AI's format, is
published without one, and nobody is told. Excepted: a publication whose commit failed after
its job was pushed at the flush (`aborted`). `DraftPdfIsCurrent`: once its jobs are over the
draft PDF shows the content. Excepted: jobs that overtook each other (`overtaken`;
pdf-worker runs three, and the last to finish wins), saves of the review that ask for no PDF
(`amended`), lost jobs. It also states a surprise: after a return from review the listener
on the status `pending` renders the AI's output over what has been edited since, although
`transition_minute` calls that transition "Solo cambia el estado"; the PDF stays wrong until
the next save (`returned`).

**Editor.** `BaselineIsStored`: a rollback restores what the server has, and a clean
document is that document. Excepted (`diverged`): an edit made while a save is awaited,
which `takeSnapshot` then counts as saved (`MinuteEditorHeader.jsx:545-547`); a failed
transition after an accepted save; a lost answer; another editor; the content stored by
an insertion or a refresh of the review, which never updates the baseline. `OwnMovesFit`:
the server takes what the buttons send. Excepted (`moved`): someone else moved the
record, or this window's requests cross. `InsertedStays`: an observation resolved as
inserted is in the content. Excepted (`dropped`): a rollback to a baseline older than the
insertion (insert under review, return to editing, roll back, save), a deleted detail,
stores that cross (the button of the dialog stays enabled), another editor who stored, and
a dialog confirmed when its page had been left: over the emptied store, or a record without
the section it offered, `insertObservationIntoScope` inserts nothing
(`minuteEditorStore.js:1016-1022`), the document is stored as it is, emptied perhaps, and the
observation is resolved as inserted (`MinuteEditorSectionObservations.jsx:335-346`). What a
dialog stores over a page left is also excepted from `BaselineIsStored`.

**Session.** `OneUser`: token and name are of who logged in. Excepted: answers for an
earlier session (`crossed`, `late`), because `updateTokens` (`authStore.js:133-150`) and
the profile load (`sessionStore.js:129-165`) write unconditionally, so a refresh under
way at a logout brings the session back. `RefreshIsOfToken`: refreshes never compete, so
that a window never loses its session to itself. `NobodyForgotten`: a call in the queue
has a refresh to wait for. Excepted (`stranded`): calls queued behind a refresh of the
modal that fails (`axiosInterceptor.js:436-449`), which nobody tells, and calls refused
while the failure of a refresh is being shown: the queue is told first
(`axiosInterceptor.js:367`), then `notify.error` is awaited with `isRefreshing` still set, and
who joins in between waits for the next refresh, if there is one.

**Watch.** `OneTrueNotice`: what is announced is or was true and comes once. Excepted: the
`failed` of a stream that timed out (`minutes.py:936`) or of a job that gave up unanswered
(`presumed`), which may be false; a status query
that was under way when the end came by another way, because closing a stream does not
cancel it (`useMinuteSSE.js:95-106`). `ListIsCurrent`: a list at rest shows what was
announced, and the filters and page chosen. Excepted: an older answer that arrived last
(`Minute.jsx:86-97`); for the filters and page, the fetch of a handler whose call was made
before they changed (`strayed`; `Minute.jsx:147` and `172` use the closure of the click).
`EveryTxTold` (liveness): a pending transaction leaves the store. Excepted: a stream that
holds a token renewed since (`useMinuteSSE.js:109`: the endpoint answers 401, for which
the hook has no listener), one that used up its retries, a session that ended. That the
event between check and subscription may be lost is not an exception: the timeout of the
stream covers it.

**Backups.** `CompletedHasPackage`: what is completed is listed, also after a restore has
put back the rows of another day. Excepted (`torn`): the TRUNCATEs of a restore cut short,
which leave the operations completed and the catalogue empty; the next reconciliation lists
again what is on disk, but not what was purged. `RetentionKeepsOne`: no order of purges,
backups, restores and retries takes the last package, unless somebody deleted one by hand
(whether it is the last is looked at when asked, not when done). `CancelSticks`: an
operation cancelled while its job was still in the queue never runs, and its row stays
cancelled. Excepted: a job the worker pushed twice, of which LREM takes one copy; and, for
the row, a restore, and a push that Redis had applied and that timed out after the
cancellation, whose failure is written over it (`system_backups_service.py:1355`). When the
job was not in the queue, the cancellation is written over whatever the worker has made of
the row (`system_backups_service.py:914`) and nothing is promised. `ActiveIsUnderway`: an
active operation has a job or a task. Excepted (`lost`): a crash, an attempt that fails
before its `try`, a cancellation that fails half-way, and every restore, which brings back
the active rows of the dump and flushes everybody's queues.

### The five violations

They are behaviours of the code that contradict one of its own comments, seeds or
messages; `PROJECT.json` quotes them.

1. pdf-worker does not trim the dead-letter list that `dlq.py:38` limits.
2. A deleted minute comes back when its job commits (`internal_minutes_service.py:557`).
3. A failed commit announces `failed` and is then retried (`:310`), which
   `minutes_handler.py:935-937` rules out.
4. An observation can be pending on a published minute (`minute_views_service.py:1176`).
5. A draft saved during the await of pending → preview is missing from the snapshot
   under review (`minutes_service.py:1455`).

### Why the bounds are enough

- Jobs: two slots with two running jobs make tasks wait, overlap and be overtaken in the
  queue; a dead-letter limit of 1 makes every second dead letter evict one.
- Pipeline: two transactions give one that is superseded and one that supersedes; two
  attempts give one that is retried and a last one. One failure at a time; the theorems of
  section 5 are for any number of failures.
- Record and PDFs: two visible versions give one that is amended after an earlier one was
  frozen; two edited contents beside the AI's tell an amended version from the one before
  (they are symmetric, the AI's is not); one overlap is one request that meets the open
  transition; three jobs let a draft job be overtaken while a final one waits. At most one
  fault of the jobs, and none beside a storage failure (`Fault`).
- Editor: two requests or dialogs (`MaxInFlight`) give every pair that can cross, two texts
  tell what was saved from what was not. The `CONSTRAINT SomethingToCheck` does not go on
  from states in which all three windows are open, where only the type is left to check.
  A load there would close two of them; what it finds on the server is also reached by
  paths on which the window was loaded between the steps that opened them. Texts are
  symmetric.
- Session: three sessions are one login, its renewal, and the login of another user while
  an answer for the first is under way. Two calls and the modal are a caller that refreshes,
  one that waits, and the one that treats failure differently. Users and calls are
  symmetric; the run has no liveness property.
- Watch: `MaxRetries` 1 has a break that is retried, a keepalive that forgets it, and the
  break that gives up; one status query at a time (`MaxAnswers`: a further one counts as
  failed) for a stream that may be closed and opened again. The user changes
  the filter, page or view, or a status, only beside fewer than `MaxFetches` fetches and
  changes under way; mounting, a notice and an answered call add theirs to any number, and
  another view adds two, so fetches do overtake each other. Three lists are two pages and another filter:
  one can be left by the page or by the filter, and be asked for again by an earlier click.
  Transactions share only the list.
- Backups: two operations of any kind, so that each meets each other (a purge chosen
  before a backup, a restore of a package made while another operation was active); two
  packages at the start, so that retention has a candidate; room for two more
  (`MaxPackages`: after that the disk is full, and operations fail for that reason too).
  The `CONSTRAINT OneLessBesideAPush` leaves one room less where a push timed out or was
  sent twice. One cancellation at a time. `cutoff` moves only while nothing is under way.

### Fairness

- `JobWorker!FairSpec`: weak fairness per process for the steps of its loop and per slot for
  those of its task; asyncio runs what is ready, a slot goes to the task that waited longest,
  and the container restarts.
- `MinutePipeline!FairSpec`: weak fairness for the backend's handlers, for each enqueue, for
  each job and for the clock that makes a transaction stale.
- `MinuteWatch!FairSpec`: weak fairness, per transaction, for the generation to end (what
  `GenerationEnds` shows of the pipeline), for a stream to go on connecting, and for an
  open stream to time out. `Publish` is not fair: pub/sub may lose the message.

No user, producer, failure or stop is fair, so no property relies on one to happen; and
since retries are bounded, none relies on a handler to succeed.

Every property of a passing run has a mutant in `PROJECT.json`: a plausible mistake in
one definition (defined beside it and marked "Mutant") under which it fails.

## 5. Proofs

TLAPS checks every theorem for all values of the constants, from the modules'
`ASSUME`s only.

**JobWorker** (`JobWorkerProofs`). `TInv` adds to the type that a task in its backoff has an
attempt left and that a process holds an envelope only between BLPOP and create_task.
`JobConserved` counts positions in sequences, which move at every pop and trim; the
invariant avoids the count. `Spots(j)` has one element for each list, process, slot or exit
that has `j`, whatever the position; while `mishaps = 0` it is a singleton for a pushed job
and empty for any other (`OneSpot`), and no list holds a job twice (`AllOnce`). `RunsLine`
ties the envelopes to `runs`: queued with attempt `a`, a job has run `a - 1` times, in a
slot `a` times, dead `MaxRetries` times. `Awake` excludes the one stop that drops tasks,
that of a loop asleep after an error. There is one lemma per move (`CalmPop`, `CalmStart`,
`CalmTrim`, ...), over lemmas on what `Append`, `Tail` and `SubSeq` do to what a list holds.
`OneOrNone` turns spots into places. Results: `JobTypes`, `DeadLetters`, `Conserved`.

`ContractImplemented` proves `Spec => Contract!Spec`. The stage of a job is read off the
places it is in, and after a mishap every job counts as lost (`Lose`), so that the argument
is needed for the calm steps only. There each lemma of the list above says in addition where
its job went (`Moved`) and that no other job changed place; `ShownStages` turns the single
spot of a job into its stage (a job cannot be both in a backoff and in a list), and one
lemma per step (`Contract...`) finds the step of the contract: `RunsLine` gives the count of
runs that `Run`, `BackOff` and `Bury` ask for.

**MinutePipeline** (`MinutePipelineProofs`). `TypeOK` is not inductive: `Retry` adds one to
an attempt, so a job in backoff must have attempts left (`BackoffHasAttempts`). The safety
invariant is `IInv == TypeOK /\ BackoffHasAttempts /\ Consistent`, where `Consistent` adds
to the checked properties that a request whose commit succeeded speaks for the owner of
version 0 (`AnswerTruthful`): without it, answering could announce a completion that never
was. Its proof has one step per action; the lemmas `QuietStep`, `FailingStep` and
`AdvanceQuiet` treat what several actions share. From it: `InProgressCorrect`,
`OneCompletion`, `ContentBacked`, `CompletedEventCorrect`, and, as an action property,
`RowsFrozen`.

In the same module, `NothingAbandoned` and `SnapshotKept`. The strengthening `Handover`
says, while nothing has failed, that a job waits exactly when a request of its own is at the
backend, that there is one request per transaction, and that a handled request has closed
its transaction, and that nothing exists beyond `latest` (`Fresh`: before generate there is
no transaction at all). One lemma per kind of hand-over (a job moving freely, a job sending,
a request being handled, a request being advanced). `SnapshotKept` adds `Kept`: once the
only transaction has its rows, its job waits for the answer to that commit or is done, and
every request still at the backend is a committed one, so that nobody is left who could
write the object again.

The refinement, `GenerationImplemented`, needs two more. `Known`, whatever fails: a job, a
request or an enqueueing coroutine belongs to a transaction that exists, a transaction
being enqueued has no job yet, and a job that reports its last failure has no attempt left.
`Settling`, while nothing has failed: a handled request has left its transaction in the
status it will announce, a completed transaction's job is waiting for that answer or done
and no other request of it is left, and before the first commit only ended jobs have been
announced. From these, one case per action (`GenerationStep`) finds the abstract step. Where
the code writes over a completed transaction (`MailError`, `CommitDuplicate`, `RecordFailure`),
the case shows that something had failed before or fails in that step.
`OutcomesWatched` reads off that step what `MinuteWatch` assumes of its server.
`JobContractKept` proves `Spec => Queue!Spec`: a place of a job gives its stage, a queued job
with attempt `a` has run `a - 1` times; `QueueMoves` lists the places a handler takes its job
through, `BackoffHasAttempts` and `Known` give the counts.

**MinuteRecord** (`MinuteRecordProofs`): `TypeCorrect`, `LineCorrect`,
`ReviewCorrect`, `ObservationsCorrect`. The invariant adds what a suspended
submission implies (`Progress`: the record is still pending, its object is written,
there is room for one more version, and an editor's record has a draft) and what it
has read (`Undisturbed`: the object it wrote and the draft agree as long as nothing
failed or overlapped). `Refinement` proves `Spec => Doc!Spec`: the
objects beyond `latest` are unseen, those below are not written, and the one at
`latest` is written under review only.

**MinutePdf** (`MinutePdfProofs`). `RecordImplemented` proves `PdfSpec => Spec`, since
every step is a step of `MinuteRecord` or leaves its variables alone; so all results of
`MinuteRecordProofs` carry over, the refinement of the abstract document included. On
top: `PdfTypeOK`, and `FinalIsPublished` from the invariant `IInv` of the record (a
published version's object is not written again); a version in the AI's format is one of
`FinalContent` like any other, and pushes nothing. `DraftPdfIsCurrent` needs `DraftLine`:
the newest draft job carries the current content, and once it is gone without having been
overtaken the PDF shows that content.

**MinuteEditor** (`MinuteEditorProofs`). `EInv` is the type and four parts, each inductive
beside the first two. `Mounted`: a load is of a page that loads, every other live request
and dialog of an open one. `MoveLine`, while `moved` is false: a move, or the dialog and the
save that become one, is alone under way; its acceptance is still valid; the page shows the
record's status unless the answer that brings it has arrived. `NotesLine`, while `dropped`
is false: an insertion the server has stored is in the stored content, in the document of an
open page, in every content still on its way to the server and in what a load brings.
`BaseLine`, while `diverged` is false: either one save of the document as it is has been
sent and the baseline is still the stored content, or what the awaited answers will take for
the baseline is stored already. The checked properties are not inductive because answers of
an earlier mount reach the store of a later one. Results: `EditorTypes`, `BaselineStored`,
`MovesFit`, `InsertionsStay`.

**ClientSession** (`ClientSessionProofs`). `SInv` adds to the type and the three properties:
every token in use was issued (`Issued`); a page's answer was accepted (`AnswerLine`); there
is at most one refresh, or one call that shows the failure of one, exactly while
`isRefreshing` says so (`OneRefresh`); a renewed session is of the same user, a refused one
is over, and outside the window the token renewed is the window's (`RefreshLine`); a login
begins without a token, and token, name and the profile on its way are of `who`
(`UserLine`); whoever was stranded is still in the queue (`WaitLine`). Results:
`SessionTypes`, `OneUserOnly`, `OneRefreshOnly`, `EveryoneTold`.

**MinuteWatch** (`MinuteWatchProofs`). `WInv` adds that a live stream has retries left
(`RetriesLeft`), that nothing exists for a transaction whose call was not answered
(`Unstarted`), that an answer on its way says what came to pass, and what has ended stays
ended one way or the other (`AnswersTrue`), that a transaction that was announced is no
longer pending and has no stream or answer left unless it is `crossed` (`ToldOnce`), and
that the newest fetch will show what was announced and, once it has arrived, the list does,
for the filter chosen unless the fetch was `strayed` (`ListLine`). Results: `WatchTypes`,
`NoticesAreTrue`, `ListFollows`. What liveness rests on is proved too: `NobodyForgotten`
says that a transaction in the store has a stream that goes on, or one that ended for a
reason `EveryTxTold` names. Here the answers of closed streams matter: one takes the entry
of a newer stream out of the map, but only after it has taken the transaction out of the
store.

**Backups** (`BackupsProofs`). Four layers: `TInv`, and three that rest on it. `TInv` adds
to the types that a restore is of one package and a backup of none, that an operation not
requested yet is in no table and no dump, that jobs are of requested operations and that the
phase of the task fits its kind. `CInv` is about packages: what is completed is listed *in
the tables and in every dump* (`HasPackages`), because a restore makes the tables of a dump
the current ones; and between TRUNCATE and import nothing is completed. All three hold until
a TRUNCATE is cut short, which no later step makes up for (`TornStays`). `PInv` is about
places: an operation that was not pushed twice is being pushed, queued, waiting or under way
in at most one of them and once (`OnePlace`), a failed attempt that is not retried leaves a
row that is not active (`EndLine`); `CancelSticks` and `ActiveIsUnderway` follow. Results:
`BackupsTypes`, `CompletedIsListed`, `CancellationIsFinal`, `ActiveHasWork`. Sequence
positions are handled by a few lemmas on `SubSeq`, `Append` and `Tail`. `RInv` is about the
retention (`RetentionHolds`), and its argument is in two halves (`KeepLine`). If a package
was made since the last day passed, the newest is not past its retention and no purge asks
for it. If none was, no restore has reached its TRUNCATE since (it makes a package first),
so that nothing has changed the creation times: the first package in the order of the
catalogue is the one that every purge under way has left out, and the next one will. From
the one half to the other leads a day, which passes only when no purge is under way.
Besides, in the tables and in every dump what is purged is off the disk and no row is older
than its package (`SoundLine`), and a purge asks only for packages past their retention
(`AskedLine`). That a first package exists is the well-foundedness of `<` on the naturals
(`Least`, `TopExists`); that it is the one (`TopIsLatest`) needs an order among rows of the
same second, which two packages registered by one restore may be: the model takes them in
the order of the table, as the query does that sorts what it has scanned.

**Only model-checked.** The liveness properties (out of the prover's reach, as is ENABLED)
and the violations. Every safety, action and refinement property of a passing run is proved;
of the liveness properties the safety they rest on (`Conserved`, `NothingAbandoned`,
`NobodyForgotten`).

## 6. What is left

- The parts that section 1 lists as not modelled.
- Inside the modelled parts: publishes that fail, participants and attachments of a record,
  the other event streams (the client is the same), the slots and the schedule of backups,
  the maintenance marker and its modes, objects and the full scope, imported packages, the
  drain at SIGTERM and the dead-letter list of backup-worker, the summary of changes before
  a rollback in the editor. `PROJECT.json` says the same per component.
- Reading the code for the models showed more than the models contain; the hazards in
  `PROJECT.json` list what a property covers and, with a note, what none does.

A new module follows the layout of the others: constants with a named assumption, one
action per await-to-await step, ghosts only to name a window, an MC module and a run;
recursion only as functions, so that it can be proved about.
