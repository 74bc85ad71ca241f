------------------------------ MODULE Backups ------------------------------
(***************************************************************************)
(* Backups of one scope: the operations and the catalogue that the backend *)
(* keeps in MariaDB (system_backups_service), the list queue:backups, the  *)
(* packages on disk, and the backup-worker that makes, purges and restores *)
(* them.                                                                   *)
(*                                                                         *)
(* A restore truncates every table and imports those of the dump: the rows *)
(* of the operations and of the catalogue are among them, so a package     *)
(* carries both as they were.  The backend goes on answering meanwhile:    *)
(* its middleware does not know the mode "restore" of the worker's marker. *)
(***************************************************************************)
EXTENDS Integers, Sequences, FiniteSets

CONSTANTS
    MaxOps,       \* bound on the operations requested
    FirstPackages,\* packages at the start
    MaxPackages,  \* bound on the packages ever made: then the disk is full
    MaxRetries,   \* BACKUP_MAX_RETRIES
    MaxMishaps    \* bound on crashes, Redis errors and database errors

ASSUME BackupsAssumption ==
    /\ MaxOps \in Nat /\ MaxMishaps \in Nat
    /\ FirstPackages \in Nat \ {0}
    /\ MaxPackages \in Nat /\ FirstPackages <= MaxPackages
    /\ MaxRetries \in Nat \ {0}

Ops == 1..MaxOps
Packages == 1..MaxPackages

VARIABLES
    row,         \* system_backup_operations: status, or "absent", and the package made
    request,     \* the payload of an operation: what it asks, on which packages
    catalog,     \* system_backup_artifacts: status, or "absent", and created_at
    stray,       \* rows other than these were inserted into truncated tables
    built,       \* the packages made so far, in order
    files,       \* those on disk
    dump,        \* the tables in a package
    torn,        \* history: the TRUNCATEs of a restore stopped between two tables
    cutoff,      \* rows created before it are past their retention
    pushing,     \* operations committed whose job is not pushed yet
    reply,       \* to the push of an operation: "late" once Redis has applied it and the
                 \* request still waits, "error" once the request has given up
    queue,       \* queue:backups
    cancels,     \* cancellations between their check and their write
    pending,     \* tasks of the worker that wait for its semaphore
    task,        \* the task that holds it
    doubled,     \* history: operations whose job the worker's client has pushed twice
    removed,     \* history: operations cancelled with their job taken from the queue
    deleted,     \* history: somebody asked to delete a package by hand
    lost,        \* history: a job or a row was lost for a reason ActiveIsUnderway names
    mishaps      \* failures so far

tables == <<row, catalog, stray>>
disk == <<built, files, dump, torn>>
worker == <<pending, task, doubled>>
backend == <<pushing, reply, cancels, removed, deleted>>
vars == <<tables, request, disk, cutoff, queue, backend, worker, lost, mishaps>>

Statuses == {"absent", "queued", "running", "completed", "failed", "cancelled"}
Active == {"queued", "running"}
Artifact == [status : {"absent", "available", "missing", "purged"}, created : 0..MaxPackages]
NoArtifact == [status |-> "absent", created |-> 0]
Operation == [status : Statuses, made : 0..MaxPackages]
NoOperation == [status |-> "absent", made |-> 0]
Tables == [row : [Ops -> Operation], catalog : [Packages -> Artifact]]
Replies == {"prompt", "late", "error"}
Kinds == {"backup", "purge", "restore"}
Request == [kind : Kinds \cup {"none"}, on : SUBSET Packages]
NoRequest == [kind |-> "none", on |-> {}]
Job == [op : Ops, attempt : 1..MaxRetries]
Phases == {"working", "purging", "saved", "truncated", "imported", "registered", "failed"}
NoTask == [at |-> "idle"]
Task == {NoTask} \cup
        [op : Ops, attempt : 1..MaxRetries, at : Phases, made : 0..MaxPackages,
         left : SUBSET Packages, bad : BOOLEAN]

Empty == [row |-> [o \in Ops |-> NoOperation], catalog |-> [p \in Packages |-> NoArtifact]]
Listed(n) == [p \in Packages |-> IF p <= n THEN [status |-> "available", created |-> p] ELSE NoArtifact]

Init ==
    /\ row = Empty.row
    /\ catalog = Listed(FirstPackages)
    /\ stray = FALSE
    /\ request = [o \in Ops |-> NoRequest]
    /\ built = FirstPackages
    /\ files = 1..FirstPackages
    /\ dump = [p \in Packages |-> IF p <= FirstPackages
                                  THEN [Empty EXCEPT !.catalog = Listed(p - 1)] ELSE Empty]
    /\ cutoff = FirstPackages + 1
    /\ pushing = {} /\ reply = [o \in Ops |-> "prompt"] /\ queue = <<>> /\ cancels = {}
    /\ doubled = {} /\ pending = <<>> /\ task = NoTask
    /\ removed = {} /\ deleted = FALSE /\ torn = FALSE /\ lost = FALSE /\ mishaps = 0

Mishap == mishaps < MaxMishaps /\ mishaps' = mishaps + 1

Present(r) == r.status # "absent"
\* An UPDATE of a row that may be gone.
Update(rows, o, status) == IF Present(rows[o]) THEN [rows EXCEPT ![o].status = status] ELSE rows
Available(c) == {p \in Packages : c[p].status = "available"}

-----------------------------------------------------------------------------
(* The backend                                                             *)

\* reconcile_system_backup_artifacts: what is on disk and not listed is listed, with the
\* creation time of its metadata; what is listed and not on disk is missing.
Reconciled ==
    [p \in Packages |->
        IF p \in files
        THEN CASE catalog[p].status = "absent" -> [status |-> "available", created |-> p]
               [] catalog[p].status = "missing" -> [catalog[p] EXCEPT !.status = "available"]
               [] OTHER -> catalog[p]
        ELSE IF catalog[p].status = "available" THEN [catalog[p] EXCEPT !.status = "missing"]
        ELSE catalog[p]]

\* On truncated tables a request inserts rows under keys of the dump: the singletons of the
\* settings and of the operation state, the events of the audit that number from 1 again.
Touch == stray' = (stray \/ task.at = "truncated")

\* Every page of the panel: the status and the synchronisation write more than the
\* catalogue, the history does not.
Refresh ==
    /\ catalog' = Reconciled
    /\ Touch \/ UNCHANGED stray
    /\ <<catalog, stray>>' # <<catalog, stray>>
    /\ UNCHANGED <<row, request, disk, cutoff, queue, backend, worker, lost, mishaps>>

\* The operation is committed, then its job is pushed.
Insert(kind, on) ==
    /\ \E o \in Ops :
          /\ request[o] = NoRequest /\ \A i \in 1..(o - 1) : request[i] # NoRequest
          /\ row' = [row EXCEPT ![o] = [status |-> "queued", made |-> 0]]
          /\ request' = [request EXCEPT ![o] = [kind |-> kind, on |-> on]]
          /\ pushing' = pushing \cup {o}
    /\ Touch
    /\ UNCHANGED <<disk, cutoff, reply, queue, cancels, removed, worker, lost, mishaps>>

\* _enqueue_backup_operation, for an administrator or for the tick of the scheduler.
RequestBackup ==
    /\ Insert("backup", {})
    /\ UNCHANGED <<catalog, deleted>>

\* ORDER BY created_at DESC: rows of the same second come in the order of the table.
Before(c, p, q) == c[p].created > c[q].created \/ (c[p].created = c[q].created /\ p < q)

\* _get_purge_preview_data: the first row of a scope.
Latest(c) == CHOOSE p \in Available(c) : \A q \in Available(c) \ {p} : Before(c, p, q)

\* Mutant: the latest of a scope is a candidate like the others.
CandidatesAll(c) == {p \in Available(c) : c[p].created < cutoff}

Candidates(c) == {p \in Available(c) : c[p].created < cutoff /\ p # Latest(c)}

RequestPurge ==
    /\ catalog' = Reconciled
    /\ Insert("purge", Candidates(Reconciled))
    /\ UNCHANGED deleted

\* run_system_backup_artifact_purge: also of what is missing, also of the last one.
RequestDelete(p) ==
    /\ Reconciled[p].status \in {"available", "missing"}
    /\ catalog' = Reconciled
    /\ Insert("purge", {p})
    /\ deleted' = TRUE

RequestRestore(p) ==
    /\ Reconciled[p].status = "available"
    /\ catalog' = Reconciled
    /\ Insert("restore", {p})
    /\ UNCHANGED deleted

\* _enqueue_backup_job: an RPUSH; Redis may have applied it and answer too late.
Push(o) ==
    /\ o \in pushing
    /\ pushing' = pushing \ {o}
    /\ queue' = Append(queue, [op |-> o, attempt |-> 1])
    /\ \/ UNCHANGED <<reply, mishaps>>
       \/ Mishap /\ reply' = [reply EXCEPT ![o] = "late"]
    /\ UNCHANGED <<tables, request, disk, cutoff, cancels, removed, deleted, worker, lost>>

\* _mark_operation_enqueue_failed, whatever the row says by now: an event of the audit goes
\* with it, also when the row is gone.
MarkEnqueueFailed(o) ==
    /\ row' = Update(row, o, "failed")
    /\ Touch

\* Mutant: the error of the push is only logged.
PushUnmarked(o) ==
    /\ o \in pushing
    /\ Mishap
    /\ pushing' = pushing \ {o}
    /\ UNCHANGED <<tables, request, disk, cutoff, reply, queue, cancels, removed, deleted, worker, lost>>

\* A push that Redis has not applied; or the backend stops before it.
PushFails(o) ==
    /\ o \in pushing
    /\ Mishap
    /\ pushing' = pushing \ {o}
    /\ \/ MarkEnqueueFailed(o) /\ UNCHANGED lost
       \/ lost' = TRUE /\ UNCHANGED <<row, stray>>
    /\ UNCHANGED <<catalog, request, disk, cutoff, reply, queue, cancels, removed, deleted, worker>>

\* The socket times out on a push that was applied: its job waits, runs, is over or has been
\* taken back by a cancellation.
PushTimesOut(o) ==
    /\ reply[o] = "late"
    /\ reply' = [reply EXCEPT ![o] = "error"]
    /\ MarkEnqueueFailed(o)
    /\ UNCHANGED <<catalog, request, disk, cutoff, pushing, queue, cancels, removed, deleted, worker, lost, mishaps>>

\* cancel_system_backup_operation up to its first await.  Bound: one cancellation at a
\* time.
Cancel(o) ==
    /\ row[o].status = "queued"
    /\ cancels = {}
    /\ cancels' = {o}
    /\ UNCHANGED <<tables, request, disk, cutoff, pushing, reply, removed, deleted, queue, worker, lost, mishaps>>

Found(o) == \E k \in 1..Len(queue) : queue[k].op = o

\* Mutant: the job is found in the list and the head of the list is taken.
WithoutHead(o) == IF Found(o) THEN Tail(queue) ELSE queue

\* LREM of one element.
Without(o) ==
    IF Found(o)
    THEN LET k == CHOOSE k \in 1..Len(queue) : queue[k].op = o
         IN  SubSeq(queue, 1, k - 1) \o SubSeq(queue, k + 1, Len(queue))
    ELSE queue

\* The job is taken from the queue, if it is there, and the operation is cancelled whatever
\* it says by now: it may be running, or over.  What happens between the two meets the job
\* as it would before the first, or the row as it would after the second.
CancelEnds(o) ==
    /\ o \in cancels
    /\ cancels' = cancels \ {o}
    /\ queue' = Without(o)
    /\ row' = Update(row, o, "cancelled")
    /\ removed' = IF Found(o) /\ Present(row[o]) THEN removed \cup {o} ELSE removed \ {o}
    /\ UNCHANGED <<catalog, stray, request, disk, cutoff, pushing, reply, deleted, worker, lost, mishaps>>

\* The dead-letter list is scanned after the queue: an error there leaves the operation
\* queued, its job perhaps removed.
CancelFails(o) ==
    /\ o \in cancels
    /\ Mishap
    /\ cancels' = cancels \ {o}
    /\ queue' \in {queue, Without(o)}
    /\ lost' = (lost \/ queue' # queue)
    /\ UNCHANGED <<tables, request, disk, cutoff, pushing, reply, removed, deleted, worker>>

-----------------------------------------------------------------------------
(* The backup-worker                                                       *)

\* _main_loop makes a task of whatever it pops, unless the HSET between the two fails.
Pop ==
    /\ queue # <<>>
    /\ queue' = Tail(queue)
    /\ \/ /\ pending' = Append(pending, Head(queue))
          /\ UNCHANGED <<lost, mishaps>>
       \/ /\ Mishap
          /\ lost' = TRUE
          /\ UNCHANGED pending
    /\ UNCHANGED <<tables, request, disk, cutoff, backend, task, doubled>>

Kind == request[task.op].kind
\* The package a restore is of.
Source == CHOOSE p \in request[task.op].on : TRUE

\* An attempt that fails without a word to its row: of the last one, the row keeps what
\* it says for ever.
FailSilently(j) ==
    /\ Mishap
    /\ lost' = (lost \/ j.attempt = MaxRetries)

\* update_operation_running has no condition.  Before and after it a missing tool or an
\* error of the database fails the attempt silently.
Begin ==
    /\ task = NoTask /\ pending # <<>>
    /\ pending' = Tail(pending)
    /\ LET j == Head(pending)
           started == [op |-> j.op, attempt |-> j.attempt, at |-> "working", made |-> 0,
                       left |-> request[j.op].on, bad |-> FALSE]
           running == Update(row, j.op, "running")
       IN  \/ /\ task' = [started EXCEPT !.at = IF request[j.op].kind = "purge" THEN "purging" ELSE "working"]
              /\ row' = running
              /\ UNCHANGED <<lost, mishaps>>
           \/ /\ FailSilently(j)
              /\ task' = [started EXCEPT !.at = "failed"]
              /\ row' \in {row, running}
    /\ UNCHANGED <<catalog, stray, request, disk, cutoff, queue, backend, doubled>>

\* A package holds the tables as they are, its own operation running.
Build ==
    /\ built < MaxPackages
    /\ built' = built + 1
    /\ files' = files \cup {built + 1}
    /\ dump' = [dump EXCEPT ![built + 1] = [row |-> row, catalog |-> catalog]]
    /\ UNCHANGED torn

BuildBackup ==
    /\ task.at = "working" /\ Kind = "backup"
    /\ Build
    /\ task' = [task EXCEPT !.at = "saved", !.made = built + 1]
    /\ UNCHANGED <<tables, request, cutoff, queue, backend, pending, doubled, lost, mishaps>>

Completed == [status |-> "completed", made |-> task.made]
Complete == IF Present(row[task.op]) THEN [row EXCEPT ![task.op] = Completed] ELSE row

\* Mutant: the operation is completed, and the package left to be discovered.
RegisterUnlisted ==
    /\ task.at = "saved" /\ Kind = "backup"
    /\ row' = Complete
    /\ task' = [task EXCEPT !.at = "registered"]
    /\ UNCHANGED <<catalog, stray, request, disk, cutoff, queue, backend, pending, doubled, lost, mishaps>>

\* insert_artifact and complete_operation; the INSERT fails on a package that a request
\* has listed meanwhile (Fail).
RegisterBackup ==
    /\ task.at = "saved" /\ Kind = "backup"
    /\ catalog[task.made].status = "absent"
    /\ catalog' = [catalog EXCEPT ![task.made] = [status |-> "available", created |-> task.made]]
    /\ row' = Complete
    /\ task' = [task EXCEPT !.at = "registered"]
    /\ UNCHANGED <<stray, request, disk, cutoff, queue, backend, pending, doubled, lost, mishaps>>

\* The file, then the row; an error in either is collected and raised at the end.
PurgeOne(p) ==
    /\ task.at = "purging" /\ p \in task.left
    /\ \/ /\ files' = files \ {p}
          /\ catalog' = IF catalog[p].status \in {"absent", "purged"} THEN catalog
                        ELSE [catalog EXCEPT ![p].status = "purged"]
          /\ task' = [task EXCEPT !.left = task.left \ {p}]
          /\ UNCHANGED mishaps
       \/ /\ Mishap
          /\ files' \in {files, files \ {p}}
          /\ task' = [task EXCEPT !.left = task.left \ {p}, !.bad = TRUE]
          /\ UNCHANGED catalog
    /\ UNCHANGED <<row, stray, request, built, dump, torn, cutoff, queue, backend, pending, doubled, lost>>

PurgeEnds ==
    /\ task.at = "purging" /\ task.left = {} /\ ~ task.bad
    /\ row' = Update(row, task.op, "completed")
    /\ task' = [task EXCEPT !.at = "registered"]
    /\ UNCHANGED <<catalog, stray, request, disk, cutoff, queue, backend, pending, doubled, lost, mishaps>>

Upsert(c, p) ==
    [c EXCEPT ![p] = [status |-> "available",
                      created |-> IF c[p].status = "absent" THEN built ELSE c[p].created]]

\* _validate_restore_package and _build_pre_restore_backup.
SaveBeforeRestore ==
    /\ task.at = "working" /\ Kind = "restore"
    /\ Source \in files
    /\ Build
    /\ catalog' = [catalog EXCEPT ![built + 1] = [status |-> "available", created |-> built + 1]]
    /\ task' = [task EXCEPT !.at = "saved", !.made = built + 1]
    /\ UNCHANGED <<row, stray, request, cutoff, queue, backend, pending, doubled, lost, mishaps>>

Truncate ==
    /\ task.at = "saved" /\ Kind = "restore"
    /\ row' = Empty.row
    /\ catalog' = Empty.catalog
    /\ stray' = FALSE
    /\ lost' = TRUE
    /\ task' = [task EXCEPT !.at = "truncated"]
    /\ UNCHANGED <<request, disk, cutoff, queue, backend, pending, doubled, mishaps>>

\* A row inserted since the TRUNCATE has a key of the dump: mariadb ends with an error.
Relisted == \E p \in Packages : Present(catalog[p]) /\ Present(dump[Source].catalog[p])
Collides == stray \/ Relisted

ImportedRows == [o \in Ops |-> IF Present(dump[Source].row[o]) THEN dump[Source].row[o] ELSE row[o]]
ImportedCatalog ==
    [p \in Packages |-> IF dump[Source].catalog[p].status # "absent" THEN dump[Source].catalog[p]
                        ELSE catalog[p]]

Import ==
    /\ task.at = "truncated" /\ ~ Collides
    /\ row' = ImportedRows
    /\ catalog' = ImportedCatalog
    /\ task' = [task EXCEPT !.at = "imported"]
    /\ UNCHANGED <<stray, request, disk, cutoff, queue, backend, pending, doubled, lost, mishaps>>

\* Mutant: only the dump speaks for the catalogue.
RegisterOperationOnly ==
    /\ task.at = "imported"
    /\ row' = [row EXCEPT ![task.op] = Completed]
    /\ task' = [task EXCEPT !.at = "registered"]
    /\ UNCHANGED <<catalog, stray, request, disk, cutoff, queue, backend, pending, doubled, lost, mishaps>>

\* upsert_artifact of both packages, upsert_operation_completed_without_artifact.
RegisterRestore ==
    /\ task.at = "imported"
    /\ catalog' = Upsert(Upsert(catalog, Source), task.made)
    /\ row' = [row EXCEPT ![task.op] = Completed]
    /\ task' = [task EXCEPT !.at = "registered"]
    /\ UNCHANGED <<stray, request, disk, cutoff, queue, backend, pending, doubled, lost, mishaps>>

\* The end of a handler; that of a restore is a FLUSHDB.
Finish ==
    /\ task.at = "registered"
    /\ queue' = IF Kind = "restore" THEN <<>> ELSE queue
    /\ task' = NoTask
    /\ UNCHANGED <<tables, request, disk, cutoff, backend, pending, doubled, lost, mishaps>>

Failed(rows) ==
    IF Kind = "restore" THEN [rows EXCEPT ![task.op].status = "failed"] ELSE Update(rows, task.op, "failed")

\* What cannot go on: a full disk, a package that a request has listed already, one that
\* is gone, a purge with errors, rows in the way of the import.
Blocked ==
    \/ task.at = "working" /\ (built = MaxPackages \/ (Kind = "restore" /\ Source \notin files))
    \/ task.at = "saved" /\ Kind = "backup" /\ catalog[task.made].status # "absent"
    \/ task.at = "purging" /\ task.bad
    \/ task.at = "truncated" /\ Collides

\* What TRUNCATEs and imports that fail leave: they are statements of their own, and go
\* through the tables by their names, the artifacts before the audit, the operations and
\* the singletons.
Leftovers ==
    {<<row, catalog>>} \cup
    CASE task.at = "saved" /\ Kind = "restore" -> {<<row, Empty.catalog>>}
      [] task.at = "truncated" /\ ~ Relisted ->
            {<<row, ImportedCatalog>>, <<ImportedRows, ImportedCatalog>>}
      [] OTHER -> {}

\* An exception in any phase: the operation fails now, whatever attempts are left; the row
\* of a restore is inserted if need be.
Fail ==
    /\ task.at \in {"working", "purging", "saved", "truncated", "imported", "registered"}
    /\ task.at = "purging" => task.left = {}
    /\ \E left \in Leftovers :
          /\ catalog' = left[2]
          /\ \/ row' = Failed(left[1]) /\ Blocked /\ UNCHANGED <<lost, mishaps>>
             \/ row' = Failed(left[1]) /\ ~ Blocked /\ Mishap /\ UNCHANGED lost
             \/ row' = left[1] /\ FailSilently(task)
          /\ torn' = (torn \/ (task.at = "saved" /\ left[2] # catalog))
    /\ task' = [task EXCEPT !.at = "failed"]
    /\ UNCHANGED <<stray, request, built, files, dump, cutoff, queue, backend, pending, doubled>>

NextAttempt == [op |-> task.op, attempt |-> task.attempt + 1]

\* Mutant: one attempt too many.
RetryOnceMore ==
    /\ task.at = "failed"
    /\ task' = NoTask
    /\ queue' = IF task.attempt <= MaxRetries THEN Append(queue, NextAttempt) ELSE queue
    /\ UNCHANGED <<tables, request, disk, cutoff, backend, pending, doubled, lost, mishaps>>

\* The semaphore is held through the backoff.  Redis may refuse the push after it; the
\* worker's client sends one again that it has no answer to, so that it may be applied twice.
RetryOrBury ==
    /\ task.at = "failed"
    /\ task' = NoTask
    /\ \/ /\ queue' = IF task.attempt < MaxRetries THEN Append(queue, NextAttempt) ELSE queue
          /\ UNCHANGED <<doubled, lost, mishaps>>
       \/ /\ task.attempt < MaxRetries /\ Mishap
          /\ queue' = Append(Append(queue, NextAttempt), NextAttempt)
          /\ doubled' = doubled \cup {task.op}
          /\ UNCHANGED lost
       \/ /\ Mishap
          /\ lost' = TRUE
          /\ UNCHANGED <<queue, doubled>>
    /\ UNCHANGED <<tables, request, disk, cutoff, backend, pending>>

\* What a crash leaves of the tables, a Fail just before it has left.
Crash ==
    /\ task # NoTask \/ pending # <<>>
    /\ Mishap
    /\ task' = NoTask
    /\ pending' = <<>>
    /\ lost' = TRUE
    /\ UNCHANGED <<tables, request, disk, cutoff, queue, backend, doubled>>

\* Retention counts days: none passes while a request or an operation is under way.
DayPasses ==
    /\ pushing = {} /\ cancels = {} /\ (\A o \in Ops : reply[o] # "late") /\ queue = <<>> /\ pending = <<>> /\ task = NoTask
    /\ cutoff < built + 1
    /\ cutoff' = built + 1
    /\ UNCHANGED <<tables, request, disk, queue, backend, worker, lost, mishaps>>

-----------------------------------------------------------------------------
Enqueue(o) == Push(o) \/ PushFails(o) \/ PushTimesOut(o)

TaskStep ==
    \/ Begin \/ BuildBackup \/ RegisterBackup \/ PurgeEnds
    \/ \E p \in Packages : PurgeOne(p)
    \/ SaveBeforeRestore \/ Truncate \/ Import \/ RegisterRestore
    \/ Finish \/ Fail \/ RetryOrBury

Next ==
    \/ Refresh \/ RequestBackup \/ RequestPurge
    \/ \E p \in Packages : RequestDelete(p) \/ RequestRestore(p)
    \/ \E o \in Ops : Enqueue(o) \/ Cancel(o) \/ CancelEnds(o) \/ CancelFails(o)
    \/ Pop \/ TaskStep \/ Crash \/ DayPasses

Spec == Init /\ [][Next]_vars

-----------------------------------------------------------------------------
(* Properties                                                              *)

BackupsTypeOK ==
    /\ row \in [Ops -> Operation]
    /\ request \in [Ops -> Request]
    /\ catalog \in [Packages -> Artifact]
    /\ stray \in BOOLEAN
    /\ built \in 0..MaxPackages
    /\ files \subseteq 1..built
    /\ torn \in BOOLEAN
    /\ dump \in [Packages -> Tables]
    /\ cutoff \in 0..(MaxPackages + 1)
    /\ pushing \subseteq Ops
    /\ reply \in [Ops -> Replies]
    /\ doubled \subseteq Ops
    /\ queue \in Seq(Job)
    /\ cancels \subseteq Ops
    /\ pending \in Seq(Job)
    /\ task \in Task
    /\ removed \subseteq Ops
    /\ deleted \in BOOLEAN /\ lost \in BOOLEAN
    /\ mishaps \in 0..MaxMishaps

\* A backup said to be completed is listed, and so are the package a restore has imported
\* and the one it made before: also after a crash, and after a restore that has brought
\* back the tables of another day; unless one has emptied the catalogue and then stopped.
CompletedHasPackage ==
    ~ torn =>
        \A o \in Ops :
            row[o].status = "completed" /\ request[o].kind # "purge" =>
                \A p \in request[o].on \cup {row[o].made} : catalog[p].status # "absent"

\* Retention leaves a package, listed or to be found by the next reconciliation, in any
\* order of purges, backups, restores and their retries; unless somebody asked to delete one.
RetentionKeepsOne == ~ deleted => \E p \in files : catalog[p].status # "purged"

Underway(o) ==
    \/ o \in pushing
    \/ \E k \in 1..Len(queue) : queue[k].op = o
    \/ \E k \in 1..Len(pending) : pending[k].op = o
    \/ task # NoTask /\ task.op = o

\* An operation cancelled "before its execution", its job taken from the queue, is not
\* executed after it: no job of it is left anywhere, unless the worker's client had pushed it
\* twice; and its row stays cancelled, unless the request that made it gave up on a push that
\* Redis had applied and marks it failed, a second job runs, or a restore imports an old row.
CancelSticks ==
    \A o \in removed :
        /\ Underway(o) => o \in doubled
        /\ \/ row[o].status = "cancelled"
           \/ row[o].status = "failed" /\ reply[o] = "error"
           \/ o \in doubled
           \/ \E r \in Ops : request[r].kind = "restore"

\* What is queued or running has somebody at work on it, so that it ends: unless a job or
\* a row was lost by a crash, a FLUSHDB, a cancellation that failed half-way, a restore, or
\* a last attempt that could not write its failure.
ActiveIsUnderway == \A o \in Ops : row[o].status \in Active => Underway(o) \/ lost
=============================================================================
