---------------------------- MODULE BackupsProofs ----------------------------
(***************************************************************************)
(* For every number of operations, packages, retries and failures: what is *)
(* completed is listed, what is active has somebody at work on it, a       *)
(* cancellation that found its job stays, and the retention leaves a       *)
(* package on disk.                                                        *)
(***************************************************************************)
EXTENDS Backups, SequenceTheorems, WellFoundedInduction, TLAPS

\* A task that holds the semaphore.
Held == [op : Ops, attempt : 1..MaxRetries, at : Phases, made : 0..MaxPackages,
         left : SUBSET Packages, bad : BOOLEAN]

\* What a request of each kind is on.
RequestLine ==
    \A o \in Ops : /\ request[o].kind = "backup" => request[o].on = {}
                   /\ request[o].kind = "restore" => \E p \in Packages : request[o].on = {p}

\* Nobody has seen an operation before it is requested.
Unrequested ==
    \A o \in Ops : request[o] = NoRequest =>
        /\ row[o] = NoOperation
        /\ \A p \in Packages : dump[p].row[o] = NoOperation
        /\ o \notin pushing \cup cancels \cup removed

AllRequested(jobs) == \A k \in 1..Len(jobs) : request[jobs[k].op] # NoRequest

\* Phases and kinds go together, the package of a task that has made one exists, and after
\* a TRUNCATE rows have been lost.
TaskLine ==
    task # NoTask =>
        /\ request[task.op] # NoRequest
        /\ task.at = "purging" => Kind = "purge"
        /\ task.at \in {"working", "saved"} => Kind # "purge"
        /\ task.at \in {"truncated", "imported"} => Kind = "restore" /\ lost
        /\ task.at = "registered" /\ Kind = "restore" => lost
        /\ task.at \in {"saved", "truncated", "imported"} => task.made \in Packages

HandedOn == AllRequested(queue) /\ AllRequested(pending)

TInv == BackupsTypeOK /\ RequestLine /\ Unrequested /\ HandedOn /\ TaskLine

\* The rows of the operations and of the catalogue agree, here and in every package, and
\* between a TRUNCATE and the import nothing is completed: until a TRUNCATE stops half-way.
HasPackages(rows, listed) ==
    \A o \in Ops :
        rows[o].status = "completed" /\ request[o].kind # "purge" =>
            \A p \in request[o].on \cup {rows[o].made} :
                p \in Packages /\ listed[p].status # "absent"
DumpsHavePackages == \A p \in Packages : HasPackages(dump[p].row, dump[p].catalog)
EmptiedLine == task.at = "truncated" => \A o \in Ops : row[o].status # "completed"
Paired == HasPackages(row, catalog) /\ DumpsHavePackages /\ EmptiedLine
CInv == torn \/ Paired

\* The job of an operation is in one place, unless it was pushed twice.
In(jobs, o) == \E k \in 1..Len(jobs) : jobs[k].op = o
Tasked(o) == task # NoTask /\ task.op = o
Once(jobs, o) == \A i, k \in 1..Len(jobs) : jobs[i].op = o /\ jobs[k].op = o => i = k
InOnePlace(o) ==
    /\ Once(queue, o) /\ Once(pending, o)
    /\ o \in pushing => ~ In(queue, o) /\ ~ In(pending, o) /\ ~ Tasked(o)
    /\ In(queue, o) => ~ In(pending, o) /\ ~ Tasked(o)
    /\ In(pending, o) => ~ Tasked(o)
OnePlace == \A o \in Ops \ doubled : InOnePlace(o)

\* A task that will not be tried again leaves a row that is not active.
EndLine ==
    task.at = "registered" \/ (task.at = "failed" /\ task.attempt = MaxRetries) =>
        row[task.op].status \notin Active \/ lost

PInv == OnePlace /\ EndLine /\ CancelSticks /\ ActiveIsUnderway

\* What is purged is off the disk, and rows are not older than their packages: in the tables
\* and in every dump of them.
Sound(listed, onDisk, newest) ==
    \A p \in Packages : listed[p].status # "absent" =>
        /\ listed[p].status = "purged" => p \notin onDisk
        /\ p <= listed[p].created /\ listed[p].created <= newest
SoundLine ==
    /\ Sound(catalog, files, built)
    /\ \A d \in Packages : Sound(dump[d].catalog, files, built)

\* A package made since the last day passed is not past its retention.
DayLine ==
    /\ cutoff <= built + 1
    /\ task.at \in {"saved", "truncated", "imported"} => cutoff <= built /\ task.made <= built

\* Requests are on packages that were made; a purge of the retention, on those past it.
AskedLine ==
    \A o \in Ops : /\ request[o].on \subseteq 1..built
                   /\ request[o].kind = "purge" /\ ~ deleted => \A p \in request[o].on : p < cutoff
LeftLine == task.at = "purging" => task.left \subseteq request[task.op].on

\* The package that the next reconciliation puts first, and the purges under way on it.
Time(listed, p) == IF listed[p].status = "absent" THEN p ELSE listed[p].created
Ahead(listed, p, q) ==
    Time(listed, p) > Time(listed, q) \/ (Time(listed, p) = Time(listed, q) /\ p < q)
Top(listed, onDisk, k) == k \in onDisk /\ \A q \in onDisk \ {k} : Ahead(listed, k, q)
Spared(k) == \A o \in Ops : request[o].kind = "purge" /\ Underway(o) => k \notin request[o].on

\* A package made since the last day passed stays; else the first stays, and since no day
\* passes while a purge is under way, it is the one that every such purge has left out.
KeepLine ==
    ~ deleted => IF cutoff <= built THEN built \in files
                 ELSE \E k \in files : Top(catalog, files, k) /\ Spared(k)

RInv == SoundLine /\ DayLine /\ AskedLine /\ LeftLine /\ KeepLine

-----------------------------------------------------------------------------
(* Operators                                                               *)

LEMMA UpdateIs ==
    ASSUME NEW rows \in [Ops -> Operation], NEW o \in Ops, NEW s \in Statuses
    PROVE  /\ Update(rows, o, s) \in [Ops -> Operation]
           /\ \A x \in Ops \ {o} : Update(rows, o, s)[x] = rows[x]
           /\ Update(rows, o, s)[o].made = rows[o].made
           /\ Update(rows, o, s)[o].status = IF rows[o].status = "absent" THEN "absent" ELSE s
           /\ rows[o] = NoOperation => Update(rows, o, s)[o] = NoOperation
<1>1. rows[o] \in Operation
  OBVIOUS
<1>2. [rows[o] EXCEPT !.status = s] \in Operation
  BY <1>1 DEF Operation
<1>3. CASE Present(rows[o])
  <2>1. Update(rows, o, s) = [rows EXCEPT ![o] = [rows[o] EXCEPT !.status = s]]
    BY <1>3 DEF Update
  <2> QED BY <1>1, <1>2, <1>3, <2>1 DEF Operation, Present, NoOperation
<1>4. CASE ~ Present(rows[o])
  BY <1>4 DEF Update, Present
<1> QED BY <1>3, <1>4

LEMMA ReconciledIs ==
    ASSUME BackupsTypeOK
    PROVE  /\ Reconciled \in [Packages -> Artifact]
           /\ \A p \in Packages : catalog[p].status # "absent" => Reconciled[p].status # "absent"
<1> SUFFICES ASSUME NEW p \in Packages
             PROVE  /\ Reconciled[p] \in Artifact
                    /\ catalog[p].status # "absent" => Reconciled[p].status # "absent"
  BY DEF Reconciled
<1>1. catalog[p] \in Artifact
  BY DEF BackupsTypeOK
<1>2. p \in 0..MaxPackages
  BY BackupsAssumption DEF Packages
<1>3. \A st \in {"available", "missing"} : [catalog[p] EXCEPT !.status = st] \in Artifact
  BY <1>1 DEF Artifact
<1>4. [status |-> "available", created |-> p] \in Artifact
  BY <1>2 DEF Artifact
<1>5. Reconciled[p] = catalog[p] \/ Reconciled[p] = [status |-> "available", created |-> p]
      \/ \E st \in {"available", "missing"} : Reconciled[p] = [catalog[p] EXCEPT !.status = st]
  BY DEF Reconciled
<1> QED BY <1>1, <1>3, <1>4, <1>5 DEF Artifact

LEMMA HeldIs ==
    ASSUME BackupsTypeOK
    PROVE  /\ task # NoTask => task \in Held /\ task.op \in Ops /\ task.attempt \in 1..MaxRetries
           /\ task = NoTask => task.at = "idle"
           /\ task.at \in Phases => task # NoTask
  BY DEF BackupsTypeOK, Task, Held, NoTask, Phases

LEMMA NoTaskAt == NoTask.at = "idle" /\ NoTask \in Task /\ Held \subseteq Task /\ "idle" \notin Phases
  BY DEF NoTask, Task, Held, Phases

\* The queue without the job of an operation.
LEMMA WithoutIs ==
    ASSUME queue \in Seq(Job), NEW o
    PROVE  /\ Without(o) \in Seq(Job)
           /\ ~ Found(o) => Without(o) = queue
           /\ Found(o) => \E k \in 1..Len(queue) :
                 /\ queue[k].op = o
                 /\ Len(Without(o)) = Len(queue) - 1
                 /\ \A i \in 1..Len(Without(o)) :
                       Without(o)[i] = queue[IF i < k THEN i ELSE i + 1]
<1>1. CASE ~ Found(o)
  BY <1>1 DEF Without
<1>2. CASE Found(o)
  <2> DEFINE k == CHOOSE k \in 1..Len(queue) : queue[k].op = o
             a == SubSeq(queue, 1, k - 1)
             b == SubSeq(queue, k + 1, Len(queue))
  <2>1. k \in 1..Len(queue) /\ queue[k].op = o
    BY <1>2 DEF Found
  <2>2. Without(o) = a \o b
    BY <1>2 DEF Without
  <2> HIDE DEF k
  <2>0. Len(queue) \in Nat /\ k \in Int /\ \A i \in 1..Len(queue) : queue[i] \in Job
    BY <2>1, ElementOfSeq, LenProperties
  <2>3. a \in Seq(Job) /\ Len(a) = k - 1 /\ \A i \in 1..k - 1 : a[i] = queue[i]
    BY <2>0, <2>1, SubSeqProperties
  <2>4. b \in Seq(Job) /\ Len(b) = Len(queue) - k /\ \A i \in 1..Len(queue) - k : b[i] = queue[k + i]
    <3>1. \A i \in k + 1..Len(queue) : queue[i] \in Job
      BY <2>0, <2>1
    <3>2. /\ b \in Seq(Job) /\ Len(b) = IF k + 1 <= Len(queue) THEN Len(queue) - (k + 1) + 1 ELSE 0
          /\ \A i \in 1..Len(queue) - (k + 1) + 1 : b[i] = queue[k + 1 + i - 1]
      BY <2>0, <3>1, SubSeqProperties
    <3> QED BY <2>0, <2>1, <3>2
  <2> HIDE DEF a, b
  <2>5. /\ a \o b \in Seq(Job) /\ Len(a \o b) = Len(a) + Len(b)
        /\ \A i \in 1..Len(a) + Len(b) : (a \o b)[i] = IF i <= Len(a) THEN a[i] ELSE b[i - Len(a)]
    BY <2>3, <2>4, ConcatProperties
  <2>6. Len(a \o b) = Len(queue) - 1
    BY <2>0, <2>3, <2>4, <2>5
  <2>7. ASSUME NEW i \in 1..Len(a \o b) PROVE (a \o b)[i] = queue[IF i < k THEN i ELSE i + 1]
    <3>1. CASE i < k
      BY <2>0, <2>1, <2>3, <2>4, <2>5, <2>7, <3>1
    <3>2. CASE ~ (i < k)
      <4>1. (a \o b)[i] = b[i - (k - 1)] /\ i - (k - 1) \in 1..Len(queue) - k
        BY <2>0, <2>1, <2>3, <2>4, <2>5, <2>6, <2>7, <3>2
      <4>2. k + (i - (k - 1)) = i + 1
        BY <2>0, <2>7, <2>6
      <4> QED BY <2>4, <3>2, <4>1, <4>2
    <3> QED BY <3>1, <3>2
  <2> QED BY <1>2, <2>1, <2>2, <2>5, <2>6, <2>7
<1> QED BY <1>1, <1>2

\* A task goes on: in another phase, with the package it has made, or with less to purge.
LEMMA NewPhase ==
    ASSUME BackupsTypeOK, task.at \in Phases, NEW at \in Phases, task' = [task EXCEPT !.at = at]
    PROVE  /\ task' \in Held /\ task' \in Task /\ task # NoTask
           /\ task'.at = at /\ task'.op = task.op /\ task'.attempt = task.attempt
           /\ task'.made = task.made
  BY HeldIs, NoTaskAt DEF Held

LEMMA MadePhase ==
    ASSUME BackupsTypeOK, task.at \in Phases, NEW at \in Phases, NEW made \in 0..MaxPackages,
           task' = [task EXCEPT !.at = at, !.made = made]
    PROVE  /\ task' \in Held /\ task' \in Task /\ task # NoTask
           /\ task'.at = at /\ task'.op = task.op /\ task'.attempt = task.attempt
           /\ task'.made = made
  BY HeldIs, NoTaskAt DEF Held

LEMMA LessLeft ==
    ASSUME BackupsTypeOK, task.at \in Phases, NEW left \in SUBSET Packages,
           \/ task' = [task EXCEPT !.left = left]
           \/ task' = [task EXCEPT !.left = left, !.bad = TRUE]
    PROVE  /\ task' \in Held /\ task' \in Task /\ task # NoTask
           /\ task'.at = task.at /\ task'.op = task.op /\ task'.attempt = task.attempt
           /\ task'.made = task.made
  BY HeldIs, NoTaskAt DEF Held

LEMMA PhaseNames ==
    {"working", "purging", "saved", "truncated", "imported", "registered", "failed"} \subseteq Phases
  BY DEF Phases

LEMMA BuildType ==
    ASSUME BackupsTypeOK, Build
    PROVE  /\ built' \in 0..MaxPackages /\ built' = built + 1 /\ built + 1 \in Packages
           /\ files' \subseteq 1..built'
           /\ dump' \in [Packages -> Tables]
           /\ dump' = [dump EXCEPT ![built + 1] = [row |-> row, catalog |-> catalog]]
           /\ torn' = torn
<1>1. built \in Nat /\ MaxPackages \in Nat /\ built < MaxPackages
  BY BackupsAssumption DEF BackupsTypeOK, Build
<1>2. [row |-> row, catalog |-> catalog] \in Tables
  BY DEF BackupsTypeOK, Tables
<1> QED BY <1>1, <1>2 DEF BackupsTypeOK, Build, Packages

-----------------------------------------------------------------------------
(* Types                                                                   *)

LEMMA TypeInit == Init => BackupsTypeOK
<1> SUFFICES ASSUME Init PROVE BackupsTypeOK
  OBVIOUS
<1> USE BackupsAssumption
<1>1. NoOperation \in Operation /\ NoArtifact \in Artifact /\ NoRequest \in Request
  BY DEF NoOperation, NoArtifact, NoRequest, Operation, Artifact, Request, Statuses
<1>2. \A n \in Int : Listed(n) \in [Packages -> Artifact]
  BY <1>1 DEF Listed, Artifact, Packages
<1>3. Empty \in Tables /\ Empty.row = [o \in Ops |-> NoOperation]
  BY <1>1 DEF Empty, Tables
<1>4. \A n \in Int : [Empty EXCEPT !.catalog = Listed(n)] \in Tables
  BY <1>2, <1>3 DEF Tables
<1>5. dump \in [Packages -> Tables]
  BY <1>3, <1>4 DEF Init, Packages
<1>6. row \in [Ops -> Operation] /\ catalog \in [Packages -> Artifact] /\ request \in [Ops -> Request]
  BY <1>1, <1>2, <1>3 DEF Init
<1>7. built \in 0..MaxPackages /\ files \subseteq 1..built /\ cutoff \in 0..(MaxPackages + 1)
  BY DEF Init
<1>8. queue \in Seq(Job) /\ pending \in Seq(Job) /\ mishaps \in 0..MaxMishaps
  BY EmptySeq DEF Init
<1>9. task \in Task /\ pushing \subseteq Ops /\ cancels \subseteq Ops /\ removed \subseteq Ops
  BY NoTaskAt DEF Init
<1>10. stray \in BOOLEAN /\ deleted \in BOOLEAN /\ lost \in BOOLEAN /\ torn \in BOOLEAN
  BY DEF Init
<1>11. reply \in [Ops -> Replies] /\ doubled \subseteq Ops
  BY DEF Init, Replies
<1> QED BY <1>5, <1>6, <1>7, <1>8, <1>9, <1>10, <1>11 DEF BackupsTypeOK

LEMMA MishapType == ASSUME BackupsTypeOK, Mishap PROVE mishaps' \in 0..MaxMishaps
  BY BackupsAssumption DEF BackupsTypeOK, Mishap

LEMMA TouchType == ASSUME BackupsTypeOK, Touch PROVE stray' \in BOOLEAN
  BY DEF BackupsTypeOK, Touch

LEMMA InsertType ==
    ASSUME BackupsTypeOK, NEW kind \in Kinds, NEW on \in SUBSET Packages, Insert(kind, on),
           catalog' \in [Packages -> Artifact], deleted' \in BOOLEAN
    PROVE  BackupsTypeOK'
<1> PICK o \in Ops : /\ row' = [row EXCEPT ![o] = [status |-> "queued", made |-> 0]]
                     /\ request' = [request EXCEPT ![o] = [kind |-> kind, on |-> on]]
                     /\ pushing' = pushing \cup {o}
  BY DEF Insert
<1>1. [status |-> "queued", made |-> 0] \in Operation
  BY BackupsAssumption DEF Operation, Statuses
<1>2. [kind |-> kind, on |-> on] \in Request
  BY DEF Request
<1>3. row' \in [Ops -> Operation] /\ request' \in [Ops -> Request] /\ pushing' \subseteq Ops
  BY <1>1, <1>2 DEF BackupsTypeOK
<1>4. stray' \in BOOLEAN /\ UNCHANGED <<disk, cutoff, reply, queue, cancels, removed, worker, lost, mishaps>>
  BY TouchType DEF Insert
<1> QED BY <1>3, <1>4 DEF BackupsTypeOK, disk, worker

LEMMA JobType ==
    ASSUME NEW o \in Ops, NEW n \in 1..MaxRetries
    PROVE  [op |-> o, attempt |-> n] \in Job
  BY DEF Job

LEMMA BackendType ==
    ASSUME BackupsTypeOK,
           \/ Refresh \/ RequestBackup \/ RequestPurge
           \/ \E p \in Packages : RequestDelete(p) \/ RequestRestore(p)
           \/ \E o \in Ops : Enqueue(o) \/ Cancel(o) \/ CancelEnds(o) \/ CancelFails(o)
    PROVE  BackupsTypeOK'
<1>1. CASE Refresh
  <2>1. catalog' \in [Packages -> Artifact] /\ stray' \in BOOLEAN
    BY <1>1, ReconciledIs, TouchType DEF Refresh, BackupsTypeOK
  <2> QED BY <1>1, <2>1 DEF Refresh, BackupsTypeOK, disk, backend, worker
<1>2. CASE RequestBackup
  <2>1. "backup" \in Kinds /\ {} \in SUBSET Packages
    BY DEF Kinds
  <2> QED BY <1>2, <2>1, InsertType DEF RequestBackup, BackupsTypeOK
<1>3. CASE RequestPurge
  <2>1. "purge" \in Kinds /\ Candidates(Reconciled) \in SUBSET Packages
    BY DEF Kinds, Candidates, Available
  <2> QED BY <1>3, <2>1, InsertType, ReconciledIs DEF RequestPurge, BackupsTypeOK
<1>4. ASSUME NEW p \in Packages, RequestDelete(p) \/ RequestRestore(p) PROVE BackupsTypeOK'
  <2>1. {"purge", "restore"} \subseteq Kinds /\ {p} \in SUBSET Packages
    BY DEF Kinds
  <2> QED BY <1>4, <2>1, InsertType, ReconciledIs DEF RequestDelete, RequestRestore, BackupsTypeOK
<1>5. ASSUME NEW o \in Ops, Enqueue(o) PROVE BackupsTypeOK'
  <2>1. CASE Push(o)
    <3>1. queue \in Seq(Job) /\ [op |-> o, attempt |-> 1] \in Job
      BY BackupsAssumption, JobType DEF BackupsTypeOK
    <3>2. queue' \in Seq(Job) /\ pushing' \subseteq Ops
      BY <2>1, <3>1, AppendProperties DEF Push, BackupsTypeOK
    <3>3. reply' \in [Ops -> Replies] /\ mishaps' \in 0..MaxMishaps
      BY <2>1, MishapType DEF Push, Replies, BackupsTypeOK
    <3> QED BY <2>1, <3>2, <3>3 DEF Push, BackupsTypeOK, tables, disk, worker
  <2>2. ASSUME MarkEnqueueFailed(o) PROVE row' \in [Ops -> Operation] /\ stray' \in BOOLEAN
    BY <2>2, UpdateIs, TouchType DEF MarkEnqueueFailed, BackupsTypeOK, Statuses
  <2>3. CASE PushFails(o)
    <3>1. row' \in [Ops -> Operation] /\ stray' \in BOOLEAN /\ lost' \in BOOLEAN
      BY <2>2, <2>3 DEF PushFails, BackupsTypeOK
    <3>2. mishaps' \in 0..MaxMishaps /\ pushing' \subseteq Ops
      BY <2>3, MishapType DEF PushFails, BackupsTypeOK
    <3> QED BY <2>3, <3>1, <3>2 DEF PushFails, BackupsTypeOK, disk, worker
  <2>4. CASE PushTimesOut(o)
    <3>1. row' \in [Ops -> Operation] /\ stray' \in BOOLEAN /\ reply' \in [Ops -> Replies]
      BY <2>2, <2>4 DEF PushTimesOut, Replies, BackupsTypeOK
    <3> QED BY <2>4, <3>1 DEF PushTimesOut, BackupsTypeOK, disk, worker
  <2> QED BY <1>5, <2>1, <2>3, <2>4 DEF Enqueue
<1>6. ASSUME NEW o \in Ops, Cancel(o) PROVE BackupsTypeOK'
  BY <1>6 DEF Cancel, BackupsTypeOK, tables, disk, worker
<1>7. ASSUME NEW o \in Ops, CancelEnds(o) PROVE BackupsTypeOK'
  <2>1. row' \in [Ops -> Operation] /\ queue' \in Seq(Job)
    BY <1>7, UpdateIs, WithoutIs DEF CancelEnds, BackupsTypeOK, Statuses
  <2>2. cancels' \subseteq Ops /\ removed' \subseteq Ops
    BY <1>7 DEF CancelEnds, BackupsTypeOK
  <2> QED BY <1>7, <2>1, <2>2 DEF CancelEnds, BackupsTypeOK, disk, worker
<1>8. ASSUME NEW o \in Ops, CancelFails(o) PROVE BackupsTypeOK'
  <2>1. queue' \in Seq(Job) /\ mishaps' \in 0..MaxMishaps
    BY <1>8, WithoutIs, MishapType DEF CancelFails, BackupsTypeOK
  <2>2. cancels' \subseteq Ops /\ lost' \in BOOLEAN
    BY <1>8 DEF CancelFails, BackupsTypeOK
  <2> QED BY <1>8, <2>1, <2>2 DEF CancelFails, BackupsTypeOK, tables, disk, worker
<1> QED BY <1>1, <1>2, <1>3, <1>4, <1>5, <1>6, <1>7, <1>8

LEMMA FailSilentlyType ==
    ASSUME BackupsTypeOK, NEW j, FailSilently(j)
    PROVE  lost' \in BOOLEAN /\ mishaps' \in 0..MaxMishaps
  BY MishapType DEF FailSilently, BackupsTypeOK

LEMMA PopType == ASSUME BackupsTypeOK, Pop PROVE BackupsTypeOK'
<1>1. queue \in Seq(Job) /\ pending \in Seq(Job) /\ queue # <<>>
  BY DEF BackupsTypeOK, Pop
<1>2. Head(queue) \in Job /\ queue' \in Seq(Job)
  BY <1>1, HeadTailProperties DEF Pop
<1>3. Append(pending, Head(queue)) \in Seq(Job)
  BY <1>1, <1>2, AppendProperties
<1>4. pending' \in Seq(Job)
  BY <1>1, <1>3 DEF Pop
<1>5. mishaps' \in 0..MaxMishaps /\ lost' \in BOOLEAN
  BY MishapType DEF Pop, BackupsTypeOK
<1> QED BY <1>2, <1>4, <1>5 DEF Pop, BackupsTypeOK, tables, disk, backend

\* The task that a job becomes.
LEMMA BegunTask ==
    ASSUME BackupsTypeOK, NEW j \in Job, NEW at \in Phases
    PROVE  [op |-> j.op, attempt |-> j.attempt, at |-> at, made |-> 0,
            left |-> request[j.op].on, bad |-> FALSE] \in Held
<1>1. j.op \in Ops /\ j.attempt \in 1..MaxRetries
  BY DEF Job
<1>2. request[j.op].on \in SUBSET Packages
  BY <1>1 DEF BackupsTypeOK, Request
<1> QED BY <1>1, <1>2, BackupsAssumption DEF Held

LEMMA BeginIs ==
    ASSUME BackupsTypeOK, Begin
    PROVE  \E j \in Job :
              /\ task = NoTask /\ pending # <<>> /\ j = Head(pending) /\ pending' = Tail(pending)
              /\ task' \in Held /\ task'.op = j.op /\ task'.attempt = j.attempt
              /\ task'.at \in {"working", "purging", "failed"}
              /\ task'.at = "purging" => request[j.op].kind = "purge"
              /\ task'.at = "working" => request[j.op].kind # "purge"
              /\ row' \in {row, Update(row, j.op, "running")}
              /\ \/ task'.at # "failed" /\ UNCHANGED <<lost, mishaps>>
                 \/ task'.at = "failed" /\ FailSilently(j)
              /\ UNCHANGED <<catalog, stray, request, disk, cutoff, queue, backend, doubled>>
<1> DEFINE j == Head(pending)
           T(at) == [op |-> j.op, attempt |-> j.attempt, at |-> at, made |-> 0,
                     left |-> request[j.op].on, bad |-> FALSE]
           first == IF request[j.op].kind = "purge" THEN "purging" ELSE "working"
<1>1. pending \in Seq(Job) /\ pending # <<>> /\ task = NoTask /\ pending' = Tail(pending)
  BY DEF BackupsTypeOK, Begin
<1>2. j \in Job
  BY <1>1, HeadTailProperties
<1>3. \A at \in Phases : T(at) \in Held
  BY <1>2, BegunTask
<1>4. \/ task' = T(first) /\ row' = Update(row, j.op, "running") /\ UNCHANGED <<lost, mishaps>>
      \/ task' = T("failed") /\ FailSilently(j) /\ row' \in {row, Update(row, j.op, "running")}
  BY DEF Begin
<1>5. \A at : T(at).op = j.op /\ T(at).attempt = j.attempt /\ T(at).at = at
  OBVIOUS
<1>6. first \in Phases /\ "failed" \in Phases
  BY DEF Phases
<1>7. UNCHANGED <<catalog, stray, request, disk, cutoff, queue, backend, doubled>>
  BY DEF Begin
<1> HIDE DEF j, T
<1>8. WITNESS j \in Job
<1> QED BY <1>1, <1>3, <1>4, <1>5, <1>6, <1>7 DEF j

LEMMA SourceIs ==
    ASSUME BackupsTypeOK, RequestLine, TaskLine, task # NoTask, Kind = "restore"
    PROVE  Source \in Packages /\ request[task.op].on = {Source}
<1>1. task.op \in Ops
  BY HeldIs
<1>2. \E p \in Packages : request[task.op].on = {p}
  BY <1>1 DEF RequestLine, Kind
<1> QED BY <1>2 DEF Source

LEMMA ImportedIs ==
    ASSUME BackupsTypeOK, Source \in Packages
    PROVE  ImportedRows \in [Ops -> Operation] /\ ImportedCatalog \in [Packages -> Artifact]
<1>1. dump[Source] \in Tables
  BY DEF BackupsTypeOK
<1> QED BY <1>1 DEF BackupsTypeOK, Tables, ImportedRows, ImportedCatalog

LEMMA UpsertIs ==
    ASSUME BackupsTypeOK, NEW c \in [Packages -> Artifact], NEW p \in Packages
    PROVE  /\ Upsert(c, p) \in [Packages -> Artifact]
           /\ Upsert(c, p)[p].status = "available"
           /\ \A q \in Packages \ {p} : Upsert(c, p)[q] = c[q]
<1> DEFINE new == [status |-> "available",
                   created |-> IF c[p].status = "absent" THEN built ELSE c[p].created]
<1>1. new \in Artifact /\ new.status = "available"
  BY DEF Artifact, BackupsTypeOK
<1>2. Upsert(c, p) = [c EXCEPT ![p] = new]
  BY DEF Upsert
<1> HIDE DEF new
<1> QED BY <1>1, <1>2

LEMMA CompletedType ==
    ASSUME BackupsTypeOK, task # NoTask
    PROVE  /\ Completed \in Operation /\ Complete \in [Ops -> Operation]
           /\ [row EXCEPT ![task.op] = Completed] \in [Ops -> Operation]
  BY HeldIs DEF Held, Completed, Complete, Operation, Statuses, BackupsTypeOK

LEMMA FailedIs ==
    ASSUME BackupsTypeOK, task # NoTask, NEW rows \in [Ops -> Operation]
    PROVE  /\ Failed(rows) \in [Ops -> Operation]
           /\ \A x \in Ops \ {task.op} : Failed(rows)[x] = rows[x]
           /\ Failed(rows)[task.op].status \in {"absent", "failed"}
<1>1. task.op \in Ops /\ "failed" \in Statuses
  BY HeldIs DEF Statuses
<1>2. CASE Kind = "restore"
  <2>1. [rows[task.op] EXCEPT !.status = "failed"] \in Operation
    BY <1>1 DEF Operation
  <2>2. [rows[task.op] EXCEPT !.status = "failed"].status = "failed"
    BY <1>1 DEF Operation
  <2> QED BY <1>1, <1>2, <2>1, <2>2 DEF Failed
<1>3. CASE Kind # "restore"
  BY <1>1, <1>3, UpdateIs DEF Failed
<1> QED BY <1>2, <1>3

\* What a failure leaves of the tables.
LEMMA LeftoversAre ==
    ASSUME BackupsTypeOK, RequestLine, TaskLine, task # NoTask, NEW left \in Leftovers
    PROVE  /\ left[1] \in [Ops -> Operation] /\ left[2] \in [Packages -> Artifact]
           /\ \/ left[1] = row /\ left[2] = catalog
              \/ task.at = "saved" /\ Kind = "restore" /\ left[1] = row /\ left[2] = Empty.catalog
              \/ /\ task.at = "truncated" /\ left[1] \in {row, ImportedRows}
                 /\ left[2] = ImportedCatalog
<1>1. \/ left = <<row, catalog>>
      \/ task.at = "saved" /\ Kind = "restore" /\ left = <<row, Empty.catalog>>
      \/ task.at = "truncated" /\ left \in {<<row, ImportedCatalog>>, <<ImportedRows, ImportedCatalog>>}
  BY DEF Leftovers
<1>2. CASE left = <<row, catalog>>
  BY <1>2 DEF BackupsTypeOK
<1>3. CASE task.at = "truncated" /\ left \in {<<row, ImportedCatalog>>, <<ImportedRows, ImportedCatalog>>}
  <2>1. Source \in Packages
    BY <1>3, SourceIs DEF TaskLine
  <2>2. ImportedRows \in [Ops -> Operation] /\ ImportedCatalog \in [Packages -> Artifact]
    BY <2>1, ImportedIs
  <2> QED BY <1>3, <2>2 DEF BackupsTypeOK
<1>4. CASE task.at = "saved" /\ Kind = "restore" /\ left = <<row, Empty.catalog>>
  <2>1. Empty.catalog \in [Packages -> Artifact]
    BY BackupsAssumption DEF Empty, NoArtifact, Artifact
  <2> QED BY <1>4, <2>1 DEF BackupsTypeOK
<1> QED BY <1>1, <1>2, <1>3, <1>4

LEMMA FailIs ==
    ASSUME BackupsTypeOK, RequestLine, TaskLine, Fail
    PROVE  \E left \in Leftovers :
              /\ task.at \in Phases \ {"failed"} /\ catalog' = left[2]
              /\ task' = [task EXCEPT !.at = "failed"]
              /\ \/ row' = Failed(left[1]) /\ UNCHANGED lost /\ (Mishap \/ UNCHANGED mishaps)
                 \/ row' = left[1] /\ FailSilently(task)
              /\ torn' = (torn \/ (task.at = "saved" /\ left[2] # catalog))
              /\ UNCHANGED <<stray, request, built, files, dump, cutoff, queue, backend, pending, doubled>>
<1> PICK left \in Leftovers :
          /\ catalog' = left[2]
          /\ \/ row' = Failed(left[1]) /\ Blocked /\ UNCHANGED <<lost, mishaps>>
             \/ row' = Failed(left[1]) /\ ~ Blocked /\ Mishap /\ UNCHANGED lost
             \/ row' = left[1] /\ FailSilently(task)
          /\ torn' = (torn \/ (task.at = "saved" /\ left[2] # catalog))
  BY DEF Fail
<1>1. task.at \in Phases \ {"failed"} /\ task' = [task EXCEPT !.at = "failed"]
      /\ UNCHANGED <<stray, request, built, files, dump, cutoff, queue, backend, pending, doubled>>
  BY DEF Fail, Phases
<1> WITNESS left \in Leftovers
<1> QED BY <1>1

LEMMA TaskType ==
    ASSUME BackupsTypeOK, RequestLine, TaskLine, TaskStep
    PROVE  BackupsTypeOK'
<1>1. CASE Begin
  <2> PICK j \in Job :
              /\ task' \in Held
              /\ pending # <<>> /\ pending' = Tail(pending)
              /\ row' \in {row, Update(row, j.op, "running")}
              /\ \/ UNCHANGED <<lost, mishaps>>
                 \/ FailSilently(j)
              /\ UNCHANGED <<catalog, stray, request, disk, cutoff, queue, backend, doubled>>
    BY <1>1, BeginIs
  <2>1. row' \in [Ops -> Operation]
    <3>1. j.op \in Ops /\ "running" \in Statuses /\ row \in [Ops -> Operation]
      BY DEF BackupsTypeOK, Job, Statuses
    <3> QED BY <3>1, UpdateIs
  <2>2. pending' \in Seq(Job) /\ task' \in Task
    BY HeadTailProperties, NoTaskAt DEF BackupsTypeOK
  <2>3. lost' \in BOOLEAN /\ mishaps' \in 0..MaxMishaps
    BY FailSilentlyType DEF BackupsTypeOK
  <2> QED BY <2>1, <2>2, <2>3 DEF BackupsTypeOK, disk, backend
<1>2. CASE BuildBackup
  <2>1. built + 1 \in 0..MaxPackages /\ {"working", "saved"} \subseteq Phases
    BY <1>2, BuildType DEF BuildBackup, Phases
  <2>2. task' \in Task
    BY <1>2, <2>1, MadePhase DEF BuildBackup
  <2> QED BY <1>2, <2>2, BuildType DEF BuildBackup, BackupsTypeOK, tables, backend
<1>3. CASE RegisterBackup
  <2>1. task \in Held /\ task # NoTask /\ task' \in Task
    BY <1>3, PhaseNames, HeldIs, NewPhase DEF RegisterBackup
  <2>2. [status |-> "available", created |-> task.made] \in Artifact
    BY <2>1 DEF Held, Artifact
  <2>3. catalog' \in [Packages -> Artifact] /\ row' \in [Ops -> Operation]
    BY <1>3, <2>1, <2>2, CompletedType DEF RegisterBackup, BackupsTypeOK
  <2> QED BY <1>3, <2>1, <2>3 DEF RegisterBackup, BackupsTypeOK, disk, backend
<1>4. CASE PurgeEnds
  <2>1. task \in Held /\ task # NoTask /\ task.op \in Ops /\ task' \in Task
    BY <1>4, PhaseNames, HeldIs, NewPhase DEF PurgeEnds
  <2>2. row' \in [Ops -> Operation]
    BY <1>4, <2>1, UpdateIs DEF PurgeEnds, BackupsTypeOK, Statuses
  <2> QED BY <1>4, <2>1, <2>2 DEF PurgeEnds, BackupsTypeOK, disk, backend
<1>5. ASSUME NEW p \in Packages, PurgeOne(p) PROVE BackupsTypeOK'
  <2>1. task \in Held /\ task.at \in Phases /\ task.left \ {p} \in SUBSET Packages
    BY <1>5, HeldIs DEF PurgeOne, Phases, Held
  <2>2. task' \in Task
    BY <1>5, <2>1, LessLeft DEF PurgeOne
  <2>3. [catalog[p] EXCEPT !.status = "purged"] \in Artifact
    BY DEF BackupsTypeOK, Artifact
  <2>4. catalog' \in [Packages -> Artifact] /\ files' \subseteq 1..built
    BY <1>5, <2>3 DEF PurgeOne, BackupsTypeOK
  <2>5. mishaps' \in 0..MaxMishaps
    BY <1>5, MishapType DEF PurgeOne, BackupsTypeOK
  <2> QED BY <1>5, <2>2, <2>4, <2>5 DEF PurgeOne, BackupsTypeOK, backend
<1>6. CASE SaveBeforeRestore
  <2>1. built + 1 \in 0..MaxPackages /\ {"working", "saved"} \subseteq Phases
    BY <1>6, BuildType DEF SaveBeforeRestore, Phases
  <2>2. task' \in Task
    BY <1>6, <2>1, MadePhase DEF SaveBeforeRestore
  <2>3. [status |-> "available", created |-> built + 1] \in Artifact
    BY <2>1 DEF Artifact
  <2>4. catalog' \in [Packages -> Artifact]
    BY <1>6, <2>3 DEF SaveBeforeRestore, BackupsTypeOK
  <2> QED BY <1>6, <2>2, <2>4, BuildType DEF SaveBeforeRestore, BackupsTypeOK, backend
<1>7. CASE Truncate
  <2>1. task' \in Task
    BY <1>7, PhaseNames, NewPhase DEF Truncate
  <2>2. row' \in [Ops -> Operation] /\ catalog' \in [Packages -> Artifact]
    BY <1>7, BackupsAssumption
       DEF Truncate, Empty, NoOperation, NoArtifact, Operation, Artifact, Statuses
  <2> QED BY <1>7, <2>1, <2>2 DEF Truncate, BackupsTypeOK, disk, backend
<1>8. CASE Import
  <2>1. task # NoTask /\ task' \in Task
    BY <1>8, PhaseNames, NewPhase DEF Import
  <2>2. row' \in [Ops -> Operation] /\ catalog' \in [Packages -> Artifact]
    BY <1>8, <2>1, SourceIs, ImportedIs DEF Import, TaskLine
  <2> QED BY <1>8, <2>1, <2>2 DEF Import, BackupsTypeOK, disk, backend
<1>9. CASE RegisterRestore
  <2>1. task # NoTask /\ task' \in Task
    BY <1>9, PhaseNames, NewPhase DEF RegisterRestore
  <2>2. Source \in Packages /\ task.made \in Packages
    BY <1>9, <2>1, SourceIs DEF RegisterRestore, TaskLine
  <2>3. catalog' \in [Packages -> Artifact] /\ row' \in [Ops -> Operation]
    BY <1>9, <2>1, <2>2, UpsertIs, CompletedType DEF RegisterRestore, BackupsTypeOK
  <2> QED BY <1>9, <2>1, <2>3 DEF RegisterRestore, BackupsTypeOK, disk, backend
<1>10. CASE Finish
  <2>1. queue' \in Seq(Job) /\ task' \in Task
    BY <1>10, EmptySeq, NoTaskAt DEF Finish, BackupsTypeOK
  <2> QED BY <1>10, <2>1 DEF Finish, BackupsTypeOK, tables, disk, backend
<1>11. CASE Fail
  <2>1. task # NoTask
    BY <1>11, HeldIs DEF Fail, Phases
  <2> PICK left \in Leftovers :
              /\ task.at \in Phases \ {"failed"} /\ catalog' = left[2]
              /\ task' = [task EXCEPT !.at = "failed"]
              /\ \/ row' = Failed(left[1]) /\ UNCHANGED lost /\ (Mishap \/ UNCHANGED mishaps)
                 \/ row' = left[1] /\ FailSilently(task)
              /\ torn' = (torn \/ (task.at = "saved" /\ left[2] # catalog))
              /\ UNCHANGED <<stray, request, built, files, dump, cutoff, queue, backend, pending, doubled>>
    BY <1>11, FailIs
  <2>2. row' \in [Ops -> Operation] /\ catalog' \in [Packages -> Artifact]
    BY <2>1, LeftoversAre, FailedIs
  <2>3. task' \in Task
    BY PhaseNames, NewPhase
  <2>4. lost' \in BOOLEAN /\ mishaps' \in 0..MaxMishaps
    BY MishapType, FailSilentlyType DEF BackupsTypeOK
  <2> QED BY <2>2, <2>3, <2>4 DEF BackupsTypeOK, disk, backend
<1>12. CASE RetryOrBury
  <2>1. task \in Held /\ task.op \in Ops /\ task' \in Task
    BY <1>12, HeldIs, NoTaskAt DEF RetryOrBury, Phases
  <2>2. task.attempt < MaxRetries => task.attempt + 1 \in 1..MaxRetries
    BY <2>1, BackupsAssumption DEF Held
  <2>3. ASSUME task.attempt < MaxRetries
        PROVE  /\ Append(queue, NextAttempt) \in Seq(Job)
               /\ Append(Append(queue, NextAttempt), NextAttempt) \in Seq(Job)
    <3>1. queue \in Seq(Job) /\ NextAttempt \in Job
      BY <2>1, <2>2, <2>3, JobType DEF BackupsTypeOK, NextAttempt
    <3> QED BY <3>1, AppendProperties
  <2>4. queue' \in Seq(Job) /\ doubled' \subseteq Ops
    BY <1>12, <2>1, <2>3 DEF RetryOrBury, BackupsTypeOK
  <2>5. lost' \in BOOLEAN /\ mishaps' \in 0..MaxMishaps
    BY <1>12, MishapType DEF RetryOrBury, BackupsTypeOK
  <2> QED BY <1>12, <2>1, <2>4, <2>5 DEF RetryOrBury, BackupsTypeOK, tables, disk, backend
<1> QED BY <1>1, <1>2, <1>3, <1>4, <1>5, <1>6, <1>7, <1>8, <1>9, <1>10, <1>11, <1>12 DEF TaskStep

LEMMA TypeStep ==
    ASSUME BackupsTypeOK, RequestLine, TaskLine, [Next]_vars
    PROVE  BackupsTypeOK'
<1>1. CASE Crash
  <2>1. task' \in Task /\ pending' \in Seq(Job) /\ lost' \in BOOLEAN
    BY <1>1, NoTaskAt, EmptySeq DEF Crash
  <2>2. mishaps' \in 0..MaxMishaps
    BY <1>1, MishapType DEF Crash
  <2> QED BY <1>1, <2>1, <2>2 DEF Crash, BackupsTypeOK, tables, disk, backend
<1>2. CASE DayPasses
  <2>1. cutoff' \in 0..(MaxPackages + 1)
    BY <1>2, BackupsAssumption DEF DayPasses, BackupsTypeOK
  <2> QED BY <1>2, <2>1 DEF DayPasses, BackupsTypeOK, tables, disk, backend, worker
<1>3. CASE UNCHANGED vars
  BY <1>3 DEF vars, BackupsTypeOK, tables, disk, backend, worker
<1> QED BY <1>1, <1>2, <1>3, BackendType, PopType, TaskType DEF Next

-----------------------------------------------------------------------------
(* Requests, jobs and tasks                                                *)

LEMMA NoRequestIs ==
    /\ \A k \in Kinds : \A on : [kind |-> k, on |-> on] # NoRequest
    /\ NoRequest.kind \notin Kinds /\ NoOperation.status = "absent"
  BY DEF Kinds, NoRequest, NoOperation

\* An operation is requested once.
LEMMA RequestsGrow ==
    ASSUME TInv, [Next]_vars
    PROVE  /\ \A o \in Ops : request[o] # NoRequest => request'[o] = request[o]
           /\ \/ request' = request
              \/ \E kind \in Kinds, on \in SUBSET Packages :
                    /\ Insert(kind, on) /\ UNCHANGED task
                    /\ kind = "backup" => on = {}
                    /\ kind = "restore" => \E p \in Packages : on = {p}
<1>1. CASE \/ RequestBackup \/ RequestPurge
           \/ \E p \in Packages : RequestDelete(p) \/ RequestRestore(p)
  <2>1. \E kind \in Kinds, on \in SUBSET Packages :
           /\ Insert(kind, on)
           /\ kind = "backup" => on = {}
           /\ kind = "restore" => \E p \in Packages : on = {p}
    BY <1>1 DEF RequestBackup, RequestPurge, RequestDelete, RequestRestore, Kinds, Candidates, Available
  <2> PICK kind \in Kinds, on \in SUBSET Packages :
           /\ Insert(kind, on)
           /\ kind = "backup" => on = {}
           /\ kind = "restore" => \E p \in Packages : on = {p}
    BY <2>1
  <2>2. UNCHANGED task
    BY DEF Insert, worker
  <2>3. \E o \in Ops : /\ request[o] = NoRequest
                       /\ request' = [request EXCEPT ![o] = [kind |-> kind, on |-> on]]
    BY DEF Insert
  <2>4. \A o \in Ops : request[o] # NoRequest => request'[o] = request[o]
    BY <2>3 DEF TInv, BackupsTypeOK
  <2> QED BY <2>2, <2>4
<1>2. CASE \/ Refresh \/ \E o \in Ops : Enqueue(o) \/ Cancel(o) \/ CancelEnds(o) \/ CancelFails(o)
           \/ Pop \/ Crash \/ DayPasses \/ UNCHANGED vars
  BY <1>2 DEF Refresh, Enqueue, Push, PushFails, PushTimesOut, MarkEnqueueFailed, Cancel, CancelEnds, CancelFails, Pop, Crash, DayPasses, vars
<1>3. CASE TaskStep
  BY <1>3 DEF TaskStep, Begin, BuildBackup, RegisterBackup, PurgeEnds, PurgeOne, SaveBeforeRestore,
     Truncate, Import, RegisterRestore, Finish, Fail, RetryOrBury
<1> QED BY <1>1, <1>2, <1>3 DEF Next

LEMMA RequestLineStep == ASSUME TInv, [Next]_vars PROVE RequestLine'
<1>1. CASE request' = request
  BY <1>1 DEF TInv, RequestLine
<1>2. ASSUME NEW kind \in Kinds, NEW on \in SUBSET Packages, Insert(kind, on),
             kind = "backup" => on = {},
             kind = "restore" => \E p \in Packages : on = {p}
      PROVE  RequestLine'
  <2> PICK o \in Ops : request' = [request EXCEPT ![o] = [kind |-> kind, on |-> on]]
    BY <1>2 DEF Insert
  <2>1. request'[o].kind = kind /\ request'[o].on = on
    BY DEF TInv, BackupsTypeOK
  <2>2. \A x \in Ops \ {o} : request'[x] = request[x]
    BY DEF TInv, BackupsTypeOK
  <2> QED BY <1>2, <2>1, <2>2 DEF TInv, RequestLine
<1> QED BY <1>1, <1>2, RequestsGrow

LEMMA KeepRequested ==
    ASSUME TInv, [Next]_vars, NEW jobs \in Seq(Job), AllRequested(jobs)
    PROVE  \A k \in 1..Len(jobs) : request'[jobs[k].op] # NoRequest
<1> TAKE k \in 1..Len(jobs)
<1>1. jobs[k] \in Job
  BY ElementOfSeq
<1> QED BY <1>1, RequestsGrow DEF AllRequested, Job

LEMMA AppendRequested ==
    ASSUME NEW jobs \in Seq(Job), NEW j \in Job, AllRequested(jobs), request[j.op] # NoRequest
    PROVE  AllRequested(Append(jobs, j))
<1>1. /\ Len(Append(jobs, j)) = Len(jobs) + 1 /\ Len(jobs) \in Nat
      /\ \A i \in 1..Len(jobs) : Append(jobs, j)[i] = jobs[i]
      /\ Append(jobs, j)[Len(jobs) + 1] = j
  BY AppendProperties, LenProperties
<1> SUFFICES ASSUME NEW k \in 1..Len(Append(jobs, j)) PROVE request[Append(jobs, j)[k].op] # NoRequest
  BY DEF AllRequested
<1>2. k \in 1..Len(jobs) \/ k = Len(jobs) + 1
  BY <1>1
<1> QED BY <1>1, <1>2 DEF AllRequested

LEMMA TailRequested ==
    ASSUME NEW jobs \in Seq(Job), jobs # <<>>, AllRequested(jobs)
    PROVE  AllRequested(Tail(jobs)) /\ request[Head(jobs).op] # NoRequest
<1>1. /\ Len(Tail(jobs)) = Len(jobs) - 1 /\ Len(jobs) \in Nat /\ Len(jobs) # 0
      /\ \A i \in 1..Len(Tail(jobs)) : Tail(jobs)[i] = jobs[i + 1]
  BY HeadTailProperties, EmptySeq, LenProperties
<1>2. Head(jobs) = jobs[1]
  OBVIOUS
<1>3. \A i \in 1..Len(Tail(jobs)) : i + 1 \in 1..Len(jobs)
  BY <1>1
<1> QED BY <1>1, <1>2, <1>3 DEF AllRequested

LEMMA WithoutRequested ==
    ASSUME queue \in Seq(Job), AllRequested(queue), NEW o
    PROVE  AllRequested(Without(o))
<1>1. CASE ~ Found(o)
  BY <1>1, WithoutIs
<1>2. CASE Found(o)
  <2> PICK k \in 1..Len(queue) :
                 /\ Len(Without(o)) = Len(queue) - 1
                 /\ \A i \in 1..Len(Without(o)) : Without(o)[i] = queue[IF i < k THEN i ELSE i + 1]
    BY <1>2, WithoutIs
  <2>1. Len(queue) \in Nat
    BY LenProperties
  <2>2. \A i \in 1..Len(Without(o)) : (IF i < k THEN i ELSE i + 1) \in 1..Len(queue)
    BY <2>1
  <2> QED BY <2>2 DEF AllRequested
<1> QED BY <1>1, <1>2

LEMMA HandedOnStep == ASSUME TInv, [Next]_vars PROVE HandedOn'
<1>0. /\ queue \in Seq(Job) /\ pending \in Seq(Job) /\ AllRequested(queue) /\ AllRequested(pending)
      /\ BackupsTypeOK /\ RequestLine /\ TaskLine /\ Unrequested
  BY DEF TInv, BackupsTypeOK, HandedOn
<1> SUFFICES ASSUME AllRequested(queue') /\ queue' \in Seq(Job), AllRequested(pending') /\ pending' \in Seq(Job)
             PROVE  HandedOn'
  <2>1. BackupsTypeOK'
    BY <1>0, TypeStep
  <2>2. queue' \in Seq(Job) /\ pending' \in Seq(Job)
    BY <2>1 DEF BackupsTypeOK
  <2>3. AllRequested(queue')
    <3>1. ASSUME NEW o \in Ops, Enqueue(o) PROVE AllRequested(queue')
      <4>1. [op |-> o, attempt |-> 1] \in Job
        BY BackupsAssumption, JobType
      <4>2. o \in pushing => AllRequested(Append(queue, [op |-> o, attempt |-> 1]))
        BY <1>0, <4>1, AppendRequested DEF Unrequested
      <4> QED BY <1>0, <3>1, <4>2 DEF Enqueue, Push, PushFails, PushTimesOut, MarkEnqueueFailed
    <3>2. ASSUME NEW o \in Ops, CancelEnds(o) \/ CancelFails(o) PROVE AllRequested(queue')
      BY <1>0, <3>2, WithoutRequested DEF CancelEnds, CancelFails
    <3>3. CASE Pop
      BY <1>0, <3>3, TailRequested DEF Pop
    <3>4. CASE Finish
      BY <1>0, <3>4 DEF Finish, AllRequested
    <3>5. CASE RetryOrBury
      <4>1. task # NoTask /\ task.op \in Ops /\ task.attempt \in 1..MaxRetries /\ request[task.op] # NoRequest
        BY <1>0, <3>5, HeldIs DEF RetryOrBury, TaskLine, NoTask
      <4> DEFINE j == NextAttempt
                 twice == Append(Append(queue, j), j)
      <4>2. task.attempt < MaxRetries => task.attempt + 1 \in 1..MaxRetries
        BY <4>1, BackupsAssumption
      <4>3. (task.attempt < MaxRetries => j \in Job) /\ j.op = task.op
        BY <4>1, <4>2, JobType DEF NextAttempt
      <4>4. queue' = queue \/ (task.attempt < MaxRetries /\ queue' \in {Append(queue, j), twice})
        BY <3>5 DEF RetryOrBury
      <4> HIDE DEF j
      <4>5. j \in Job => AllRequested(Append(queue, j)) /\ Append(queue, j) \in Seq(Job)
        BY <1>0, <4>1, <4>3, AppendRequested, AppendProperties
      <4>6. j \in Job => AllRequested(twice)
        BY <4>1, <4>3, <4>5, AppendRequested
      <4> QED BY <1>0, <4>3, <4>4, <4>5, <4>6
    <3>6. CASE \/ Refresh \/ RequestBackup \/ RequestPurge \/ Crash \/ DayPasses \/ UNCHANGED vars
               \/ \E p \in Packages : RequestDelete(p) \/ RequestRestore(p)
               \/ \E o \in Ops : Cancel(o)
      BY <1>0, <3>6 DEF Refresh, RequestBackup, RequestPurge, RequestDelete, RequestRestore, Insert,
         Crash, DayPasses, Cancel, vars
    <3>7. CASE \/ Begin \/ BuildBackup \/ RegisterBackup \/ PurgeEnds \/ SaveBeforeRestore
               \/ \E p \in Packages : PurgeOne(p)
               \/ Truncate \/ Import \/ RegisterRestore \/ Fail
      BY <1>0, <3>7 DEF Begin, BuildBackup, RegisterBackup, PurgeEnds, PurgeOne, SaveBeforeRestore,
         Truncate, Import, RegisterRestore, Fail
    <3> QED BY <3>1, <3>2, <3>3, <3>4, <3>5, <3>6, <3>7 DEF Next, TaskStep
  <2>4. AllRequested(pending')
    <3>1. CASE Pop
      <4>1. queue # <<>> /\ Head(queue) \in Job
        BY <1>0, <3>1, HeadTailProperties DEF Pop
      <4>2. request[Head(queue).op] # NoRequest
        BY <1>0, <4>1, TailRequested
      <4>3. AllRequested(Append(pending, Head(queue)))
        BY <1>0, <4>1, <4>2, AppendRequested
      <4> QED BY <1>0, <3>1, <4>3 DEF Pop
    <3>2. CASE Begin
      BY <1>0, <3>2, TailRequested DEF Begin
    <3>3. CASE Crash
      BY <3>3 DEF Crash, AllRequested
    <3>4. CASE \/ Refresh \/ RequestBackup \/ RequestPurge \/ DayPasses \/ UNCHANGED vars
               \/ \E p \in Packages : RequestDelete(p) \/ RequestRestore(p)
               \/ \E o \in Ops : Enqueue(o) \/ Cancel(o) \/ CancelEnds(o) \/ CancelFails(o)
      BY <1>0, <3>4 DEF Refresh, RequestBackup, RequestPurge, RequestDelete, RequestRestore, Insert,
         DayPasses, Enqueue, Push, PushFails, PushTimesOut, MarkEnqueueFailed, Cancel, CancelEnds, CancelFails, vars, worker
    <3>5. CASE \/ BuildBackup \/ RegisterBackup \/ PurgeEnds \/ SaveBeforeRestore
               \/ \E p \in Packages : PurgeOne(p)
               \/ Truncate \/ Import \/ RegisterRestore \/ Fail \/ Finish \/ RetryOrBury
      BY <1>0, <3>5 DEF BuildBackup, RegisterBackup, PurgeEnds, PurgeOne, SaveBeforeRestore,
         Truncate, Import, RegisterRestore, Fail, Finish, RetryOrBury
    <3> QED BY <3>1, <3>2, <3>3, <3>4, <3>5 DEF Next, TaskStep
  <2> QED BY <2>2, <2>3, <2>4
<1> QED BY KeepRequested DEF HandedOn, AllRequested

\* An operation nobody has requested keeps its absent row.
LEMMA UnrequestedStep == ASSUME TInv, [Next]_vars PROVE Unrequested'
<1>0. /\ BackupsTypeOK /\ RequestLine /\ TaskLine /\ Unrequested /\ HandedOn
      /\ row \in [Ops -> Operation] /\ dump \in [Packages -> Tables]
  BY DEF TInv, BackupsTypeOK
<1> SUFFICES ASSUME NEW o \in Ops, request'[o] = NoRequest
             PROVE  /\ row'[o] = NoOperation
                    /\ \A p \in Packages : dump'[p].row[o] = NoOperation
                    /\ o \notin pushing' \cup cancels' \cup removed'
  BY DEF Unrequested
<1>1. request[o] = NoRequest
  BY RequestsGrow
<1>2. /\ row[o] = NoOperation /\ \A p \in Packages : dump[p].row[o] = NoOperation
      /\ o \notin pushing \cup cancels \cup removed
  BY <1>0, <1>1 DEF Unrequested
<1>3. task # NoTask => task.op # o /\ task.op \in Ops
  BY <1>0, <1>1, HeldIs DEF TaskLine
<1>4. \A p \in Packages : dump'[p].row[o] = NoOperation
  <2>1. CASE BuildBackup \/ SaveBeforeRestore
    <3>1. /\ built + 1 \in Packages
          /\ dump' = [dump EXCEPT ![built + 1] = [row |-> row, catalog |-> catalog]]
      BY <1>0, <2>1, BuildType DEF BuildBackup, SaveBeforeRestore
    <3> QED BY <1>0, <1>2, <3>1
  <2>2. CASE dump' = dump
    BY <1>2, <2>2
  <2>3. CASE \/ Refresh \/ RequestBackup \/ RequestPurge \/ DayPasses \/ UNCHANGED vars \/ Crash
             \/ \E p \in Packages : RequestDelete(p) \/ RequestRestore(p)
             \/ \E x \in Ops : Enqueue(x) \/ Cancel(x) \/ CancelEnds(x) \/ CancelFails(x)
             \/ Pop
    BY <2>2, <2>3 DEF Refresh, RequestBackup, RequestPurge, RequestDelete, RequestRestore, Insert,
       DayPasses, Enqueue, Push, PushFails, PushTimesOut, MarkEnqueueFailed, Cancel, CancelEnds, CancelFails, Pop, Crash, vars, disk
  <2>4. CASE \/ Begin \/ RegisterBackup \/ PurgeEnds \/ \E p \in Packages : PurgeOne(p)
             \/ Truncate \/ Import \/ RegisterRestore \/ Fail \/ Finish \/ RetryOrBury
    BY <2>2, <2>4 DEF Begin, RegisterBackup, PurgeEnds, PurgeOne,
       Truncate, Import, RegisterRestore, Fail, Finish, RetryOrBury, disk
  <2> QED BY <2>1, <2>3, <2>4 DEF Next, TaskStep
<1>5. ASSUME NEW kind \in Kinds, NEW on \in SUBSET Packages, Insert(kind, on)
      PROVE  row'[o] = NoOperation /\ o \notin pushing' \cup cancels' \cup removed'
  <2> PICK x \in Ops : /\ row' = [row EXCEPT ![x] = [status |-> "queued", made |-> 0]]
                       /\ request' = [request EXCEPT ![x] = [kind |-> kind, on |-> on]]
                       /\ pushing' = pushing \cup {x}
    BY <1>5 DEF Insert
  <2>1. x # o
    <3>1. request'[x] = [kind |-> kind, on |-> on]
      BY <1>0 DEF BackupsTypeOK
    <3> QED BY <3>1, NoRequestIs
  <2>2. UNCHANGED <<cancels, removed>>
    BY <1>5 DEF Insert
  <2> QED BY <1>0, <1>2, <2>1, <2>2
<1>6. CASE \/ RequestBackup \/ RequestPurge
           \/ \E p \in Packages : RequestDelete(p) \/ RequestRestore(p)
  <2>1. \E kind \in Kinds, on \in SUBSET Packages : Insert(kind, on)
    BY <1>6 DEF RequestBackup, RequestPurge, RequestDelete, RequestRestore, Kinds, Candidates, Available
  <2> QED BY <1>4, <1>5, <2>1
<1>a. ASSUME NEW x \in Ops, PushTimesOut(x)
      PROVE  row'[o] = NoOperation /\ o \notin pushing' \cup cancels' \cup removed'
  <2>1. row' = Update(row, x, "failed") /\ UNCHANGED <<pushing, cancels, removed>>
    BY <1>a DEF PushTimesOut, MarkEnqueueFailed
  <2>2. row'[o] = row[o]
    BY <1>0, <1>2, <2>1 DEF Update, Present, NoOperation
  <2> QED BY <1>2, <2>1, <2>2
<1>7. ASSUME NEW x \in Ops, Push(x) \/ PushFails(x) \/ Cancel(x) \/ CancelEnds(x) \/ CancelFails(x)
      PROVE  row'[o] = NoOperation /\ o \notin pushing' \cup cancels' \cup removed'
  <2>1. x # o
    BY <1>2, <1>7, NoRequestIs DEF Push, PushFails, Cancel, CancelEnds, CancelFails, NoOperation
  <2>2. row' = row \/ \E st \in Statuses : row' = Update(row, x, st)
    BY <1>7 DEF Push, PushFails, MarkEnqueueFailed, Cancel, CancelEnds, CancelFails, Statuses, tables
  <2>3. row'[o] = row[o]
    BY <1>0, <2>1, <2>2, UpdateIs
  <2>4. o \notin pushing' \cup cancels' \cup removed'
    BY <1>2, <1>7, <2>1 DEF Push, PushFails, Cancel, CancelEnds, CancelFails
  <2> QED BY <1>2, <2>3, <2>4
<1>8. CASE TaskStep
  <2>1. UNCHANGED backend
    BY <1>8 DEF TaskStep, Begin, BuildBackup, RegisterBackup, PurgeEnds, PurgeOne, SaveBeforeRestore,
       Truncate, Import, RegisterRestore, Finish, Fail, RetryOrBury
  <2>2. o \notin pushing' \cup cancels' \cup removed'
    BY <1>2, <2>1 DEF backend
  <2>3. CASE Begin
    <3> PICK j \in Job : /\ pending # <<>> /\ j = Head(pending)
                         /\ row' \in {row, Update(row, j.op, "running")}
      BY <1>0, <2>3, BeginIs
    <3>1. j.op \in Ops /\ j.op # o /\ "running" \in Statuses
      BY <1>0, <1>1, TailRequested DEF HandedOn, BackupsTypeOK, Job, Statuses
    <3>2. row'[o] = row[o]
      BY <1>0, <3>1, UpdateIs
    <3> QED BY <1>2, <1>4, <2>2, <3>2
  <2>4. CASE RegisterBackup \/ RegisterRestore \/ PurgeEnds
    <3>1. task # NoTask
      BY <1>0, <2>4, HeldIs, PhaseNames DEF RegisterBackup, RegisterRestore, PurgeEnds
    <3>2. row'[o] = row[o]
      BY <1>0, <1>3, <2>4, <3>1, UpdateIs
         DEF RegisterBackup, RegisterRestore, PurgeEnds, Complete, Statuses
    <3> QED BY <1>2, <1>4, <2>2, <3>2
  <2>5. CASE Truncate
    BY <1>4, <2>2, <2>5 DEF Truncate, Empty
  <2>6. ImportedRows[o] \in {row[o], dump[Source].row[o]}
    BY DEF ImportedRows
  <2>7. task # NoTask /\ task.at = "truncated" => ImportedRows[o] = NoOperation
    BY <1>0, <1>2, <2>6, SourceIs DEF TaskLine
  <2>8. CASE Import
    <3>1. task # NoTask
      BY <1>0, <2>8, HeldIs, PhaseNames DEF Import
    <3> QED BY <1>4, <2>2, <2>7, <2>8, <3>1 DEF Import
  <2>9. CASE Fail
    <3> PICK left \in Leftovers : /\ task.at \in Phases
                                  /\ row' = Failed(left[1]) \/ row' = left[1]
      BY <1>0, <2>9, FailIs
    <3>1. task # NoTask
      BY <1>0, HeldIs
    <3>2. left[1] \in [Ops -> Operation] /\ left[1][o] = NoOperation
      BY <1>0, <1>2, <2>7, <3>1, LeftoversAre
    <3>3. row'[o] = left[1][o]
      BY <1>0, <1>3, <3>1, <3>2, FailedIs
    <3> QED BY <1>4, <2>2, <3>2, <3>3
  <2>10. CASE \/ BuildBackup \/ SaveBeforeRestore \/ \E p \in Packages : PurgeOne(p)
              \/ Finish \/ RetryOrBury
    BY <1>2, <1>4, <2>2, <2>10 DEF BuildBackup, SaveBeforeRestore, PurgeOne, Finish, RetryOrBury, tables
  <2> QED BY <1>4, <1>8, <2>3, <2>4, <2>5, <2>8, <2>9, <2>10 DEF TaskStep
<1>9. CASE Refresh \/ Pop \/ Crash \/ DayPasses \/ UNCHANGED vars
  BY <1>2, <1>4, <1>9 DEF Refresh, Pop, Crash, DayPasses, vars, tables, backend
<1> QED BY <1>4, <1>6, <1>7, <1>a, <1>8, <1>9 DEF Next, Enqueue

LEMMA TaskLineStep == ASSUME TInv, [Next]_vars PROVE TaskLine'
<1>0. BackupsTypeOK /\ RequestLine /\ TaskLine /\ Unrequested /\ HandedOn
  BY DEF TInv
<1>1. task # NoTask => task.op \in Ops /\ request'[task.op] = request[task.op]
  BY <1>0, RequestsGrow, HeldIs DEF TaskLine
<1>2. task.at \in Phases => task # NoTask
  BY <1>0, HeldIs
<1>3. CASE task' = task /\ (lost => lost')
  BY <1>0, <1>1, <1>3 DEF TaskLine, Kind
<1>4. CASE \/ Refresh \/ RequestBackup \/ RequestPurge \/ DayPasses \/ UNCHANGED vars
           \/ \E p \in Packages : RequestDelete(p) \/ RequestRestore(p)
           \/ \E o \in Ops : Enqueue(o) \/ Cancel(o) \/ CancelEnds(o) \/ CancelFails(o)
           \/ Pop
  <2>1. task' = task
    BY <1>4 DEF Refresh, RequestBackup, RequestPurge, RequestDelete, RequestRestore, Insert,
       DayPasses, Enqueue, Push, PushFails, PushTimesOut, MarkEnqueueFailed, Cancel, CancelEnds, CancelFails, Pop, vars, worker
  <2>2. lost => lost'
    BY <1>4 DEF Refresh, RequestBackup, RequestPurge, RequestDelete, RequestRestore, Insert,
       DayPasses, Enqueue, Push, PushFails, PushTimesOut, MarkEnqueueFailed, Cancel, CancelEnds, CancelFails, Pop, vars
  <2> QED BY <1>3, <2>1, <2>2
<1>5. CASE Crash \/ Finish \/ RetryOrBury
  BY <1>5 DEF Crash, Finish, RetryOrBury, TaskLine
<1>6. CASE Begin
  <2> PICK j \in Job : /\ pending # <<>> /\ j = Head(pending)
                       /\ task' \in Held /\ task'.op = j.op
                       /\ task'.at \in {"working", "purging", "failed"}
                       /\ task'.at = "purging" => request[j.op].kind = "purge"
                       /\ task'.at = "working" => request[j.op].kind # "purge"
                       /\ request' = request
    BY <1>0, <1>6, BeginIs
  <2>1. request[j.op] # NoRequest
    BY <1>0, TailRequested DEF HandedOn, BackupsTypeOK
  <2> QED BY <2>1 DEF TaskLine, Kind
<1>7. CASE BuildBackup \/ SaveBeforeRestore
  <2>1. built + 1 \in Packages /\ built + 1 \in 0..MaxPackages /\ task.at = "working"
    BY <1>0, <1>7, BuildType DEF BuildBackup, SaveBeforeRestore
  <2>2. task' = [task EXCEPT !.at = "saved", !.made = built + 1]
    BY <1>7 DEF BuildBackup, SaveBeforeRestore
  <2>3. task'.at = "saved" /\ task'.op = task.op /\ task'.made = built + 1
    BY <1>0, <2>1, <2>2, MadePhase, PhaseNames
  <2>4. lost' = lost
    BY <1>7 DEF BuildBackup, SaveBeforeRestore
  <2> QED BY <1>0, <1>1, <1>2, <2>1, <2>3, PhaseNames DEF TaskLine, Kind
<1>8. ASSUME NEW at \in {"truncated", "imported", "registered", "failed"},
             task.at \in Phases, task' = [task EXCEPT !.at = at], lost => lost',
             at = "truncated" => task.at = "saved" /\ Kind = "restore" /\ lost',
             at = "imported" => task.at = "truncated",
             at = "registered" => (task.at \in {"saved", "purging"} /\ Kind # "restore")
                                  \/ task.at = "imported"
      PROVE  TaskLine'
  <2>1. task'.at = at /\ task'.op = task.op /\ task'.made = task.made
    BY <1>0, <1>8, NewPhase, PhaseNames
  <2> QED BY <1>0, <1>1, <1>2, <1>8, <2>1 DEF TaskLine, Kind
<1>9. CASE RegisterBackup \/ PurgeEnds \/ RegisterRestore \/ Truncate \/ Import
  <2>1. \E at \in {"truncated", "imported", "registered"} :
            /\ task.at \in {"saved", "purging", "imported", "truncated"}
            /\ task' = [task EXCEPT !.at = at] /\ (lost => lost')
            /\ at = "truncated" => task.at = "saved" /\ Kind = "restore" /\ lost'
            /\ at = "imported" => task.at = "truncated"
            /\ at = "registered" => (task.at \in {"saved", "purging"} /\ Kind # "restore")
                                    \/ task.at = "imported"
    BY <1>0, <1>2, <1>9, PhaseNames DEF TaskLine, RegisterBackup, PurgeEnds, RegisterRestore, Truncate, Import
  <2> QED BY <1>8, <2>1, PhaseNames
<1>10. CASE Fail
  <2>1. task.at \in Phases /\ task' = [task EXCEPT !.at = "failed"] /\ (lost => lost')
    <3> PICK left \in Leftovers : /\ task.at \in Phases /\ task' = [task EXCEPT !.at = "failed"]
                                  /\ UNCHANGED lost \/ FailSilently(task)
      BY <1>0, <1>10, FailIs
    <3>1. lost => lost'
      BY Zenon DEF FailSilently
    <3> QED BY <3>1
  <2> QED BY <1>8, <2>1
<1>11. ASSUME NEW p \in Packages, PurgeOne(p) PROVE TaskLine'
  <2>1. task.left \ {p} \in SUBSET Packages /\ task.at \in Phases /\ lost' = lost
    BY <1>0, <1>11, HeldIs, PhaseNames DEF PurgeOne, Held
  <2>2. \/ task' = [task EXCEPT !.left = task.left \ {p}]
        \/ task' = [task EXCEPT !.left = task.left \ {p}, !.bad = TRUE]
    BY <1>11 DEF PurgeOne
  <2>3. task'.at = task.at /\ task'.op = task.op /\ task'.made = task.made
    BY <1>0, <2>1, <2>2, LessLeft
  <2> QED BY <1>0, <1>1, <1>2, <2>1, <2>3 DEF TaskLine, Kind
<1> QED BY <1>4, <1>5, <1>6, <1>7, <1>9, <1>10, <1>11 DEF Next, TaskStep

LEMMA BackupsStep == ASSUME TInv, [Next]_vars PROVE TInv'
<1>1. BackupsTypeOK'
  BY TypeStep DEF TInv
<1> QED BY <1>1, RequestLineStep, UnrequestedStep, HandedOnStep, TaskLineStep DEF TInv

LEMMA BackupsInit == Init => TInv
<1> SUFFICES ASSUME Init PROVE TInv
  OBVIOUS
<1>1. RequestLine
  BY DEF Init, RequestLine, NoRequest
<1>2. HandedOn /\ TaskLine
  BY DEF Init, HandedOn, AllRequested, TaskLine
<1>3. \A p \in Packages : dump[p].row = [o \in Ops |-> NoOperation]
  BY DEF Init, Empty
<1>4. Unrequested
  BY <1>3 DEF Init, Unrequested, Empty
<1> QED BY <1>1, <1>2, <1>4, TypeInit DEF TInv

THEOREM BackupsInvariant == Spec => []TInv
BY BackupsInit, BackupsStep, PTL DEF Spec

\* The tables, the lists and the tasks of the backups keep their types; attempts never pass
\* BACKUP_MAX_RETRIES.
THEOREM BackupsTypes == Spec => []BackupsTypeOK
<1>1. TInv => BackupsTypeOK
  BY DEF TInv
<1> QED BY <1>1, BackupsInvariant, PTL

\* Steps that leave the catalogue and the disk alone, or only reconcile them.
Quiet ==
    \/ Refresh \/ RequestBackup \/ RequestPurge \/ \E p \in Packages : RequestDelete(p) \/ RequestRestore(p)
    \/ \E o \in Ops : Enqueue(o) \/ Cancel(o) \/ CancelEnds(o) \/ CancelFails(o)
    \/ Pop \/ Begin \/ PurgeEnds \/ Finish \/ RetryOrBury \/ Crash \/ DayPasses \/ UNCHANGED vars

LEMMA QuietIs ==
    ASSUME TInv, Quiet
    PROVE  /\ UNCHANGED disk /\ catalog' \in {catalog, Reconciled}
           /\ cutoff' = cutoff \/ DayPasses
           /\ deleted => deleted'
<1>1. CASE \/ Refresh \/ RequestBackup \/ RequestPurge
           \/ \E p \in Packages : RequestDelete(p) \/ RequestRestore(p)
  BY <1>1 DEF Refresh, RequestBackup, RequestPurge, RequestDelete, RequestRestore, Insert, backend
<1>2. CASE \E o \in Ops : Enqueue(o) \/ Cancel(o) \/ CancelEnds(o) \/ CancelFails(o)
  BY <1>2 DEF Enqueue, Push, PushFails, PushTimesOut, MarkEnqueueFailed, Cancel, CancelEnds, CancelFails, tables
<1>3. CASE Begin
  <2>1. UNCHANGED <<catalog, disk, cutoff, deleted>>
    BY <1>3, BeginIs DEF TInv, backend
  <2> QED BY <2>1
<1>4. CASE \/ Pop \/ PurgeEnds \/ Finish \/ RetryOrBury \/ Crash \/ DayPasses \/ UNCHANGED vars
  BY <1>4 DEF Pop, PurgeEnds, Finish, RetryOrBury, Crash, DayPasses, vars, tables, backend
<1> QED BY <1>1, <1>2, <1>3, <1>4 DEF Quiet

-----------------------------------------------------------------------------
(* What is completed is listed                                             *)

\* No row becomes completed, and what is listed stays listed.
LEMMA KeepListed ==
    ASSUME TInv, [Next]_vars, NEW rows, NEW listed, NEW rows2, NEW listed2,
           HasPackages(rows, listed),
           \A o \in Ops : request[o] = NoRequest => rows2[o].status # "completed",
           \A o \in Ops : rows2[o].status = "completed" /\ request[o].kind # "purge" =>
                             rows[o].status = "completed" /\ rows[o].made = rows2[o].made,
           \A p \in Packages : listed[p].status # "absent" => listed2[p].status # "absent"
    PROVE  \A o \in Ops : rows2[o].status = "completed" /\ request'[o].kind # "purge" =>
              \A p \in request'[o].on \cup {rows2[o].made} :
                  p \in Packages /\ listed2[p].status # "absent"
<1> TAKE o \in Ops
<1> SUFFICES ASSUME rows2[o].status = "completed", request'[o].kind # "purge"
             PROVE  \A p \in request'[o].on \cup {rows2[o].made} :
                        p \in Packages /\ listed2[p].status # "absent"
  OBVIOUS
<1>1. request'[o] = request[o]
  BY RequestsGrow
<1>2. \A p \in request[o].on \cup {rows[o].made} : p \in Packages /\ listed[p].status # "absent"
  BY <1>1 DEF HasPackages
<1> QED BY <1>1, <1>2

LEMMA DumpsStep == ASSUME TInv, Paired, [Next]_vars PROVE DumpsHavePackages'
<1>0. BackupsTypeOK /\ Unrequested /\ HasPackages(row, catalog) /\ dump \in [Packages -> Tables]
  BY DEF TInv, Paired, BackupsTypeOK
<1> SUFFICES ASSUME NEW p \in Packages PROVE HasPackages(dump[p].row, dump[p].catalog)'
  BY DEF DumpsHavePackages
<1>1. \A o \in Ops : request[o] = NoRequest =>
          row[o].status # "completed" /\ dump[p].row[o].status # "completed"
  BY <1>0, NoRequestIs DEF Unrequested
<1>2. CASE dump'[p] = dump[p]
  <2>1. HasPackages(dump[p].row, dump[p].catalog)
    BY DEF Paired, DumpsHavePackages
  <2> DEFINE d == dump[p]
  <2>2. dump'[p] = d
    BY <1>2
  <2> HIDE DEF d
  <2>3. \A o \in Ops : d.row[o].status = "completed" /\ request'[o].kind # "purge" =>
              \A q \in request'[o].on \cup {d.row[o].made} :
                  q \in Packages /\ d.catalog[q].status # "absent"
    BY <1>1, <2>1, KeepListed DEF d
  <2> QED BY <2>2, <2>3 DEF HasPackages
<1>3. CASE BuildBackup \/ SaveBeforeRestore
  <2>1. /\ built + 1 \in Packages /\ request' = request
        /\ dump' = [dump EXCEPT ![built + 1] = [row |-> row, catalog |-> catalog]]
    BY <1>0, <1>3, BuildType DEF BuildBackup, SaveBeforeRestore
  <2>2. CASE p = built + 1
    <3>1. dump'[p].row = row /\ dump'[p].catalog = catalog
      BY <1>0, <2>1, <2>2
    <3> QED BY <1>0, <2>1, <3>1 DEF HasPackages
  <2>3. CASE p # built + 1
    BY <1>0, <1>2, <2>1, <2>3
  <2> QED BY <2>2, <2>3
<1>4. CASE \/ Refresh \/ RequestBackup \/ RequestPurge \/ DayPasses \/ UNCHANGED vars \/ Crash
           \/ \E x \in Packages : RequestDelete(x) \/ RequestRestore(x)
           \/ \E x \in Ops : Enqueue(x) \/ Cancel(x) \/ CancelEnds(x) \/ CancelFails(x)
           \/ Pop
  BY <1>2, <1>4 DEF Refresh, RequestBackup, RequestPurge, RequestDelete, RequestRestore, Insert,
     DayPasses, Enqueue, Push, PushFails, PushTimesOut, MarkEnqueueFailed, Cancel, CancelEnds, CancelFails, Pop, Crash, vars, disk
<1>5. CASE \/ Begin \/ RegisterBackup \/ PurgeEnds \/ \E x \in Packages : PurgeOne(x)
           \/ Truncate \/ Import \/ RegisterRestore \/ Fail \/ Finish \/ RetryOrBury
  BY <1>2, <1>5 DEF Begin, RegisterBackup, PurgeEnds, PurgeOne,
     Truncate, Import, RegisterRestore, Fail, Finish, RetryOrBury, disk
<1> QED BY <1>3, <1>4, <1>5 DEF Next, TaskStep

\* The rows and the catalogue of a package agree once they are imported into emptied tables.
LEMMA ImportedHave ==
    ASSUME TInv, Paired, task # NoTask, task.at = "truncated"
    PROVE  HasPackages(ImportedRows, ImportedCatalog) /\ HasPackages(row, ImportedCatalog)
<1>1. Source \in Packages
  BY SourceIs DEF TInv, TaskLine
<1>2. HasPackages(dump[Source].row, dump[Source].catalog)
  BY <1>1 DEF Paired, DumpsHavePackages
<1>3. \A o \in Ops : row[o].status # "completed"
  BY DEF Paired, EmptiedLine
<1>4. \A o \in Ops : ImportedRows[o].status = "completed" => ImportedRows[o] = dump[Source].row[o]
  BY <1>3 DEF ImportedRows
<1>5. \A p \in Packages : dump[Source].catalog[p].status # "absent" => ImportedCatalog[p].status # "absent"
  BY DEF ImportedCatalog
<1> QED BY <1>2, <1>3, <1>4, <1>5 DEF HasPackages

LEMMA RowsHaveStep == ASSUME TInv, Paired, [Next]_vars, ~ torn' PROVE HasPackages(row, catalog)'
<1>0. /\ BackupsTypeOK /\ RequestLine /\ TaskLine /\ Unrequested /\ HasPackages(row, catalog)
      /\ row \in [Ops -> Operation] /\ catalog \in [Packages -> Artifact]
  BY DEF TInv, Paired, BackupsTypeOK
<1>1. \A o \in Ops : request[o] = NoRequest => row[o].status # "completed"
  BY <1>0, NoRequestIs DEF Unrequested
<1>2. ASSUME \A o \in Ops : row'[o].status = "completed" /\ request[o].kind # "purge" => row'[o] = row[o],
             \A o \in Ops : request[o] = NoRequest => row'[o].status # "completed",
             \A p \in Packages : catalog[p].status # "absent" => catalog'[p].status # "absent"
      PROVE  HasPackages(row, catalog)'
  <2>1. \A o \in Ops : row'[o].status = "completed" /\ request'[o].kind # "purge" =>
              \A p \in request'[o].on \cup {row'[o].made} :
                  p \in Packages /\ catalog'[p].status # "absent"
    BY <1>0, <1>2, KeepListed
  <2> QED BY <2>1 DEF HasPackages
<1>3. CASE Refresh
  BY <1>0, <1>1, <1>2, <1>3, ReconciledIs DEF Refresh
<1>4. ASSUME NEW kind \in Kinds, NEW on \in SUBSET Packages, Insert(kind, on),
             catalog' \in {catalog, Reconciled}
      PROVE  HasPackages(row, catalog)'
  <2>1. \E o \in Ops : row' = [row EXCEPT ![o] = [status |-> "queued", made |-> 0]]
    BY <1>4 DEF Insert
  <2>2. \A o \in Ops : row'[o] = row[o] \/ row'[o].status = "queued"
    BY <1>0, <2>1
  <2> QED BY <1>0, <1>1, <1>2, <1>4, <2>2, ReconciledIs
<1>5. CASE \/ RequestBackup \/ RequestPurge
           \/ \E p \in Packages : RequestDelete(p) \/ RequestRestore(p)
  <2>1. \E kind \in Kinds, on \in SUBSET Packages :
            Insert(kind, on) /\ catalog' \in {catalog, Reconciled}
    BY <1>5 DEF RequestBackup, RequestPurge, RequestDelete, RequestRestore, Kinds, Candidates, Available
  <2> QED BY <1>4, <2>1
<1>6. ASSUME NEW o \in Ops, NEW st \in Statuses \ {"completed"},
             row' \in {row, Update(row, o, st)}, catalog' = catalog
      PROVE  HasPackages(row, catalog)'
  <2>0. /\ \A x \in Ops \ {o} : Update(row, o, st)[x] = row[x]
        /\ Update(row, o, st)[o].status \in {"absent", st} /\ st # "completed"
    BY <1>0, UpdateIs
  <2>1. \A x \in Ops : row'[x] = row[x] \/ row'[x].status # "completed"
    BY <1>6, <2>0
  <2> QED BY <1>0, <1>1, <1>2, <1>6, <2>1
<1>7. ASSUME NEW o \in Ops, Enqueue(o) \/ Cancel(o) \/ CancelEnds(o) \/ CancelFails(o)
      PROVE  HasPackages(row, catalog)'
  <2>1. \E st \in Statuses \ {"completed"} : row' \in {row, Update(row, o, st)} /\ catalog' = catalog
    BY <1>7 DEF Enqueue, Push, PushFails, PushTimesOut, MarkEnqueueFailed, Cancel, CancelEnds, CancelFails, Statuses, tables
  <2> QED BY <1>6, <2>1
<1>8. CASE Begin
  <2> PICK j \in Job : row' \in {row, Update(row, j.op, "running")} /\ UNCHANGED catalog
    BY <1>0, <1>8, BeginIs
  <2>1. j.op \in Ops /\ "running" \in Statuses \ {"completed"}
    BY DEF Job, Statuses
  <2> QED BY <1>6, <2>1
<1>9. CASE RegisterBackup
  <2>1. task # NoTask /\ task.op \in Ops /\ task.made \in Packages /\ request[task.op].on = {}
        /\ request[task.op] # NoRequest /\ request' = request
    BY <1>0, <1>9, HeldIs, PhaseNames DEF RegisterBackup, TaskLine, RequestLine, Kind
  <2>2. /\ \A o \in Ops \ {task.op} : row'[o] = row[o]
        /\ row'[task.op] \in {row[task.op], Completed}
        /\ row'[task.op].status = "completed" => row[task.op].status = "completed" \/ row'[task.op] = Completed
    BY <1>0, <1>9, <2>1 DEF RegisterBackup, Complete
  <2>3. /\ catalog'[task.made].status = "available"
        /\ \A p \in Packages : catalog[p].status # "absent" => catalog'[p].status # "absent"
    BY <1>0, <1>9, <2>1 DEF RegisterBackup
  <2>4. Completed.made = task.made
    BY DEF Completed
  <2> QED BY <1>0, <2>1, <2>2, <2>3, <2>4 DEF HasPackages
<1>10. CASE PurgeEnds
  <2>1. task # NoTask /\ task.op \in Ops /\ request[task.op].kind = "purge"
        /\ request[task.op] # NoRequest /\ request' = request
    BY <1>0, <1>10, HeldIs, PhaseNames DEF PurgeEnds, TaskLine, Kind
  <2>2. \A o \in Ops \ {task.op} : row'[o] = row[o]
    BY <1>0, <1>10, <2>1, UpdateIs DEF PurgeEnds, Statuses
  <2>3. catalog' = catalog
    BY <1>10 DEF PurgeEnds
  <2> QED BY <1>0, <2>1, <2>2, <2>3 DEF HasPackages
<1>11. ASSUME NEW p \in Packages, PurgeOne(p) PROVE HasPackages(row, catalog)'
  <2>1. row' = row /\ catalog' \in {catalog, [catalog EXCEPT ![p].status = "purged"]}
    BY <1>11 DEF PurgeOne
  <2>2. \A q \in Packages : catalog[q].status # "absent" => catalog'[q].status # "absent"
    BY <1>0, <2>1 DEF Artifact
  <2> QED BY <1>0, <1>1, <1>2, <2>1, <2>2
<1>12. CASE SaveBeforeRestore
  <2>1. row' = row
        /\ catalog' = [catalog EXCEPT ![built + 1] = [status |-> "available", created |-> built + 1]]
    BY <1>12 DEF SaveBeforeRestore
  <2>2. \A q \in Packages : catalog[q].status # "absent" => catalog'[q].status # "absent"
    BY <1>0, <2>1
  <2> QED BY <1>0, <1>1, <1>2, <2>1, <2>2
<1>13. CASE Truncate
  BY <1>13, NoRequestIs DEF Truncate, Empty, HasPackages
<1>14. CASE Import
  <2>1. task # NoTask /\ task.at = "truncated"
    BY <1>0, <1>14, HeldIs, PhaseNames DEF Import
  <2>2. row' = ImportedRows /\ catalog' = ImportedCatalog /\ request' = request
    BY <1>14 DEF Import
  <2> QED BY <2>1, <2>2, ImportedHave DEF HasPackages
<1>15. CASE RegisterRestore
  <2>1. task # NoTask /\ task.op \in Ops /\ task.made \in Packages /\ Kind = "restore" /\ request' = request
    BY <1>0, <1>15, HeldIs, PhaseNames DEF RegisterRestore, TaskLine
  <2>2. Source \in Packages /\ request[task.op].on = {Source}
    BY <1>0, <2>1, SourceIs
  <2>3. Upsert(catalog, Source) \in [Packages -> Artifact]
    BY <1>0, <2>2, UpsertIs
  <2>4. /\ catalog'[Source].status = "available" /\ catalog'[task.made].status = "available"
        /\ \A q \in Packages \ {Source, task.made} : catalog'[q] = catalog[q]
    <3> DEFINE c == Upsert(catalog, Source)
    <3>1. /\ c \in [Packages -> Artifact] /\ c[Source].status = "available"
          /\ \A q \in Packages \ {Source} : c[q] = catalog[q]
      BY <1>0, <2>2, UpsertIs
    <3>2. catalog' = Upsert(c, task.made)
      BY <1>15 DEF RegisterRestore
    <3> HIDE DEF c
    <3>3. /\ catalog'[task.made].status = "available"
          /\ \A q \in Packages \ {task.made} : catalog'[q] = c[q]
      BY <1>0, <2>1, <3>1, <3>2, UpsertIs
    <3> QED BY <2>2, <3>1, <3>3
  <2>5. row'[task.op].made = task.made /\ \A o \in Ops \ {task.op} : row'[o] = row[o]
    BY <1>0, <1>15, <2>1 DEF RegisterRestore, Completed
  <2>6. \A q \in Packages : catalog[q].status # "absent" => catalog'[q].status # "absent"
    BY <2>1, <2>2, <2>4
  <2>7. ASSUME NEW o \in Ops \ {task.op}, row'[o].status = "completed", request[o].kind # "purge",
               NEW p \in request[o].on \cup {row'[o].made}
        PROVE  p \in Packages /\ catalog'[p].status # "absent"
    BY <1>0, <2>5, <2>6, <2>7 DEF HasPackages
  <2>8. \A p \in request[task.op].on \cup {row'[task.op].made} :
             p \in Packages /\ catalog'[p].status # "absent"
    BY <2>1, <2>2, <2>4, <2>5
  <2> QED BY <2>1, <2>7, <2>8 DEF HasPackages
<1>16. CASE Fail
  <2> PICK left \in Leftovers : /\ task.at \in Phases /\ catalog' = left[2]
                                /\ row' = Failed(left[1]) \/ row' = left[1]
                                /\ request' = request
                                /\ task.at = "saved" => left[2] = catalog
    BY <1>0, <1>16, FailIs
  <2>1. task # NoTask
    BY <1>0, HeldIs
  <2>2. HasPackages(left[1], left[2]) /\ left[1] \in [Ops -> Operation]
    BY <1>0, <2>1, LeftoversAre, ImportedHave
  <2>3. \A o \in Ops : row'[o] = left[1][o] \/ row'[o].status # "completed"
    BY <1>0, <2>1, <2>2, FailedIs
  <2> QED BY <2>2, <2>3 DEF HasPackages
<1>17. CASE Pop \/ Crash \/ DayPasses \/ UNCHANGED vars \/ BuildBackup \/ Finish \/ RetryOrBury
  <2>1. row' = row /\ catalog' = catalog
    BY <1>17 DEF Pop, Crash, DayPasses, vars, BuildBackup, Finish, RetryOrBury, tables
  <2> QED BY <1>0, <1>1, <1>2, <2>1
<1> QED BY <1>3, <1>5, <1>7, <1>8, <1>9, <1>10, <1>11, <1>12, <1>13, <1>14, <1>15, <1>16, <1>17
        DEF Next, TaskStep

LEMMA EmptiedStep == ASSUME TInv, Paired, [Next]_vars PROVE EmptiedLine'
<1>0. BackupsTypeOK /\ RequestLine /\ TaskLine /\ EmptiedLine /\ row \in [Ops -> Operation]
  BY DEF TInv, Paired, BackupsTypeOK
<1>1. CASE Truncate
  BY <1>1, NoRequestIs DEF Truncate, Empty, EmptiedLine
<1>2. ASSUME task' = task,
             \A o \in Ops : row'[o].status = "completed" => row[o].status = "completed"
      PROVE  EmptiedLine'
  BY <1>0, <1>2 DEF EmptiedLine
<1>3. CASE Refresh \/ Pop \/ DayPasses \/ UNCHANGED vars
  BY <1>2, <1>3 DEF Refresh, Pop, DayPasses, vars, tables, worker
<1>4. CASE \/ RequestBackup \/ RequestPurge
           \/ \E p \in Packages : RequestDelete(p) \/ RequestRestore(p)
  <2>1. task' = task /\ \E o \in Ops : row' = [row EXCEPT ![o] = [status |-> "queued", made |-> 0]]
    BY <1>4 DEF RequestBackup, RequestPurge, RequestDelete, RequestRestore, Insert, worker
  <2>2. \A o \in Ops : row'[o] = row[o] \/ row'[o].status = "queued"
    BY <1>0, <2>1
  <2> QED BY <1>2, <2>1, <2>2
<1>5. ASSUME NEW o \in Ops, Enqueue(o) \/ Cancel(o) \/ CancelEnds(o) \/ CancelFails(o)
      PROVE  EmptiedLine'
  <2>1. task' = task /\ \E st \in Statuses \ {"completed"} : row' \in {row, Update(row, o, st)}
    BY <1>5 DEF Enqueue, Push, PushFails, PushTimesOut, MarkEnqueueFailed, Cancel, CancelEnds, CancelFails, Statuses, tables, worker
  <2>2. \A x \in Ops : row'[x] = row[x] \/ row'[x].status # "completed"
    BY <1>0, <2>1, UpdateIs
  <2> QED BY <1>2, <2>1, <2>2
<1>6. ASSUME NEW at \in Phases \ {"truncated"}, task.at \in Phases, task' = [task EXCEPT !.at = at]
      PROVE  EmptiedLine'
  <2>1. task'.at = at
    BY <1>0, <1>6, NewPhase
  <2> QED BY <1>6, <2>1 DEF EmptiedLine
<1>7. CASE RegisterBackup \/ PurgeEnds \/ RegisterRestore \/ Import
  <2>1. /\ task.at \in {"saved", "purging", "imported", "truncated"}
        /\ \E at \in {"imported", "registered"} : task' = [task EXCEPT !.at = at]
    BY <1>7 DEF RegisterBackup, PurgeEnds, RegisterRestore, Import
  <2> QED BY <1>6, <2>1, PhaseNames
<1>8. CASE Fail
  <2>1. task.at \in Phases /\ task' = [task EXCEPT !.at = "failed"]
    BY <1>0, <1>8, FailIs
  <2> QED BY <1>6, <2>1, PhaseNames
<1>9. CASE BuildBackup \/ SaveBeforeRestore
  <2>1. task.at = "working" /\ task' = [task EXCEPT !.at = "saved", !.made = built + 1]
        /\ built + 1 \in 0..MaxPackages
    BY <1>0, <1>9, BuildType DEF BuildBackup, SaveBeforeRestore
  <2>2. task'.at = "saved"
    BY <1>0, <2>1, MadePhase, PhaseNames
  <2> QED BY <2>2 DEF EmptiedLine
<1>10. ASSUME NEW p \in Packages, PurgeOne(p) PROVE EmptiedLine'
  <2>1. task.left \ {p} \in SUBSET Packages /\ task.at = "purging" /\ task.at \in Phases
    BY <1>0, <1>10, HeldIs, PhaseNames DEF PurgeOne, Held
  <2>2. \/ task' = [task EXCEPT !.left = task.left \ {p}]
        \/ task' = [task EXCEPT !.left = task.left \ {p}, !.bad = TRUE]
    BY <1>10 DEF PurgeOne
  <2>3. task'.at = "purging"
    BY <1>0, <2>1, <2>2, LessLeft
  <2> QED BY <2>3 DEF EmptiedLine
<1>11. CASE Begin
  <2>1. task'.at \in {"working", "purging", "failed"}
    BY <1>0, <1>11, BeginIs
  <2> QED BY <2>1 DEF EmptiedLine
<1>12. CASE Finish \/ RetryOrBury \/ Crash
  <2>1. task' = NoTask
    BY <1>12 DEF Finish, RetryOrBury, Crash
  <2> QED BY <2>1, NoTaskAt DEF EmptiedLine
<1> QED BY <1>1, <1>3, <1>4, <1>5, <1>7, <1>8, <1>9, <1>10, <1>11, <1>12 DEF Next, TaskStep

LEMMA CompletedInit == Init => CInv
<1> SUFFICES ASSUME Init PROVE CInv
  OBVIOUS
<1>1. \A o \in Ops : row[o].status # "completed" /\ \A p \in Packages : dump[p].row[o].status # "completed"
  BY NoRequestIs DEF Init, Empty
<1>2. task.at # "truncated"
  BY NoTaskAt DEF Init
<1> QED BY <1>1, <1>2 DEF CInv, Paired, HasPackages, DumpsHavePackages, EmptiedLine

\* Nothing makes up for it.
LEMMA TornStays == ASSUME TInv, [Next]_vars, torn PROVE torn'
<1>1. BackupsTypeOK /\ RequestLine /\ TaskLine
  BY DEF TInv
<1>2. CASE Fail
  BY <1>1, <1>2, FailIs
<1>3. CASE BuildBackup \/ SaveBeforeRestore
  BY <1>1, <1>3, BuildType DEF BuildBackup, SaveBeforeRestore
<1>4. CASE \E p \in Packages : PurgeOne(p)
  BY <1>4 DEF PurgeOne
<1>5. CASE Quiet
  BY <1>5, QuietIs DEF disk
<1>6. CASE RegisterBackup \/ Truncate \/ Import \/ RegisterRestore
  BY <1>6 DEF RegisterBackup, Truncate, Import, RegisterRestore, disk
<1> QED BY <1>2, <1>3, <1>4, <1>5, <1>6 DEF Next, TaskStep, Quiet

LEMMA CompletedStep == ASSUME TInv, CInv, [Next]_vars PROVE CInv'
<1>1. CASE torn
  BY <1>1, TornStays DEF CInv
<1>2. CASE ~ torn /\ ~ torn'
  <2>1. Paired
    BY <1>2 DEF CInv
  <2> QED BY <1>2, <2>1, RowsHaveStep, DumpsStep, EmptiedStep DEF CInv, Paired
<1> QED BY <1>1, <1>2 DEF CInv

THEOREM CompletedInvariant == Spec => [](TInv /\ CInv)
BY BackupsInit, BackupsStep, CompletedInit, CompletedStep, PTL DEF Spec

\* complete_operation, upsert_artifact and the import of a dump leave no operation completed
\* whose packages the catalogue does not know, whatever a restore brings back.
THEOREM CompletedIsListed == Spec => []CompletedHasPackage
<1>1. CInv => CompletedHasPackage
  BY DEF CInv, Paired, HasPackages, CompletedHasPackage
<1> QED BY <1>1, CompletedInvariant, PTL

-----------------------------------------------------------------------------
(* The places of a job                                                     *)

LEMMA UnderwayIs ==
    \A o : /\ Underway(o) <=> o \in pushing \/ In(queue, o) \/ In(pending, o) \/ Tasked(o)
           /\ Found(o) <=> In(queue, o)
  BY DEF Underway, Found, In, Tasked

LEMMA InAppend ==
    ASSUME NEW jobs \in Seq(Job), NEW j \in Job
    PROVE  /\ \A o : In(Append(jobs, j), o) <=> In(jobs, o) \/ j.op = o
           /\ \A o : Once(jobs, o) /\ (j.op = o => ~ In(jobs, o)) => Once(Append(jobs, j), o)
<1>1. /\ Len(Append(jobs, j)) = Len(jobs) + 1 /\ Len(jobs) \in Nat
      /\ \A i \in 1..Len(jobs) : Append(jobs, j)[i] = jobs[i]
      /\ Append(jobs, j)[Len(jobs) + 1] = j
  BY AppendProperties, LenProperties
<1> DEFINE a == Append(jobs, j)
<1> HIDE DEF a
<1>2. \A k \in 1..Len(jobs) + 1 : k \in 1..Len(jobs) \/ k = Len(jobs) + 1
  BY <1>1
<1>3. \A k \in 1..Len(jobs) : k \in 1..Len(jobs) + 1
  BY <1>1
<1>4. Len(jobs) + 1 \in 1..Len(jobs) + 1
  BY <1>1
<1>5. /\ Len(a) = Len(jobs) + 1 /\ a[Len(jobs) + 1] = j
      /\ \A i \in 1..Len(jobs) : a[i] = jobs[i]
  BY <1>1 DEF a
<1>6. \A o : In(a, o) <=> In(jobs, o) \/ j.op = o
  BY <1>2, <1>3, <1>4, <1>5 DEF In
<1>7. ASSUME NEW o, Once(jobs, o), j.op = o => ~ In(jobs, o) PROVE Once(a, o)
  BY <1>2, <1>5, <1>7 DEF In, Once
<1> QED BY <1>6, <1>7 DEF a

LEMMA InTail ==
    ASSUME NEW jobs \in Seq(Job), jobs # <<>>
    PROVE  /\ \A o : In(jobs, o) <=> Head(jobs).op = o \/ In(Tail(jobs), o)
           /\ \A o : Once(jobs, o) => Once(Tail(jobs), o) /\ ~ (Head(jobs).op = o /\ In(Tail(jobs), o))
<1> DEFINE t == Tail(jobs)
           n == Len(jobs)
<1>1. /\ Len(t) = n - 1 /\ n \in Nat /\ n # 0
      /\ \A i \in 1..n - 1 : t[i] = jobs[i + 1]
  BY HeadTailProperties, EmptySeq, LenProperties
<1>2. Head(jobs) = jobs[1]
  OBVIOUS
<1> HIDE DEF t, n
<1>3. \A i \in 1..n - 1 : i + 1 \in 1..n /\ i + 1 # 1
  BY <1>1
<1>4. \A k \in 1..n : k = 1 \/ (k - 1 \in 1..n - 1 /\ (k - 1) + 1 = k)
  BY <1>1
<1>5. 1 \in 1..n
  BY <1>1
<1>6. \A o : In(jobs, o) <=> jobs[1].op = o \/ In(t, o)
  <2> TAKE o
  <2>1. In(t, o) => In(jobs, o)
    BY <1>1, <1>3 DEF In, n
  <2>2. jobs[1].op = o => In(jobs, o)
    BY <1>5 DEF In, n
  <2>3. ASSUME NEW k \in 1..n, jobs[k].op = o, k # 1 PROVE In(t, o)
    <3>1. k - 1 \in 1..Len(t) /\ t[k - 1] = jobs[k]
      BY <1>1, <1>4, <2>3
    <3> QED BY <2>3, <3>1 DEF In
  <2> QED BY <2>1, <2>2, <2>3 DEF In, n
<1>7. ASSUME NEW o, Once(jobs, o) PROVE Once(t, o) /\ ~ (jobs[1].op = o /\ In(t, o))
  <2>1. ASSUME NEW i \in 1..n - 1, NEW k \in 1..n - 1, t[i].op = o, t[k].op = o PROVE i = k
    <3>1. i + 1 = k + 1
      BY <1>1, <1>3, <1>7, <2>1 DEF Once, n
    <3> QED BY <1>1, <3>1
  <2>2. ASSUME NEW i \in 1..n - 1, t[i].op = o, jobs[1].op = o PROVE FALSE
    BY <1>1, <1>3, <1>5, <1>7, <2>2 DEF Once, n
  <2> QED BY <1>1, <2>1, <2>2 DEF Once, In
<1> QED BY <1>2, <1>6, <1>7 DEF t

LEMMA InWithout ==
    ASSUME queue \in Seq(Job), NEW o
    PROVE  /\ \A x : In(Without(o), x) => In(queue, x)
           /\ \A x : x # o /\ In(queue, x) => In(Without(o), x)
           /\ \A x : Once(queue, x) => Once(Without(o), x)
           /\ Once(queue, o) => ~ In(Without(o), o)
<1>1. CASE ~ Found(o)
  BY <1>1, WithoutIs, UnderwayIs
<1>2. CASE Found(o)
  <2> DEFINE w == Without(o)
             n == Len(queue)
  <2> PICK k \in 1..n : /\ queue[k].op = o /\ Len(w) = n - 1
                        /\ \A i \in 1..Len(w) : w[i] = queue[IF i < k THEN i ELSE i + 1]
    BY <1>2, WithoutIs
  <2>0. n \in Nat
    BY LenProperties
  <2> HIDE DEF w, n
  <2> DEFINE at(i) == IF i < k THEN i ELSE i + 1
  <2>1. \A i \in 1..n - 1 : at(i) \in 1..n /\ at(i) # k /\ w[i] = queue[at(i)]
    BY <2>0
  <2>2. \A i, j \in 1..n - 1 : at(i) = at(j) => i = j
    BY <2>0
  <2>3. \A m \in 1..n : m # k => \E i \in 1..n - 1 : at(i) = m
    <3> TAKE m \in 1..n
    <3>1. CASE m < k
      BY <2>0, <3>1
    <3>2. CASE m > k
      <4>1. m - 1 \in 1..n - 1 /\ at(m - 1) = m
        BY <2>0, <3>2
      <4> QED BY <4>1
    <3> QED BY <2>0, <3>1, <3>2
  <2> HIDE DEF at
  <2>4. \A x : In(w, x) => In(queue, x)
    BY <2>1 DEF In, n
  <2>5. \A x : x # o /\ In(queue, x) => In(w, x)
    <3> SUFFICES ASSUME NEW x, x # o, NEW m \in 1..n, queue[m].op = x PROVE In(w, x)
      BY DEF In, n
    <3>1. PICK i \in 1..n - 1 : at(i) = m
      BY <2>3
    <3>2. i \in 1..Len(w) /\ w[i].op = x
      BY <2>1, <3>1
    <3> QED BY <3>2 DEF In
  <2>6. ASSUME NEW x, Once(queue, x) PROVE Once(w, x)
    <3> SUFFICES ASSUME NEW i \in 1..n - 1, NEW j \in 1..n - 1, w[i].op = x, w[j].op = x
                 PROVE  i = j
      BY DEF Once
    <3>1. /\ at(i) \in 1..n /\ queue[at(i)].op = x
          /\ at(j) \in 1..n /\ queue[at(j)].op = x
      BY <2>1
    <3>2. at(i) = at(j)
      BY <2>6, <3>1 DEF Once, n
    <3> QED BY <2>2, <3>2
  <2>7. Once(queue, o) => ~ In(w, o)
    BY <2>1 DEF In, Once, n
  <2> QED BY <2>4, <2>5, <2>6, <2>7 DEF w
<1> QED BY <1>1, <1>2

-----------------------------------------------------------------------------
(* Who is at work                                                          *)

RestoreAsked == \E r \in Ops : request[r].kind = "restore"

LEMMA RestoreStaysAsked == ASSUME TInv, [Next]_vars, RestoreAsked PROVE RestoreAsked'
<1> PICK r \in Ops : request[r].kind = "restore"
  BY DEF RestoreAsked
<1>1. request[r] # NoRequest
  BY DEF NoRequest
<1> QED BY <1>1, RequestsGrow DEF RestoreAsked

\* A task in the middle of its work.
LEMMA TaskStays ==
    ASSUME TInv,
           \/ BuildBackup \/ RegisterBackup \/ PurgeEnds \/ SaveBeforeRestore
           \/ \E p \in Packages : PurgeOne(p)
           \/ Truncate \/ Import \/ RegisterRestore \/ Fail
    PROVE  /\ UNCHANGED <<queue, pending, doubled, backend>> /\ task # NoTask /\ task' # NoTask
           /\ task.op \in Ops /\ task'.op = task.op /\ task'.attempt = task.attempt
           /\ request[task.op] # NoRequest
           /\ \A x \in Ops \ {task.op} : row'[x] = row[x] \/ (lost' /\ Kind = "restore")
           /\ lost => lost'
           /\ task'.at = "registered" \/ (task'.at = "failed" /\ task'.attempt = MaxRetries) =>
                  row'[task.op].status \notin Active \/ lost'
<1>0. BackupsTypeOK /\ RequestLine /\ TaskLine /\ row \in [Ops -> Operation]
  BY DEF TInv, BackupsTypeOK
<1>1. UNCHANGED <<queue, pending, doubled, backend>>
  BY DEF BuildBackup, RegisterBackup, PurgeEnds, SaveBeforeRestore, PurgeOne, Truncate, Import,
     RegisterRestore, Fail
<1>2. /\ task.at \in Phases /\ task # NoTask /\ task.op \in Ops /\ request[task.op] # NoRequest
      /\ task.attempt \in 1..MaxRetries
  <2>1. task.at \in Phases
    BY PhaseNames DEF BuildBackup, RegisterBackup, PurgeEnds, SaveBeforeRestore, PurgeOne, Truncate,
       Import, RegisterRestore, Fail
  <2> QED BY <1>0, <2>1, HeldIs DEF TaskLine
<1>3. Held # {} /\ \A t \in Held : t # NoTask
  BY <1>0, <1>2, HeldIs, NoTaskAt DEF Held, Phases, NoTask
<1>4. CASE BuildBackup \/ SaveBeforeRestore
  <2>1. task' = [task EXCEPT !.at = "saved", !.made = built + 1] /\ built + 1 \in 0..MaxPackages
    BY <1>0, <1>4, BuildType DEF BuildBackup, SaveBeforeRestore
  <2>2. task' \in Held /\ task'.at = "saved" /\ task'.op = task.op /\ task'.attempt = task.attempt
    BY <1>0, <1>2, <2>1, MadePhase, PhaseNames
  <2>3. row' = row /\ lost' = lost
    BY <1>4 DEF BuildBackup, SaveBeforeRestore, tables
  <2> QED BY <1>1, <1>2, <1>3, <2>2, <2>3
<1>5. ASSUME NEW p \in Packages, PurgeOne(p)
      PROVE  /\ task' \in Held /\ task'.at = "purging" /\ task'.op = task.op
             /\ task'.attempt = task.attempt /\ row' = row /\ lost' = lost
  <2>1. task.left \ {p} \in SUBSET Packages /\ task.at = "purging"
    BY <1>0, <1>2, <1>5, HeldIs DEF PurgeOne, Held
  <2>2. \/ task' = [task EXCEPT !.left = task.left \ {p}]
        \/ task' = [task EXCEPT !.left = task.left \ {p}, !.bad = TRUE]
    BY <1>5 DEF PurgeOne
  <2>3. task' \in Held /\ task'.at = task.at /\ task'.op = task.op /\ task'.attempt = task.attempt
    BY <1>0, <1>2, <2>1, <2>2, LessLeft
  <2> QED BY <1>5, <2>1, <2>3 DEF PurgeOne
<1>6. ASSUME NEW at \in Phases, task' = [task EXCEPT !.at = at]
      PROVE  task' \in Held /\ task'.at = at /\ task'.op = task.op /\ task'.attempt = task.attempt
  BY <1>0, <1>2, <1>6, NewPhase
<1>7. CASE RegisterBackup \/ PurgeEnds
  <2>1. task' = [task EXCEPT !.at = "registered"] /\ lost' = lost
    BY <1>7 DEF RegisterBackup, PurgeEnds
  <2>2. /\ \A x \in Ops \ {task.op} : row'[x] = row[x]
        /\ row'[task.op].status \in {"absent", "completed"}
    <3>1. CASE RegisterBackup
      <4>1. Present(row[task.op]) => Complete = [row EXCEPT ![task.op] = Completed]
        BY DEF Complete
      <4>2. ~ Present(row[task.op]) => Complete = row /\ row[task.op].status = "absent"
        BY DEF Complete, Present
      <4>3. Completed.status = "completed"
        BY DEF Completed
      <4> QED BY <1>0, <1>2, <3>1, <4>1, <4>2, <4>3 DEF RegisterBackup
    <3>2. CASE PurgeEnds
      BY <1>0, <1>2, <3>2, UpdateIs DEF PurgeEnds, Statuses
    <3> QED BY <1>7, <3>1, <3>2
  <2>3. task' \in Held /\ task'.op = task.op /\ task'.attempt = task.attempt
    BY <1>6, <2>1, PhaseNames
  <2> QED BY <1>1, <1>2, <1>3, <2>1, <2>2, <2>3 DEF Active
<1>8. CASE RegisterRestore
  <2>1. task' = [task EXCEPT !.at = "registered"] /\ lost' = lost /\ lost
        /\ row' = [row EXCEPT ![task.op] = Completed]
    BY <1>0, <1>2, <1>8 DEF RegisterRestore, TaskLine
  <2>2. task' \in Held /\ task'.op = task.op /\ task'.attempt = task.attempt
    BY <1>6, <2>1, PhaseNames
  <2> QED BY <1>0, <1>1, <1>2, <1>3, <2>1, <2>2
<1>9. CASE Truncate \/ Import
  <2>1. lost' /\ Kind = "restore"
        /\ \E at \in {"truncated", "imported"} : task' = [task EXCEPT !.at = at]
    BY <1>0, <1>2, <1>9 DEF Truncate, Import, TaskLine
  <2>2. task' \in Held /\ task'.op = task.op /\ task'.attempt = task.attempt
    BY <1>6, <2>1, PhaseNames
  <2> QED BY <1>1, <1>2, <1>3, <2>1, <2>2
<1>10. CASE Fail
  <2> PICK left \in Leftovers : /\ task' = [task EXCEPT !.at = "failed"]
                                /\ \/ row' = Failed(left[1]) /\ UNCHANGED lost
                                   \/ row' = left[1] /\ FailSilently(task)
    BY <1>0, <1>10, FailIs
  <2>1. task' \in Held /\ task'.op = task.op /\ task'.attempt = task.attempt
    BY <1>6, PhaseNames
  <2>2. lost => lost'
    BY Zenon DEF FailSilently
  <2>3. /\ left[1] \in [Ops -> Operation]
        /\ left[1] = row \/ (lost /\ Kind = "restore")
    BY <1>0, <1>2, LeftoversAre DEF TaskLine
  <2>4. /\ \A x \in Ops \ {task.op} : row'[x] = left[1][x]
        /\ \/ row'[task.op].status \in {"absent", "failed"}
           \/ FailSilently(task)
    BY <1>0, <1>2, <2>3, FailedIs
  <2>5. FailSilently(task) /\ task.attempt = MaxRetries => lost'
    BY Zenon DEF FailSilently
  <2> QED BY <1>1, <1>2, <1>3, <2>1, <2>2, <2>3, <2>4, <2>5 DEF Active
<1> QED BY <1>1, <1>2, <1>3, <1>4, <1>5, <1>7, <1>8, <1>9, <1>10

\* A job of an operation that was never requested is nowhere.
LEMMA NowhereYet ==
    ASSUME TInv, NEW o \in Ops, request[o] = NoRequest
    PROVE  ~ In(queue, o) /\ ~ In(pending, o) /\ ~ Tasked(o) /\ o \notin pushing \cup removed
  BY DEF TInv, HandedOn, AllRequested, TaskLine, Unrequested, In, Tasked

LEMMA InsertIs ==
    ASSUME TInv, \/ RequestBackup \/ RequestPurge
                 \/ \E p \in Packages : RequestDelete(p) \/ RequestRestore(p)
    PROVE  \E o \in Ops : /\ request[o] = NoRequest /\ pushing' = pushing \cup {o}
                          /\ \A x \in Ops \ {o} : row'[x] = row[x]
                          /\ UNCHANGED <<reply, queue, pending, task, doubled, removed, lost>>
<1>1. row \in [Ops -> Operation]
  BY DEF TInv, BackupsTypeOK
<1>2. \E kind, on : Insert(kind, on)
  BY DEF RequestBackup, RequestPurge, RequestDelete, RequestRestore
<1> PICK o \in Ops : /\ request[o] = NoRequest /\ pushing' = pushing \cup {o}
                     /\ row' = [row EXCEPT ![o] = [status |-> "queued", made |-> 0]]
                     /\ UNCHANGED <<reply, queue, pending, task, doubled, removed, lost>>
  BY <1>2 DEF Insert, worker
<1> QED BY <1>1

\* A push adds a job or none; an error leaves the row failed, or the operation is lost.
LEMMA EnqueueIs ==
    ASSUME TInv, NEW o \in Ops, Enqueue(o)
    PROVE  /\ UNCHANGED <<pending, task, doubled, removed>> /\ (lost => lost')
           /\ pushing' \subseteq pushing /\ pushing \subseteq pushing' \cup {o}
           /\ \A x \in Ops \ {o} : row'[x] = row[x] /\ reply'[x] = reply[x]
           /\ \/ /\ o \in pushing /\ o \notin pushing'
                 /\ \E j \in Job : j.op = o /\ queue' = Append(queue, j) /\ row' = row
              \/ o \in pushing /\ queue' = queue /\ (row'[o].status \notin Active \/ lost')
              \/ /\ queue' = queue /\ pushing' = pushing /\ reply'[o] = "error"
                 /\ row'[o].status = IF row[o].status = "absent" THEN "absent" ELSE "failed"
<1>1. row \in [Ops -> Operation] /\ reply \in [Ops -> Replies] /\ "failed" \in Statuses
  BY DEF TInv, BackupsTypeOK, Statuses
<1>2. ASSUME MarkEnqueueFailed(o)
      PROVE  /\ \A x \in Ops \ {o} : row'[x] = row[x]
             /\ row'[o].status = IF row[o].status = "absent" THEN "absent" ELSE "failed"
  BY <1>1, <1>2, UpdateIs DEF MarkEnqueueFailed
<1>3. CASE Push(o)
  <2>1. /\ o \in pushing /\ pushing' = pushing \ {o} /\ UNCHANGED <<row, pending, task, doubled, removed, lost>>
        /\ queue' = Append(queue, [op |-> o, attempt |-> 1])
        /\ \A x \in Ops \ {o} : reply'[x] = reply[x]
    BY <1>1, <1>3 DEF Push, tables, worker
  <2>2. [op |-> o, attempt |-> 1] \in Job /\ [op |-> o, attempt |-> 1].op = o
    BY BackupsAssumption, JobType
  <2> QED BY <2>1, <2>2
<1>4. CASE PushFails(o)
  <2>1. /\ o \in pushing /\ pushing' = pushing \ {o} /\ UNCHANGED <<reply, queue, pending, task, doubled, removed>>
        /\ \/ MarkEnqueueFailed(o) /\ UNCHANGED lost
           \/ lost' /\ row' = row
    BY <1>4 DEF PushFails, worker
  <2> QED BY <1>2, <2>1 DEF Active
<1>5. CASE PushTimesOut(o)
  <2>1. /\ reply' = [reply EXCEPT ![o] = "error"] /\ MarkEnqueueFailed(o)
        /\ UNCHANGED <<pushing, queue, pending, task, doubled, removed, lost>>
    BY <1>5 DEF PushTimesOut, worker
  <2>2. reply'[o] = "error" /\ \A x \in Ops \ {o} : reply'[x] = reply[x]
    BY <1>1, <2>1
  <2> QED BY <1>2, <2>1, <2>2
<1> QED BY <1>3, <1>4, <1>5 DEF Enqueue

LEMMA CancelEndsIs ==
    ASSUME TInv, NEW o \in Ops, CancelEnds(o)
    PROVE  /\ UNCHANGED <<pushing, reply, pending, task, doubled, lost>> /\ queue' = Without(o)
           /\ \A x \in Ops \ {o} : row'[x] = row[x]
           /\ row'[o].status \notin Active
           /\ o \in removed' => In(queue, o) /\ row'[o].status = "cancelled"
           /\ removed' \subseteq removed \cup {o}
<1>1. row \in [Ops -> Operation] /\ "cancelled" \in Statuses
  BY DEF TInv, BackupsTypeOK, Statuses
<1>2. /\ UNCHANGED <<pushing, reply, pending, task, doubled, lost>> /\ queue' = Without(o)
      /\ row' = Update(row, o, "cancelled")
      /\ removed' = IF Found(o) /\ Present(row[o]) THEN removed \cup {o} ELSE removed \ {o}
  BY DEF CancelEnds, worker
<1>3. /\ \A x \in Ops \ {o} : row'[x] = row[x]
      /\ row'[o].status = IF row[o].status = "absent" THEN "absent" ELSE "cancelled"
  BY <1>1, <1>2, UpdateIs
<1> QED BY <1>2, <1>3, UnderwayIs DEF Present, Active

LEMMA BeginsIs ==
    ASSUME TInv, Begin
    PROVE  /\ task = NoTask /\ pending # <<>> /\ pending' = Tail(pending) /\ task' # NoTask
           /\ task'.op = Head(pending).op /\ task'.op \in Ops
           /\ \A x \in Ops \ {task'.op} : row'[x] = row[x]
           /\ task'.at # "registered" /\ (lost => lost')
           /\ task'.at = "failed" /\ task'.attempt = MaxRetries => lost'
           /\ UNCHANGED <<queue, pushing, reply, doubled, removed>>
<1>1. BackupsTypeOK /\ row \in [Ops -> Operation] /\ "running" \in Statuses
  BY DEF TInv, BackupsTypeOK, Statuses
<1> PICK j \in Job :
              /\ task = NoTask /\ pending # <<>> /\ j = Head(pending) /\ pending' = Tail(pending)
              /\ task' \in Held /\ task'.op = j.op /\ task'.attempt = j.attempt
              /\ task'.at \in {"working", "purging", "failed"}
              /\ row' \in {row, Update(row, j.op, "running")}
              /\ \/ task'.at # "failed" /\ UNCHANGED <<lost, mishaps>>
                 \/ task'.at = "failed" /\ FailSilently(j)
              /\ UNCHANGED <<catalog, stray, request, disk, cutoff, queue, backend, doubled>>
  BY <1>1, BeginIs
<1>2. j.op \in Ops
  BY DEF Job
<1>3. task' # NoTask
  BY NoTaskAt
<1>4. \A x \in Ops \ {j.op} : row'[x] = row[x]
  BY <1>1, <1>2, UpdateIs
<1>5. FailSilently(j) => (lost => lost') /\ (j.attempt = MaxRetries => lost')
  BY Zenon DEF FailSilently
<1> QED BY <1>2, <1>3, <1>4, <1>5 DEF backend

\* A job more for the next attempt, or two, or none.
LEMMA RetryIs ==
    ASSUME TInv, RetryOrBury
    PROVE  /\ task # NoTask /\ task.op \in Ops /\ task.at = "failed" /\ task' = NoTask
           /\ UNCHANGED <<row, pushing, reply, pending, removed>>
           /\ (lost => lost') /\ doubled \subseteq doubled'
           /\ \A x : In(queue, x) => In(queue', x)
           /\ \A x : In(queue', x) => In(queue, x) \/ x = task.op
           /\ \A x : x \notin doubled' /\ Once(queue, x) /\ (x = task.op => ~ In(queue, x))
                  => Once(queue', x)
           /\ In(queue', task.op) \/ task.attempt = MaxRetries \/ lost'
<1>0. BackupsTypeOK /\ MaxRetries \in Nat /\ queue \in Seq(Job)
  BY BackupsAssumption DEF TInv, BackupsTypeOK
<1>1. /\ task # NoTask /\ task.op \in Ops /\ task.attempt \in 1..MaxRetries
      /\ task.at = "failed" /\ task' = NoTask
  BY <1>0, HeldIs, PhaseNames DEF RetryOrBury
<1> DEFINE j == NextAttempt
<1>2. task.attempt < MaxRetries => j \in Job
  <2>1. task.attempt < MaxRetries => task.attempt + 1 \in 1..MaxRetries
    BY <1>0, <1>1
  <2> QED BY <1>1, <2>1, JobType DEF NextAttempt
<1>3. j.op = task.op
  BY DEF NextAttempt
<1>4. /\ UNCHANGED <<row, pushing, reply, pending, removed>>
      /\ \/ /\ queue' = (IF task.attempt < MaxRetries THEN Append(queue, j) ELSE queue)
            /\ lost' = lost /\ doubled' = doubled
         \/ /\ task.attempt < MaxRetries /\ queue' = Append(Append(queue, j), j)
            /\ lost' = lost /\ doubled' = doubled \cup {task.op}
         \/ lost' /\ queue' = queue /\ doubled' = doubled
  BY DEF RetryOrBury, tables, backend
<1> HIDE DEF j
<1>5. task.attempt < MaxRetries \/ task.attempt = MaxRetries
  BY <1>0, <1>1
<1>6. lost => lost'
  BY <1>4
<1>7. CASE task.attempt < MaxRetries /\ queue' = Append(queue, j) /\ doubled' = doubled
  BY <1>0, <1>1, <1>2, <1>3, <1>4, <1>6, <1>7, InAppend
<1>8. CASE /\ task.attempt < MaxRetries /\ queue' = Append(Append(queue, j), j)
           /\ doubled' = doubled \cup {task.op}
  <2> DEFINE a == Append(queue, j)
  <2>1. a \in Seq(Job) /\ queue' = Append(a, j) /\ j \in Job
    BY <1>0, <1>2, <1>8, AppendProperties
  <2>2. /\ \A x : In(a, x) <=> In(queue, x) \/ j.op = x
        /\ \A x : Once(queue, x) /\ (j.op = x => ~ In(queue, x)) => Once(a, x)
    BY <1>0, <2>1, InAppend
  <2> HIDE DEF a
  <2>3. /\ \A x : In(queue', x) <=> In(a, x) \/ j.op = x
        /\ \A x : Once(a, x) /\ (j.op = x => ~ In(a, x)) => Once(queue', x)
    BY <2>1, InAppend
  <2>4. \A x : x \notin doubled' => x # task.op
    BY <1>8
  <2> QED BY <1>1, <1>3, <1>4, <1>6, <1>8, <2>2, <2>3, <2>4
<1>9. CASE queue' = queue /\ doubled' = doubled /\ (task.attempt = MaxRetries \/ lost')
  BY <1>1, <1>4, <1>6, <1>9
<1> QED BY <1>4, <1>5, <1>7, <1>8, <1>9

LEMMA OnePlaceStep == ASSUME TInv, OnePlace, [Next]_vars PROVE OnePlace'
<1>0. queue \in Seq(Job) /\ pending \in Seq(Job) /\ BackupsTypeOK
  BY DEF TInv, BackupsTypeOK
<1> SUFFICES ASSUME NEW x \in Ops, x \notin doubled' PROVE InOnePlace(x)'
  BY DEF OnePlace
<1>a. x \notin doubled => InOnePlace(x)
  BY DEF OnePlace
<1>1. CASE /\ UNCHANGED <<queue, pending, pushing, doubled>>
           /\ Tasked(x)' => Tasked(x)
  BY <1>a, <1>1 DEF InOnePlace, In, Once
<1>2. CASE \/ Refresh \/ DayPasses \/ UNCHANGED vars \/ \E o \in Ops : Cancel(o)
  <2>1. UNCHANGED <<queue, pending, pushing, task, doubled>>
    BY <1>2 DEF Refresh, DayPasses, Cancel, vars, backend, worker
  <2> QED BY <1>1, <2>1 DEF Tasked
<1>3. CASE \/ RequestBackup \/ RequestPurge
           \/ \E p \in Packages : RequestDelete(p) \/ RequestRestore(p)
  <2> PICK o \in Ops : /\ request[o] = NoRequest /\ pushing' = pushing \cup {o}
                       /\ UNCHANGED <<queue, pending, task, doubled>>
    BY <1>3, InsertIs
  <2>1. ~ In(queue, o) /\ ~ In(pending, o) /\ ~ Tasked(o)
    BY NowhereYet
  <2> QED BY <1>a, <2>1 DEF InOnePlace, Tasked, In, Once
<1>4. ASSUME NEW o \in Ops, Enqueue(o) PROVE InOnePlace(x)'
  <2>1. /\ UNCHANGED <<pending, task, doubled>> /\ pushing' \subseteq pushing
        /\ \/ /\ o \in pushing /\ o \notin pushing'
              /\ \E j \in Job : j.op = o /\ queue' = Append(queue, j)
           \/ queue' = queue
    BY <1>4, EnqueueIs
  <2>2. CASE queue' = queue
    BY <1>a, <2>1, <2>2 DEF InOnePlace, Tasked, In, Once
  <2>3. ASSUME NEW j \in Job, j.op = o, queue' = Append(queue, j), o \in pushing, o \notin pushing'
        PROVE  InOnePlace(x)'
    <3>1. /\ \A y : In(queue', y) <=> In(queue, y) \/ y = o
          /\ Once(queue, x) /\ (x = o => ~ In(queue, x)) => Once(queue', x)
      BY <1>0, <2>3, InAppend
    <3>2. InOnePlace(x)
      BY <1>a, <2>1
    <3> QED BY <2>1, <2>3, <3>1, <3>2 DEF InOnePlace, Tasked
  <2> QED BY <2>1, <2>2, <2>3
<1>5. ASSUME NEW o \in Ops, CancelEnds(o) \/ CancelFails(o) PROVE InOnePlace(x)'
  <2>1. UNCHANGED <<pushing, pending, task, doubled>> /\ queue' \in {queue, Without(o)}
    BY <1>5 DEF CancelEnds, CancelFails, worker
  <2>2. InOnePlace(x)
    BY <1>a, <2>1
  <2>3. Once(queue', x) /\ (In(queue', x) => In(queue, x))
    BY <1>0, <2>1, <2>2, InWithout DEF InOnePlace
  <2> QED BY <2>1, <2>2, <2>3 DEF InOnePlace, Tasked
<1>6. CASE Pop
  <2>1. queue # <<>> /\ queue' = Tail(queue) /\ UNCHANGED <<pushing, task, doubled>>
        /\ pending' \in {pending, Append(pending, Head(queue))} /\ Head(queue) \in Job
    BY <1>0, <1>6, HeadTailProperties DEF Pop, backend
  <2> DEFINE o == Head(queue).op
  <2>2. InOnePlace(x)
    BY <1>a, <2>1
  <2>3. /\ In(queue', x) => In(queue, x)
        /\ Once(queue', x) /\ (o = x => In(queue, x) /\ ~ In(queue', x))
    BY <1>0, <2>1, <2>2, InTail DEF InOnePlace
  <2>4. /\ In(pending', x) => In(pending, x) \/ x = o
        /\ Once(pending, x) /\ (o = x => ~ In(pending, x)) => Once(pending', x)
    BY <1>0, <2>1, InAppend
  <2> HIDE DEF o
  <2> QED BY <2>1, <2>2, <2>3, <2>4 DEF InOnePlace, Tasked
<1>7. CASE Begin
  <2>1. /\ task = NoTask /\ pending # <<>> /\ pending' = Tail(pending)
        /\ task'.op = Head(pending).op /\ UNCHANGED <<queue, pushing, doubled>>
    BY <1>7, BeginsIs
  <2>2. InOnePlace(x)
    BY <1>a, <2>1
  <2>3. /\ In(pending', x) => In(pending, x)
        /\ Once(pending', x) /\ (task'.op = x => In(pending, x) /\ ~ In(pending', x))
    BY <1>0, <2>1, <2>2, InTail DEF InOnePlace
  <2> QED BY <2>1, <2>2, <2>3 DEF InOnePlace, Tasked
<1>8. CASE Finish
  <2>1. task' = NoTask /\ queue' \in {queue, <<>>} /\ UNCHANGED <<pushing, pending, doubled>>
    BY <1>8 DEF Finish, backend
  <2> QED BY <1>a, <2>1 DEF InOnePlace, Tasked, In, Once
<1>9. CASE RetryOrBury
  <2>1. /\ task # NoTask /\ task' = NoTask /\ UNCHANGED <<pushing, pending>>
        /\ doubled \subseteq doubled'
        /\ In(queue', x) => In(queue, x) \/ x = task.op
        /\ Once(queue, x) /\ (x = task.op => ~ In(queue, x)) => Once(queue', x)
    BY <1>9, RetryIs
  <2>2. InOnePlace(x)
    BY <1>a, <2>1
  <2> QED BY <2>1, <2>2 DEF InOnePlace, Tasked
<1>10. CASE Crash
  <2>1. task' = NoTask /\ pending' = <<>> /\ UNCHANGED <<queue, pushing, doubled>>
    BY <1>10 DEF Crash, backend
  <2> QED BY <1>a, <2>1 DEF InOnePlace, Tasked, In, Once
<1>11. CASE \/ BuildBackup \/ RegisterBackup \/ PurgeEnds \/ SaveBeforeRestore
            \/ \E p \in Packages : PurgeOne(p)
            \/ Truncate \/ Import \/ RegisterRestore \/ Fail
  <2>1. UNCHANGED <<queue, pending, doubled, backend>> /\ task # NoTask /\ task'.op = task.op
    BY <1>11, TaskStays
  <2> QED BY <1>1, <2>1 DEF Tasked, backend
<1> QED BY <1>2, <1>3, <1>4, <1>5, <1>6, <1>7, <1>8, <1>9, <1>10, <1>11 DEF Next, TaskStep

LEMMA Bystander ==
    ASSUME Refresh \/ DayPasses \/ UNCHANGED vars \/ \E o \in Ops : Cancel(o)
    PROVE  UNCHANGED <<row, reply, queue, pending, pushing, task, doubled, removed, lost>>
  BY DEF Refresh, DayPasses, Cancel, vars, backend, worker, tables

LEMMA EndLineStep == ASSUME TInv, EndLine, [Next]_vars PROVE EndLine'
<1>1. ASSUME task' = task, lost => lost',
             task # NoTask => row'[task.op] = row[task.op] \/ row'[task.op].status \notin Active \/ lost'
      PROVE  EndLine'
  <2>1. task.at \in {"registered", "failed"} => task # NoTask
    BY NoTaskAt
  <2> QED BY <1>1, <2>1 DEF EndLine
<1>2. task # NoTask => task.op \in Ops
  BY HeldIs DEF TInv
<1>3. CASE \/ Refresh \/ DayPasses \/ UNCHANGED vars \/ \E o \in Ops : Cancel(o)
  BY <1>1, <1>3, Bystander
<1>4. CASE \/ RequestBackup \/ RequestPurge
           \/ \E p \in Packages : RequestDelete(p) \/ RequestRestore(p)
  <2> PICK o \in Ops : /\ request[o] = NoRequest
                       /\ \A x \in Ops \ {o} : row'[x] = row[x]
                       /\ UNCHANGED <<queue, pending, task, removed, lost>>
    BY <1>4, InsertIs
  <2>1. ~ Tasked(o)
    BY NowhereYet
  <2> QED BY <1>1, <1>2, <2>1 DEF Tasked
<1>5. ASSUME NEW o \in Ops, Enqueue(o) PROVE EndLine'
  <2>1. /\ task' = task /\ (lost => lost')
        /\ \A x \in Ops : row'[x] = row[x] \/ row'[x].status \notin Active \/ lost'
    BY <1>5, EnqueueIs DEF Active
  <2> QED BY <1>1, <1>2, <2>1
<1>6. ASSUME NEW o \in Ops, CancelEnds(o) PROVE EndLine'
  <2>1. UNCHANGED <<task, lost>> /\ \A x \in Ops : row'[x] = row[x] \/ row'[x].status \notin Active
    BY <1>6, CancelEndsIs
  <2> QED BY <1>1, <1>2, <2>1
<1>7. ASSUME NEW o \in Ops, CancelFails(o) PROVE EndLine'
  <2>1. UNCHANGED <<task, row>>
    BY <1>7 DEF CancelFails, tables, worker
  <2>2. lost => lost'
    BY <1>7 DEF CancelFails
  <2> QED BY <1>1, <2>1, <2>2
<1>8. CASE Pop
  <2>1. UNCHANGED <<task, row>>
    BY <1>8 DEF Pop, tables
  <2>2. lost => lost'
    BY <1>8 DEF Pop
  <2> QED BY <1>1, <2>1, <2>2
<1>9. CASE Begin
  BY <1>9, BeginsIs DEF EndLine
<1>10. CASE Finish \/ RetryOrBury \/ Crash
  <2>1. task' = NoTask
    BY <1>10 DEF Finish, RetryOrBury, Crash
  <2> QED BY <2>1, NoTaskAt DEF EndLine
<1>11. CASE \/ BuildBackup \/ RegisterBackup \/ PurgeEnds \/ SaveBeforeRestore
            \/ \E p \in Packages : PurgeOne(p)
            \/ Truncate \/ Import \/ RegisterRestore \/ Fail
  BY <1>11, TaskStays DEF EndLine
<1> QED BY <1>3, <1>4, <1>5, <1>6, <1>7, <1>8, <1>9, <1>10, <1>11 DEF Next, TaskStep

LEMMA ActiveStep == ASSUME TInv, OnePlace, EndLine, ActiveIsUnderway, [Next]_vars PROVE ActiveIsUnderway'
<1>0. /\ queue \in Seq(Job) /\ pending \in Seq(Job) /\ TaskLine
      /\ task # NoTask => task.op \in Ops
  BY HeldIs DEF TInv, BackupsTypeOK
<1> SUFFICES ASSUME NEW o \in Ops, row'[o].status \in Active, ~ lost'
             PROVE  Underway(o)'
  BY DEF ActiveIsUnderway
<1>1. Underway(o)' <=> o \in pushing' \/ In(queue', o) \/ In(pending', o) \/ (task' # NoTask /\ task'.op = o)
  BY DEF Underway, In
<1>2. row[o].status \in Active /\ ~ lost =>
          o \in pushing \/ In(queue, o) \/ In(pending, o) \/ (task # NoTask /\ task.op = o)
  BY UnderwayIs DEF ActiveIsUnderway, Tasked
<1>3. CASE \/ Refresh \/ DayPasses \/ UNCHANGED vars \/ \E x \in Ops : Cancel(x)
  BY <1>1, <1>2, <1>3, Bystander
<1>4. CASE \/ RequestBackup \/ RequestPurge
           \/ \E p \in Packages : RequestDelete(p) \/ RequestRestore(p)
  BY <1>1, <1>2, <1>4, InsertIs
<1>5. ASSUME NEW x \in Ops, Enqueue(x) PROVE Underway(o)'
  <2>1. /\ UNCHANGED <<pending, task>> /\ (lost => lost')
        /\ pushing \subseteq pushing' \cup {x}
        /\ \A y \in Ops \ {x} : row'[y] = row[y]
        /\ \/ \E j \in Job : j.op = x /\ queue' = Append(queue, j) /\ row' = row
           \/ queue' = queue /\ row'[x].status \notin Active
    BY <1>5, EnqueueIs DEF Active
  <2>a. ASSUME NEW j \in Job, j.op = x, queue' = Append(queue, j)
        PROVE  \A y : In(queue', y) <=> In(queue, y) \/ y = x
    BY <1>0, <2>a, InAppend
  <2>2. In(queue, o) => In(queue', o)
    BY <2>1, <2>a
  <2>3. o = x => In(queue', o)
    BY <2>1, <2>a
  <2> QED BY <1>1, <1>2, <2>1, <2>2, <2>3
<1>6. ASSUME NEW x \in Ops, CancelEnds(x) PROVE Underway(o)'
  <2>1. /\ UNCHANGED <<pushing, pending, task, lost>> /\ queue' = Without(x)
        /\ \A y \in Ops \ {x} : row'[y] = row[y]
        /\ row'[x].status \notin Active
    BY <1>6, CancelEndsIs
  <2> QED BY <1>0, <1>1, <1>2, <2>1, InWithout
<1>7. ASSUME NEW x \in Ops, CancelFails(x) PROVE Underway(o)'
  <2>1. UNCHANGED <<task, row, pending, pushing>> /\ (lost' <=> lost \/ queue' # queue)
    BY <1>7 DEF CancelFails, tables, worker
  <2> QED BY <1>1, <1>2, <2>1
<1>8. CASE Pop
  <2>1. queue # <<>> /\ queue' = Tail(queue) /\ pending' = Append(pending, Head(queue))
        /\ UNCHANGED <<row, pushing, task, lost>> /\ Head(queue) \in Job
    BY <1>0, <1>8, HeadTailProperties DEF Pop, backend, tables
  <2>2. In(queue, o) => In(queue', o) \/ In(pending', o)
    BY <1>0, <2>1, InTail, InAppend
  <2>3. In(pending, o) => In(pending', o)
    BY <1>0, <2>1, InAppend
  <2> QED BY <1>1, <1>2, <2>1, <2>2, <2>3
<1>9. CASE Begin
  <2>1. /\ task = NoTask /\ pending # <<>> /\ pending' = Tail(pending) /\ task' # NoTask
        /\ task'.op = Head(pending).op
        /\ \A x \in Ops \ {task'.op} : row'[x] = row[x]
        /\ (lost => lost') /\ UNCHANGED <<queue, pushing>>
    BY <1>9, BeginsIs
  <2>2. In(pending, o) => In(pending', o) \/ task'.op = o
    BY <1>0, <2>1, InTail
  <2> QED BY <1>1, <1>2, <2>1, <2>2
<1>10. CASE Finish
  <2>1. /\ task.at = "registered" /\ UNCHANGED <<row, pending, pushing, lost>>
        /\ queue' = IF Kind = "restore" THEN <<>> ELSE queue
    BY <1>10 DEF Finish, tables, backend
  <2>2. task # NoTask
    BY <2>1, NoTaskAt
  <2>3. Kind # "restore"
    BY <1>0, <2>1, <2>2 DEF TaskLine
  <2>4. task.op # o
    BY <2>1 DEF EndLine
  <2> QED BY <1>1, <1>2, <2>1, <2>3, <2>4
<1>11. CASE RetryOrBury
  <2>1. /\ task # NoTask /\ task.at = "failed"
        /\ UNCHANGED <<row, pushing, pending>> /\ (lost => lost')
        /\ \A x : In(queue, x) => In(queue', x)
        /\ In(queue', task.op) \/ task.attempt = MaxRetries
    BY <1>11, RetryIs
  <2>2. task.attempt = MaxRetries => task.op # o
    BY <2>1 DEF EndLine
  <2> QED BY <1>1, <1>2, <2>1, <2>2
<1>12. CASE Crash
  BY <1>12 DEF Crash
<1>13. CASE \/ BuildBackup \/ RegisterBackup \/ PurgeEnds \/ SaveBeforeRestore
            \/ \E p \in Packages : PurgeOne(p)
            \/ Truncate \/ Import \/ RegisterRestore \/ Fail
  <2>1. /\ UNCHANGED <<queue, pending, backend>> /\ task' # NoTask /\ task'.op = task.op
        /\ \A x \in Ops \ {task.op} : row'[x] = row[x] \/ lost'
        /\ (lost => lost')
    BY <1>13, TaskStays
  <2> QED BY <1>1, <1>2, <2>1 DEF backend
<1> QED BY <1>3, <1>4, <1>5, <1>6, <1>7, <1>8, <1>9, <1>10, <1>11, <1>12, <1>13 DEF Next, TaskStep

Recorded(o) ==
    \/ row[o].status = "cancelled"
    \/ row[o].status = "failed" /\ reply[o] = "error"

LEMMA CancelSticksStep == ASSUME TInv, OnePlace, CancelSticks, [Next]_vars PROVE CancelSticks'
<1>0. /\ queue \in Seq(Job) /\ pending \in Seq(Job) /\ removed \subseteq Ops /\ TaskLine
      /\ task # NoTask => task.op \in Ops
  BY HeldIs DEF TInv, BackupsTypeOK
<1> SUFFICES ASSUME NEW o \in removed', o \notin doubled'
             PROVE  ~ Underway(o)' /\ (Recorded(o)' \/ RestoreAsked')
  BY DEF CancelSticks, RestoreAsked, Recorded
<1> DEFINE Gone == ~ Underway(o)' /\ (Recorded(o)' \/ RestoreAsked')
<1>1. Underway(o)' <=> o \in pushing' \/ In(queue', o) \/ In(pending', o) \/ (task' # NoTask /\ task'.op = o)
  BY DEF Underway, In
<1>2. o \in removed /\ o \notin doubled =>
          /\ o \in Ops /\ o \notin pushing /\ ~ In(queue, o) /\ ~ In(pending, o)
          /\ ~ (task # NoTask /\ task.op = o)
          /\ Recorded(o) \/ RestoreAsked
  BY <1>0, UnderwayIs DEF CancelSticks, Tasked, RestoreAsked, Recorded
<1>3. RestoreAsked => RestoreAsked'
  BY RestoreStaysAsked
<1>a. row'[o] = row[o] /\ reply'[o] = reply[o] => (Recorded(o)' <=> Recorded(o))
  BY DEF Recorded
<1>4. CASE \/ Refresh \/ DayPasses \/ UNCHANGED vars \/ \E x \in Ops : Cancel(x)
  BY <1>1, <1>2, <1>3, <1>a, <1>4, Bystander
<1>5. CASE \/ RequestBackup \/ RequestPurge
           \/ \E p \in Packages : RequestDelete(p) \/ RequestRestore(p)
  <2> PICK x \in Ops : /\ request[x] = NoRequest /\ pushing' = pushing \cup {x}
                       /\ \A y \in Ops \ {x} : row'[y] = row[y]
                       /\ UNCHANGED <<reply, queue, pending, task, doubled, removed>>
    BY <1>5, InsertIs
  <2>1. o # x
    BY NowhereYet
  <2> QED BY <1>1, <1>2, <1>3, <1>a, <2>1
<1>6. ASSUME NEW x \in Ops, Enqueue(x) PROVE Gone
  <2>1. /\ UNCHANGED <<pending, task, doubled, removed>> /\ pushing' \subseteq pushing
        /\ \A y \in Ops \ {x} : row'[y] = row[y] /\ reply'[y] = reply[y]
        /\ \/ x \in pushing /\ \E j \in Job : j.op = x /\ queue' = Append(queue, j)
           \/ x \in pushing /\ queue' = queue
           \/ /\ queue' = queue /\ reply'[x] = "error"
              /\ row'[x].status = IF row[x].status = "absent" THEN "absent" ELSE "failed"
    BY <1>6, EnqueueIs
  <2>2. /\ o \in Ops /\ o \notin pushing /\ ~ In(queue, o) /\ ~ In(pending, o)
        /\ ~ (task # NoTask /\ task.op = o) /\ (Recorded(o) \/ RestoreAsked)
    BY <1>2, <2>1
  <2>3. ASSUME NEW j \in Job, j.op = x, queue' = Append(queue, j), x \in pushing PROVE ~ In(queue', o)
    BY <1>0, <2>2, <2>3, InAppend
  <2>4. ~ In(queue', o)
    BY <2>1, <2>2, <2>3
  <2>5. o = x => (Recorded(o) => Recorded(o)')
    BY <2>1, <2>2 DEF Recorded
  <2> QED BY <1>1, <1>3, <1>a, <2>1, <2>2, <2>4, <2>5
<1>7. ASSUME NEW x \in Ops, CancelEnds(x) PROVE Gone
  <2>1. /\ UNCHANGED <<pushing, reply, pending, task, doubled>> /\ queue' = Without(x)
        /\ \A y \in Ops \ {x} : row'[y] = row[y]
        /\ x \in removed' => In(queue, x) /\ row'[x].status = "cancelled"
        /\ removed' \subseteq removed \cup {x}
    BY <1>7, CancelEndsIs
  <2>2. \A y : In(queue', y) => In(queue, y)
    BY <1>0, <2>1, InWithout
  <2>3. CASE o = x
    <3>1. InOnePlace(x) /\ In(queue, x) /\ row'[x].status = "cancelled"
      BY <2>1, <2>3 DEF OnePlace
    <3>2. x \notin pushing /\ ~ In(pending, x) /\ ~ Tasked(x) /\ ~ In(queue', x)
      BY <1>0, <2>1, <3>1, InWithout DEF InOnePlace
    <3> QED BY <1>1, <2>1, <2>3, <3>1, <3>2 DEF Tasked, Recorded
  <2>4. CASE o # x
    BY <1>1, <1>2, <1>3, <1>a, <2>1, <2>2, <2>4
  <2> QED BY <2>3, <2>4
<1>8. ASSUME NEW x \in Ops, CancelFails(x) PROVE Gone
  <2>1. /\ UNCHANGED <<task, row, reply, pending, pushing, doubled, removed>>
        /\ queue' \in {queue, Without(x)}
    BY <1>8 DEF CancelFails, tables, worker
  <2>2. In(queue', o) => In(queue, o)
    BY <1>0, <2>1, InWithout
  <2> QED BY <1>1, <1>2, <1>3, <1>a, <2>1, <2>2
<1>9. CASE Pop
  <2>1. queue # <<>> /\ queue' = Tail(queue) /\ pending' \in {pending, Append(pending, Head(queue))}
        /\ UNCHANGED <<row, reply, pushing, task, doubled, removed>> /\ Head(queue) \in Job
    BY <1>0, <1>9, HeadTailProperties DEF Pop, backend, tables
  <2>2. (In(queue', o) => In(queue, o)) /\ (Head(queue).op = o => In(queue, o))
    BY <1>0, <2>1, InTail
  <2>3. In(Append(pending, Head(queue)), o) => In(pending, o) \/ Head(queue).op = o
    BY <1>0, <2>1, InAppend
  <2> QED BY <1>1, <1>2, <1>3, <1>a, <2>1, <2>2, <2>3
<1>10. CASE Begin
  <2>1. /\ task = NoTask /\ pending # <<>> /\ pending' = Tail(pending)
        /\ task'.op = Head(pending).op
        /\ \A x \in Ops \ {task'.op} : row'[x] = row[x]
        /\ UNCHANGED <<queue, pushing, reply, doubled, removed>>
    BY <1>10, BeginsIs
  <2>2. (In(pending', o) => In(pending, o)) /\ (task'.op = o => In(pending, o))
    BY <1>0, <2>1, InTail
  <2> QED BY <1>1, <1>2, <1>3, <1>a, <2>1, <2>2
<1>11. CASE Finish
  <2>1. /\ task' = NoTask /\ UNCHANGED <<row, reply, pending, pushing, doubled, removed>>
        /\ queue' \in {queue, <<>>}
    BY <1>11 DEF Finish, tables, backend
  <2>2. In(queue', o) => In(queue, o)
    BY <2>1 DEF In
  <2> QED BY <1>1, <1>2, <1>3, <1>a, <2>1, <2>2
<1>12. CASE RetryOrBury
  <2>1. /\ task # NoTask /\ task' = NoTask
        /\ UNCHANGED <<row, pushing, reply, pending, removed>> /\ doubled \subseteq doubled'
        /\ In(queue', o) => In(queue, o) \/ o = task.op
    BY <1>12, RetryIs
  <2> QED BY <1>1, <1>2, <1>3, <1>a, <2>1
<1>13. CASE Crash
  <2>1. /\ task' = NoTask /\ pending' = <<>>
        /\ UNCHANGED <<row, reply, queue, pushing, doubled, removed>>
    BY <1>13 DEF Crash, tables, backend
  <2>2. ~ In(pending', o)
    BY <2>1 DEF In
  <2> QED BY <1>1, <1>2, <1>3, <1>a, <2>1, <2>2
<1>14. CASE \/ BuildBackup \/ RegisterBackup \/ PurgeEnds \/ SaveBeforeRestore
            \/ \E p \in Packages : PurgeOne(p)
            \/ Truncate \/ Import \/ RegisterRestore \/ Fail
  <2>1. /\ UNCHANGED <<queue, pending, doubled, backend>> /\ task # NoTask /\ task'.op = task.op
        /\ task.op \in Ops
        /\ \A x \in Ops \ {task.op} : row'[x] = row[x] \/ Kind = "restore"
    BY <1>14, TaskStays
  <2>2. Kind = "restore" => RestoreAsked
    BY <2>1 DEF RestoreAsked, Kind
  <2> QED BY <1>1, <1>2, <1>3, <1>a, <2>1, <2>2 DEF backend
<1> QED BY <1>4, <1>5, <1>6, <1>7, <1>8, <1>9, <1>10, <1>11, <1>12, <1>13, <1>14 DEF Next, TaskStep

LEMMA WorkInit == Init => PInv
<1> SUFFICES ASSUME Init PROVE PInv
  OBVIOUS
<1>1. queue = <<>> /\ pending = <<>> /\ task = NoTask /\ pushing = {} /\ removed = {}
  BY DEF Init
<1>2. OnePlace /\ CancelSticks
  BY <1>1 DEF OnePlace, InOnePlace, CancelSticks, In, Once, Tasked
<1>3. EndLine
  BY <1>1, NoTaskAt DEF EndLine
<1>4. ActiveIsUnderway
  BY NoRequestIs DEF Init, Empty, ActiveIsUnderway, Active
<1> QED BY <1>2, <1>3, <1>4 DEF PInv

LEMMA WorkStep == ASSUME TInv, PInv, [Next]_vars PROVE PInv'
  BY OnePlaceStep, EndLineStep, ActiveStep, CancelSticksStep DEF PInv

THEOREM WorkInvariant == Spec => [](TInv /\ PInv)
BY BackupsInit, BackupsStep, WorkInit, WorkStep, PTL DEF Spec

\* cancel_system_backup_operation, once it has taken the only job of the operation from the
\* queue, is final: the worker never meets the operation again, and the row says cancelled, or
\* failed when the push of that very job was answered by an error.
THEOREM CancellationIsFinal == Spec => []CancelSticks
<1>1. PInv => CancelSticks
  BY DEF PInv
<1> QED BY <1>1, WorkInvariant, PTL

\* Through pushes, retries and cancellations an operation that is queued or running has a job
\* or a task, but for what ActiveIsUnderway names.
THEOREM ActiveHasWork == Spec => []ActiveIsUnderway
<1>1. PInv => ActiveIsUnderway
  BY DEF PInv
<1> QED BY <1>1, WorkInvariant, PTL

-----------------------------------------------------------------------------
(* What retention leaves                                                   *)

LEMMA Least == ASSUME NEW S \in SUBSET Nat, S # {} PROVE \E n \in S : \A m \in S : n <= m
<1> DEFINE R == OpToRel(<, Nat)
<1>1. IsWellFoundedOn(R, Nat)
  BY NatLessThanWellFounded
<1>2. \A a, b \in Nat : a < b => <<a, b>> \in R
  BY DEF OpToRel
<1> HIDE DEF R
<1> PICK x \in S : \A y \in S : ~ (<<y, x>> \in R)
  BY <1>1, WFMin
<1>3. ASSUME NEW y \in S PROVE x <= y
  <2>1. x \in Nat /\ y \in Nat
    OBVIOUS
  <2>2. ~ (y < x)
    BY <1>2, <2>1
  <2> QED BY <2>1, <2>2
<1> QED BY <1>3

LEMMA TimeIs ==
    ASSUME NEW c \in [Packages -> Artifact], NEW p \in Packages
    PROVE  Time(c, p) \in 0..MaxPackages /\ p \in Nat
  BY BackupsAssumption DEF Time, Artifact, Packages

\* Of packages on disk there is a first: the latest time, and of those the first in the table.
LEMMA TopExists ==
    ASSUME NEW c \in [Packages -> Artifact], NEW f \in SUBSET Packages, f # {}
    PROVE  \E k \in f : Top(c, f, k)
<1> DEFINE T(p) == Time(c, p)
           Ages == {MaxPackages - T(p) : p \in f}
<1>0. MaxPackages \in Nat /\ \A p \in f : T(p) \in 0..MaxPackages /\ p \in Nat
  BY TimeIs, BackupsAssumption
<1> HIDE DEF T
<1>1. Ages \in SUBSET Nat /\ Ages # {}
  BY <1>0
<1>2. PICK a \in Ages : \A b \in Ages : a <= b
  BY <1>1, Least
<1>3. PICK m \in f : a = MaxPackages - T(m)
  OBVIOUS
<1>4. \A q \in f : T(q) <= T(m)
  <2> TAKE q \in f
  <2>1. MaxPackages - T(m) <= MaxPackages - T(q)
    BY <1>2, <1>3
  <2> QED BY <1>0, <2>1
<1> DEFINE Last == {p \in f : T(p) = T(m)}
<1>5. Last \in SUBSET Nat /\ Last # {}
  BY <1>0
<1>6. PICK k \in Last : \A q \in Last : k <= q
  BY <1>5, Least
<1>7. ASSUME NEW q \in f \ {k} PROVE T(k) > T(q) \/ (T(k) = T(q) /\ k < q)
  <2>1. T(q) <= T(k) /\ (T(q) = T(k) => k <= q)
    BY <1>4, <1>6
  <2> QED BY <1>0, <2>1
<1> QED BY <1>7 DEF Top, Ahead, T

LEMMA SameTop ==
    ASSUME NEW c, NEW c2, NEW f, NEW f2, NEW k, Top(c, f, k), f2 \subseteq f, k \in f2,
           \A q \in f2 : Time(c2, q) = Time(c, q)
    PROVE  Top(c2, f2, k)
  BY DEF Top, Ahead

\* Reconciliation lists what is on disk, and nothing else, as available.
LEMMA ReconciledSound ==
    ASSUME BackupsTypeOK, SoundLine
    PROVE  /\ Available(Reconciled) = files
           /\ \A p \in files : Reconciled[p].created = Time(catalog, p) /\ Time(Reconciled, p) = Time(catalog, p)
           /\ Sound(Reconciled, files, built)
<1>a. built \in 0..MaxPackages /\ files \subseteq 1..built /\ Sound(catalog, files, built)
  BY DEF BackupsTypeOK, SoundLine
<1>0. /\ files \subseteq Packages /\ built \in Nat /\ Sound(catalog, files, built)
      /\ \A p \in files : p \in Nat /\ p <= built
  BY <1>a, BackupsAssumption DEF Packages
<1>1. ASSUME NEW p \in files
      PROVE  Reconciled[p].status = "available" /\ Reconciled[p].created = Time(catalog, p)
  <2>1. catalog[p] \in Artifact /\ p \in Packages
    BY <1>0 DEF BackupsTypeOK
  <2>2. catalog[p].status \in {"absent", "missing", "available"}
    BY <1>0, <2>1 DEF Sound, Artifact
  <2>3. CASE catalog[p].status = "absent"
    BY <1>0, <2>1, <2>3 DEF Reconciled, Time
  <2>4. CASE catalog[p].status = "missing"
    <3>1. Reconciled[p] = [catalog[p] EXCEPT !.status = "available"]
      BY <1>0, <2>1, <2>4 DEF Reconciled
    <3> QED BY <2>1, <2>4, <3>1 DEF Time, Artifact
  <2>5. CASE catalog[p].status = "available"
    BY <1>0, <2>1, <2>5 DEF Reconciled, Time
  <2> QED BY <2>2, <2>3, <2>4, <2>5
<1>2. ASSUME NEW p \in Packages, p \notin files
      PROVE  /\ Reconciled[p].status # "available" /\ Reconciled[p].created = catalog[p].created
             /\ Reconciled[p].status # "absent" => catalog[p].status # "absent"
  <2>1. catalog[p] \in Artifact
    BY DEF BackupsTypeOK
  <2>2. CASE catalog[p].status = "available"
    <3>1. Reconciled[p] = [catalog[p] EXCEPT !.status = "missing"]
      BY <1>2, <2>2 DEF Reconciled
    <3> QED BY <2>1, <2>2, <3>1 DEF Artifact
  <2>3. CASE catalog[p].status # "available"
    BY <1>2, <2>3 DEF Reconciled
  <2> QED BY <2>2, <2>3
<1>3. Available(Reconciled) = files
  BY <1>0, <1>1, <1>2 DEF Available
<1>4. \A p \in files : Time(Reconciled, p) = Time(catalog, p)
  BY <1>1 DEF Time
<1>5. ASSUME NEW p \in Packages, Reconciled[p].status # "absent"
      PROVE  /\ Reconciled[p].status = "purged" => p \notin files
             /\ p <= Reconciled[p].created /\ Reconciled[p].created <= built
  <2>1. CASE p \in files
    <3>1. p <= Time(catalog, p) /\ Time(catalog, p) <= built
      BY <1>0, <2>1 DEF Sound, Time
    <3> QED BY <1>1, <2>1, <3>1
  <2>2. CASE p \notin files
    BY <1>0, <1>2, <1>5, <2>2 DEF Sound
  <2> QED BY <2>1, <2>2
<1> QED BY <1>1, <1>3, <1>4, <1>5 DEF Sound

\* The first package is the one that a purge leaves out.
LEMMA TopIsLatest ==
    ASSUME BackupsTypeOK, SoundLine, NEW k, Top(catalog, files, k)
    PROVE  k \notin Candidates(Reconciled)
<1> DEFINE L(p) == p \in files /\ \A q \in files \ {p} : Before(Reconciled, p, q)
<1>0. files \subseteq Packages /\ catalog \in [Packages -> Artifact]
  BY BackupsAssumption DEF BackupsTypeOK, Packages
<1>1. \A p, q \in files : Before(Reconciled, p, q) <=> Ahead(catalog, p, q)
  BY ReconciledSound DEF Before, Ahead
<1>2. L(k)
  BY <1>1 DEF Top
<1>3. ASSUME NEW p, L(p) PROVE p = k
  <2> SUFFICES ASSUME p # k PROVE FALSE
    OBVIOUS
  <2>1. p \in Packages /\ k \in Packages
    BY <1>0, <1>2, <1>3
  <2>2. Ahead(catalog, p, k) /\ Ahead(catalog, k, p)
    BY <1>1, <1>2, <1>3
  <2>3. Time(catalog, p) \in Int /\ Time(catalog, k) \in Int /\ p \in Int /\ k \in Int
    BY <1>0, <2>1, TimeIs
  <2> QED BY <2>2, <2>3 DEF Ahead
<1>4. Latest(Reconciled) = CHOOSE p \in files : \A q \in files \ {p} : Before(Reconciled, p, q)
  BY ReconciledSound DEF Latest
<1>5. Latest(Reconciled) = k
  BY <1>2, <1>3, <1>4
<1> QED BY <1>5 DEF Candidates

LEMMA SoundKeeps ==
    ASSUME NEW c \in [Packages -> Artifact], NEW f, NEW n \in Nat, Sound(c, f, n),
           NEW f2, NEW n2 \in Nat, n <= n2, \A p \in f2 : p \in f \/ p > n
    PROVE  Sound(c, f2, n2)
<1> SUFFICES ASSUME NEW p \in Packages, c[p].status # "absent"
             PROVE  /\ c[p].status = "purged" => p \notin f2
                    /\ p <= c[p].created /\ c[p].created <= n2
  BY DEF Sound
<1>1. p \in Int /\ c[p].created \in Int
  BY BackupsAssumption DEF Artifact, Packages
<1> QED BY <1>1 DEF Sound

\* The packages a task works with.
LEMMA TaskPackages ==
    ASSUME TInv, RInv
    PROVE  /\ task.at \in {"saved", "truncated", "imported"} => task.made \in Packages /\ task.made <= built
           /\ task.at \in Phases /\ Kind = "restore" => Source \in Packages /\ Source <= built
<1>0. BackupsTypeOK /\ RequestLine /\ TaskLine /\ built \in Int
  BY DEF TInv, BackupsTypeOK
<1>1. task.at \in {"saved", "truncated", "imported"} => task.made \in Packages /\ task.made <= built
  BY <1>0, HeldIs, PhaseNames DEF RInv, DayLine, TaskLine
<1>2. ASSUME task.at \in Phases, Kind = "restore" PROVE Source \in Packages /\ Source <= built
  <2>1. task # NoTask /\ task.op \in Ops
    BY <1>0, <1>2, HeldIs
  <2>2. Source \in Packages /\ request[task.op].on = {Source}
    BY <1>0, <1>2, <2>1, SourceIs
  <2>3. Source \in 1..built
    BY <2>1, <2>2 DEF RInv, AskedLine
  <2> QED BY <1>0, <2>2, <2>3
<1> QED BY <1>1, <1>2

LEMMA UpsertSound ==
    ASSUME BackupsTypeOK, NEW c \in [Packages -> Artifact], NEW p \in Packages, p <= built,
           Sound(c, files, built)
    PROVE  Sound(Upsert(c, p), files, built)
<1> DEFINE new == [status |-> "available",
                   created |-> IF c[p].status = "absent" THEN built ELSE c[p].created]
<1>0. built \in Nat
  BY DEF BackupsTypeOK
<1>1. Upsert(c, p) = [c EXCEPT ![p] = new]
  BY DEF Upsert
<1>2. new.status = "available" /\ p <= new.created /\ new.created <= built
  BY <1>0 DEF Sound
<1> HIDE DEF new
<1> QED BY <1>1, <1>2 DEF Sound

LEMMA SoundListed ==
    ASSUME NEW c \in [Packages -> Artifact], NEW f, NEW n \in Nat, Sound(c, f, n),
           NEW p \in Packages, p <= n
    PROVE  Sound([c EXCEPT ![p] = [status |-> "available", created |-> p]], f, n)
<1>1. p \in Int
  BY BackupsAssumption DEF Packages
<1> QED BY <1>1 DEF Sound

LEMMA EmptySound == \A f, n : Sound(Empty.catalog, f, n)
  BY DEF Sound, Empty, NoArtifact

LEMMA SoundLineStep == ASSUME TInv, RInv, [Next]_vars PROVE SoundLine'
<1>0. /\ BackupsTypeOK /\ SoundLine /\ Sound(catalog, files, built) /\ TaskLine
      /\ built \in Nat /\ catalog \in [Packages -> Artifact]
      /\ \A d \in Packages : Sound(dump[d].catalog, files, built) /\ dump[d].catalog \in [Packages -> Artifact]
  BY DEF TInv, RInv, SoundLine, BackupsTypeOK, Tables
<1>1. ASSUME UNCHANGED <<built, files, dump>>, Sound(catalog', files, built) PROVE SoundLine'
  BY <1>0, <1>1 DEF SoundLine
<1>2. CASE Quiet
  BY <1>0, <1>1, <1>2, QuietIs, ReconciledSound DEF disk
<1>3. CASE BuildBackup \/ SaveBeforeRestore
  <2>1. /\ built' = built + 1 /\ built + 1 \in Packages /\ files' = files \cup {built + 1}
        /\ dump' = [dump EXCEPT ![built + 1] = [row |-> row, catalog |-> catalog]]
    BY <1>0, <1>3, BuildType DEF BuildBackup, SaveBeforeRestore, Build
  <2>2. \A c \in [Packages -> Artifact] : Sound(c, files, built) => Sound(c, files', built')
    BY <1>0, <2>1, SoundKeeps
  <2>3. Sound(catalog', files', built')
    <3>1. CASE BuildBackup
      BY <1>0, <2>2, <3>1 DEF BuildBackup, tables
    <3>2. CASE SaveBeforeRestore
      <4>1. catalog' = [catalog EXCEPT ![built + 1] = [status |-> "available", created |-> built + 1]]
        BY <3>2 DEF SaveBeforeRestore
      <4>2. Sound(catalog, files', built')
        BY <1>0, <2>2
      <4>3. built' \in Nat /\ built + 1 <= built'
        BY <1>0, <2>1
      <4> QED BY <1>0, <2>1, <4>1, <4>2, <4>3, SoundListed
    <3> QED BY <1>3, <3>1, <3>2
  <2>4. ASSUME NEW d \in Packages PROVE Sound(dump'[d].catalog, files', built')
    <3>1. dump'[d] = IF d = built + 1 THEN [row |-> row, catalog |-> catalog] ELSE dump[d]
      BY <1>0, <2>1 DEF BackupsTypeOK
    <3> QED BY <1>0, <2>2, <3>1
  <2> QED BY <2>3, <2>4 DEF SoundLine
<1>4. CASE RegisterBackup
  <2>1. /\ catalog' = [catalog EXCEPT ![task.made] = [status |-> "available", created |-> task.made]]
        /\ UNCHANGED disk /\ task.at = "saved"
    BY <1>4 DEF RegisterBackup
  <2>2. task.made \in Packages /\ task.made <= built
    BY <2>1, TaskPackages
  <2> QED BY <1>0, <1>1, <2>1, <2>2, SoundListed DEF disk
<1>5. ASSUME NEW p \in Packages, PurgeOne(p) PROVE SoundLine'
  <2>1. built' = built /\ dump' = dump /\ files' \subseteq files
    BY <1>5 DEF PurgeOne
  <2>2. \A c \in [Packages -> Artifact] : Sound(c, files, built) => Sound(c, files', built)
    BY <1>0, <2>1, SoundKeeps
  <2>3. \/ catalog' = catalog
        \/ p \notin files' /\ catalog' = [catalog EXCEPT ![p].status = "purged"] /\ catalog[p].status # "absent"
    BY <1>5 DEF PurgeOne
  <2>4. ASSUME p \notin files', catalog' = [catalog EXCEPT ![p].status = "purged"], catalog[p].status # "absent"
        PROVE  Sound(catalog', files', built)
    <3>1. catalog[p] \in Artifact
      BY <1>0
    <3>2. /\ catalog'[p].status = "purged" /\ catalog'[p].created = catalog[p].created
          /\ \A q \in Packages \ {p} : catalog'[q] = catalog[q]
      BY <1>0, <2>4, <3>1 DEF Artifact
    <3>3. Sound(catalog, files', built)
      BY <1>0, <2>2
    <3> QED BY <2>4, <3>2, <3>3 DEF Sound
  <2>5. Sound(catalog', files', built)
    BY <1>0, <2>2, <2>3, <2>4
  <2> QED BY <1>0, <2>1, <2>2, <2>5 DEF SoundLine
<1>6. CASE Truncate
  BY <1>1, <1>6, EmptySound DEF Truncate, disk
<1>7. ASSUME Source \in Packages PROVE Sound(ImportedCatalog, files, built)
  <2>1. \A p \in Packages : ImportedCatalog[p] \in {catalog[p], dump[Source].catalog[p]}
    BY DEF ImportedCatalog
  <2>2. Sound(dump[Source].catalog, files, built)
    BY <1>0, <1>7
  <2> QED BY <1>0, <2>1, <2>2 DEF Sound
<1>8. task.at \in {"truncated", "imported"} => Source \in Packages /\ Source <= built
  BY <1>0, TaskPackages, HeldIs, PhaseNames DEF TaskLine
<1>9. CASE Import
  BY <1>1, <1>7, <1>8, <1>9 DEF Import, disk
<1>10. CASE RegisterRestore
  <2>1. catalog' = Upsert(Upsert(catalog, Source), task.made) /\ task.at = "imported" /\ UNCHANGED disk
    BY <1>10 DEF RegisterRestore
  <2>2. /\ Source \in Packages /\ Source <= built
        /\ task.made \in Packages /\ task.made <= built
    BY <1>8, <2>1, TaskPackages
  <2>3. Upsert(catalog, Source) \in [Packages -> Artifact] /\ Sound(Upsert(catalog, Source), files, built)
    BY <1>0, <2>2, UpsertIs, UpsertSound
  <2>4. Sound(catalog', files, built)
    BY <1>0, <2>1, <2>2, <2>3, UpsertSound
  <2> QED BY <1>1, <2>1, <2>4 DEF disk
<1>11. CASE Fail
  <2> PICK left \in Leftovers :
              /\ task.at \in Phases \ {"failed"} /\ catalog' = left[2]
              /\ UNCHANGED <<stray, request, built, files, dump, cutoff, queue, backend, pending, doubled>>
    BY <1>0, <1>11, FailIs DEF TInv
  <2>1. left[2] \in {catalog, Empty.catalog} \/ (task.at = "truncated" /\ left[2] = ImportedCatalog)
    BY <1>0, HeldIs, LeftoversAre DEF TInv
  <2> QED BY <1>0, <1>1, <1>7, <1>8, <2>1, EmptySound
<1> QED BY <1>2, <1>3, <1>4, <1>5, <1>6, <1>9, <1>10, <1>11 DEF Next, TaskStep, Quiet

\* Requests made earlier stay as they are; new ones leave the disk and the task alone.
LEMMA NewRequest ==
    ASSUME TInv, NEW kind \in Kinds, NEW on \in SUBSET Packages, Insert(kind, on)
    PROVE  \E o \in Ops : /\ request[o] = NoRequest /\ request'[o] = [kind |-> kind, on |-> on]
                          /\ \A x \in Ops \ {o} : request'[x] = request[x]
                          /\ pushing' = pushing \cup {o}
                          /\ UNCHANGED <<disk, cutoff, queue, pending, task>>
<1> PICK o \in Ops : /\ request[o] = NoRequest /\ pushing' = pushing \cup {o}
                     /\ request' = [request EXCEPT ![o] = [kind |-> kind, on |-> on]]
                     /\ UNCHANGED <<disk, cutoff, queue, pending, task>>
  BY DEF Insert, worker
<1>1. request \in [Ops -> Request]
  BY DEF TInv, BackupsTypeOK
<1> QED BY <1>1

LEMMA NotSoFar ==
    ASSUME task' = NoTask \/ task'.at \in {"working", "purging", "registered", "failed"},
           cutoff' = cutoff, built' = built, DayLine
    PROVE  DayLine'
  BY NoTaskAt DEF DayLine, Phases

LEMMA DayLineStep == ASSUME TInv, RInv, [Next]_vars PROVE DayLine'
<1>0. /\ BackupsTypeOK /\ TaskLine /\ RequestLine /\ DayLine
      /\ built \in Nat /\ cutoff \in Nat /\ cutoff <= built + 1
  BY BackupsAssumption DEF TInv, RInv, DayLine, BackupsTypeOK
<1>1. CASE \/ Refresh \/ RequestBackup \/ RequestPurge \/ UNCHANGED vars \/ Pop
           \/ \E p \in Packages : RequestDelete(p) \/ RequestRestore(p)
           \/ \E o \in Ops : Enqueue(o) \/ Cancel(o) \/ CancelEnds(o) \/ CancelFails(o)
  <2>1. UNCHANGED <<task, cutoff, built>>
    BY <1>1 DEF Refresh, RequestBackup, RequestPurge, RequestDelete, RequestRestore, Insert, Enqueue, Push, PushFails, PushTimesOut, MarkEnqueueFailed, Cancel,
       CancelEnds, CancelFails, Pop, vars, worker, disk
  <2> QED BY <1>0, <2>1 DEF DayLine
<1>2. CASE Begin
  <2>1. task'.at \in {"working", "purging", "failed"} /\ cutoff' = cutoff /\ built' = built
    BY <1>0, <1>2, BeginIs DEF disk
  <2> QED BY <1>0, <2>1, NotSoFar
<1>3. CASE Finish \/ RetryOrBury \/ Crash
  <2>1. task' = NoTask /\ cutoff' = cutoff /\ built' = built
    BY <1>3 DEF Finish, RetryOrBury, Crash, disk
  <2> QED BY <1>0, <2>1, NotSoFar
<1>4. CASE DayPasses
  <2>1. task' = NoTask /\ cutoff' = built + 1 /\ built' = built
    BY <1>4 DEF DayPasses, disk, worker
  <2> QED BY <1>0, <2>1, NoTaskAt DEF DayLine, Phases
<1>5. CASE BuildBackup \/ SaveBeforeRestore
  <2>1. /\ built' = built + 1 /\ cutoff' = cutoff /\ built + 1 \in 0..MaxPackages
        /\ task' = [task EXCEPT !.at = "saved", !.made = built + 1] /\ task.at = "working"
    BY <1>0, <1>5, BuildType DEF BuildBackup, SaveBeforeRestore
  <2>2. task'.made = built + 1
    BY <1>0, <2>1, MadePhase, PhaseNames
  <2> QED BY <1>0, <2>1, <2>2 DEF DayLine
<1>6. CASE RegisterBackup \/ PurgeEnds \/ RegisterRestore \/ Fail
  <2>1. \E at \in {"registered", "failed"} : task' = [task EXCEPT !.at = at]
    BY <1>6 DEF RegisterBackup, PurgeEnds, RegisterRestore, Fail
  <2>2. task.at \in Phases /\ cutoff' = cutoff /\ built' = built
    BY <1>6, PhaseNames DEF RegisterBackup, PurgeEnds, RegisterRestore, Fail, disk
  <2>3. task'.at \in {"registered", "failed"}
    BY <1>0, <2>1, <2>2, NewPhase, PhaseNames
  <2> QED BY <1>0, <2>2, <2>3, NotSoFar
<1>7. ASSUME NEW p \in Packages, PurgeOne(p) PROVE DayLine'
  <2>1. /\ task.left \ {p} \in SUBSET Packages /\ task.at = "purging"
        /\ cutoff' = cutoff /\ built' = built
    BY <1>0, <1>7, HeldIs, PhaseNames DEF PurgeOne, Held
  <2>2. \/ task' = [task EXCEPT !.left = task.left \ {p}]
        \/ task' = [task EXCEPT !.left = task.left \ {p}, !.bad = TRUE]
    BY <1>7 DEF PurgeOne
  <2>3. task'.at = "purging"
    BY <1>0, <2>1, <2>2, LessLeft, PhaseNames
  <2> QED BY <1>0, <2>1, <2>3, NotSoFar
<1>8. CASE Truncate \/ Import
  <2>1. /\ \E at \in {"truncated", "imported"} : task' = [task EXCEPT !.at = at]
        /\ task.at \in {"saved", "truncated"} /\ cutoff' = cutoff /\ built' = built
    BY <1>8 DEF Truncate, Import, disk
  <2>2. task'.made = task.made
    BY <1>0, <2>1, NewPhase, PhaseNames
  <2> QED BY <1>0, <2>1, <2>2 DEF DayLine
<1> QED BY <1>1, <1>2, <1>3, <1>4, <1>5, <1>6, <1>7, <1>8 DEF Next, TaskStep

LEMMA AskedLineStep == ASSUME TInv, RInv, [Next]_vars PROVE AskedLine'
<1>0. /\ BackupsTypeOK /\ AskedLine /\ SoundLine /\ cutoff <= built + 1
      /\ built \in Nat /\ cutoff \in Nat /\ MaxPackages \in Nat
      /\ files \subseteq 1..built /\ files \subseteq Packages /\ catalog \in [Packages -> Artifact]
  BY BackupsAssumption DEF TInv, RInv, DayLine, BackupsTypeOK, Packages
<1>1. ASSUME NEW kind \in Kinds, NEW on \in SUBSET (1..built), Insert(kind, on), deleted => deleted',
             kind = "purge" /\ ~ deleted' => \A p \in on : p < cutoff
      PROVE  AskedLine'
  <2>0. on \in SUBSET Packages
    BY <1>0 DEF BackupsTypeOK, Packages
  <2> PICK o \in Ops : /\ request'[o] = [kind |-> kind, on |-> on]
                       /\ \A x \in Ops \ {o} : request'[x] = request[x]
                       /\ UNCHANGED <<disk, cutoff>>
    BY <1>1, <2>0, NewRequest
  <2> QED BY <1>0, <1>1 DEF AskedLine, disk
<1>2. "backup" \in Kinds /\ "purge" \in Kinds /\ "restore" \in Kinds
  BY DEF Kinds
<1>3. CASE RequestBackup
  <2>1. Insert("backup", {}) /\ deleted' = deleted
    BY <1>3 DEF RequestBackup
  <2> QED BY <1>1, <1>2, <2>1
<1>4. CASE RequestPurge
  <2>1. Candidates(Reconciled) \subseteq files /\ \A p \in Candidates(Reconciled) : p < cutoff
    <3>1. \A p \in Candidates(Reconciled) : p \in files /\ Reconciled[p].created < cutoff
      BY <1>0, ReconciledSound DEF Candidates
    <3>2. \A p \in files : /\ Reconciled[p].status # "absent" /\ Reconciled[p] \in Artifact
                           /\ p <= Reconciled[p].created
      BY <1>0, ReconciledSound, ReconciledIs DEF Available, Sound
    <3>3. \A p \in files : p \in Int /\ Reconciled[p].created \in Int
      BY <1>0, <3>2 DEF Artifact
    <3>4. ASSUME NEW p \in Candidates(Reconciled) PROVE p < cutoff
      <4>1. p \in files
        BY <3>1
      <4> QED BY <1>0, <3>1, <3>2, <3>3, <4>1
    <3> QED BY <3>1, <3>4
  <2>2. Insert("purge", Candidates(Reconciled)) /\ deleted' = deleted
    BY <1>4 DEF RequestPurge
  <2> QED BY <1>0, <1>1, <1>2, <2>1, <2>2
<1>5. ASSUME NEW p \in Packages, RequestDelete(p) \/ RequestRestore(p) PROVE AskedLine'
  <2>1. Reconciled[p].status # "absent"
    BY <1>5 DEF RequestDelete, RequestRestore
  <2>2. p <= Reconciled[p].created /\ Reconciled[p].created <= built /\ Reconciled[p] \in Artifact
    BY <1>0, <2>1, ReconciledSound, ReconciledIs DEF Sound
  <2>3. p \in 1..built
    BY <1>0, <2>2 DEF Packages, Artifact
  <2>4. CASE RequestDelete(p)
    <3>1. Insert("purge", {p}) /\ deleted'
      BY <2>4 DEF RequestDelete
    <3> QED BY <1>1, <1>2, <2>3, <3>1
  <2>5. CASE RequestRestore(p)
    <3>1. Insert("restore", {p}) /\ deleted' = deleted
      BY <2>5 DEF RequestRestore
    <3> QED BY <1>1, <1>2, <2>3, <3>1
  <2> QED BY <1>5, <2>4, <2>5
<1>6. ASSUME request' = request, deleted' = deleted, built <= built', built' \in Int,
             cutoff <= cutoff', cutoff' \in Int
      PROVE  AskedLine'
  <2>1. \A o \in Ops : request[o].on \subseteq 1..built
    BY <1>0 DEF AskedLine
  <2>2. 1..built \subseteq 1..built'
    BY <1>0, <1>6
  <2>3. \A p \in 1..built : p < cutoff => p < cutoff'
    BY <1>0, <1>6
  <2> QED BY <1>0, <1>6, <2>1, <2>2, <2>3 DEF AskedLine
<1>7. CASE BuildBackup \/ SaveBeforeRestore
  <2>1. built' = built + 1 /\ request' = request /\ deleted' = deleted /\ cutoff' = cutoff
    BY <1>0, <1>7, BuildType DEF BuildBackup, SaveBeforeRestore, backend
  <2> QED BY <1>0, <1>6, <2>1
<1>8. CASE DayPasses
  <2>1. built' = built /\ request' = request /\ deleted' = deleted /\ cutoff < cutoff' /\ cutoff' = built + 1
    BY <1>8 DEF DayPasses, backend, disk
  <2> QED BY <1>0, <1>6, <2>1
<1>9. CASE Begin
  <2>1. UNCHANGED <<built, request, deleted, cutoff>>
    BY <1>0, <1>9, BeginIs DEF backend, disk
  <2> QED BY <1>0, <1>6, <2>1
<1>10. CASE \/ Refresh \/ UNCHANGED vars \/ Pop
            \/ \E o \in Ops : Enqueue(o) \/ Cancel(o) \/ CancelEnds(o) \/ CancelFails(o)
  <2>1. UNCHANGED <<built, request, deleted, cutoff>>
    BY <1>10 DEF Refresh, Enqueue, Push, PushFails, PushTimesOut, MarkEnqueueFailed, Cancel, CancelEnds, CancelFails, Pop, vars, backend, disk
  <2> QED BY <1>0, <1>6, <2>1
<1>11. CASE \/ Finish \/ RetryOrBury \/ Crash \/ \E p \in Packages : PurgeOne(p)
            \/ RegisterBackup \/ PurgeEnds \/ RegisterRestore \/ Fail \/ Truncate \/ Import
  <2>1. UNCHANGED <<built, request, deleted, cutoff>>
    BY <1>11 DEF Finish, RetryOrBury, Crash, PurgeOne, RegisterBackup, PurgeEnds, RegisterRestore, Fail,
       Truncate, Import, backend, disk
  <2> QED BY <1>0, <1>6, <2>1
<1> QED BY <1>3, <1>4, <1>5, <1>7, <1>8, <1>9, <1>10, <1>11 DEF Next, TaskStep

LEMMA LeftLineStep == ASSUME TInv, RInv, [Next]_vars PROVE LeftLine'
<1>0. BackupsTypeOK /\ TaskLine /\ RequestLine /\ LeftLine
  BY DEF TInv, RInv
<1>1. task # NoTask => task.op \in Ops /\ request'[task.op] = request[task.op]
  BY <1>0, RequestsGrow, HeldIs DEF TaskLine
<1>2. task.at = "purging" => task # NoTask
  BY <1>0, HeldIs, PhaseNames
<1>3. CASE task' = task
  BY <1>0, <1>1, <1>2, <1>3 DEF LeftLine
<1>4. CASE task'.at # "purging"
  BY <1>4 DEF LeftLine
<1>5. CASE \/ Refresh \/ RequestBackup \/ RequestPurge \/ DayPasses \/ UNCHANGED vars \/ Pop
           \/ \E p \in Packages : RequestDelete(p) \/ RequestRestore(p)
           \/ \E o \in Ops : Enqueue(o) \/ Cancel(o) \/ CancelEnds(o) \/ CancelFails(o)
  <2>1. task' = task
    BY <1>5 DEF Refresh, RequestBackup, RequestPurge, RequestDelete, RequestRestore, Insert, DayPasses,
       Enqueue, Push, PushFails, PushTimesOut, MarkEnqueueFailed, Cancel, CancelEnds, CancelFails, Pop, vars, worker
  <2> QED BY <1>3, <2>1
<1>6. CASE Begin
  <2>1. task'.left = request[Head(pending).op].on /\ task'.op = Head(pending).op /\ request' = request
    BY <1>6 DEF Begin
  <2> QED BY <2>1 DEF LeftLine
<1>7. CASE Finish \/ RetryOrBury \/ Crash
  <2>1. task' = NoTask
    BY <1>7 DEF Finish, RetryOrBury, Crash
  <2> QED BY <1>4, <2>1, NoTaskAt, PhaseNames
<1>8. CASE BuildBackup \/ SaveBeforeRestore
  <2>1. /\ built + 1 \in 0..MaxPackages /\ task.at = "working"
        /\ task' = [task EXCEPT !.at = "saved", !.made = built + 1]
    BY <1>0, <1>8, BuildType DEF BuildBackup, SaveBeforeRestore
  <2>2. task'.at = "saved"
    BY <1>0, <2>1, MadePhase, PhaseNames
  <2> QED BY <1>4, <2>2
<1>9. ASSUME NEW p \in Packages, PurgeOne(p) PROVE LeftLine'
  <2>1. /\ task.left \ {p} \in SUBSET Packages /\ task.at = "purging" /\ task \in Held
    BY <1>0, <1>9, HeldIs, PhaseNames DEF PurgeOne, Held
  <2>2. \/ task' = [task EXCEPT !.left = task.left \ {p}]
        \/ task' = [task EXCEPT !.left = task.left \ {p}, !.bad = TRUE]
    BY <1>9 DEF PurgeOne
  <2>3. task'.op = task.op
    BY <1>0, <2>1, <2>2, LessLeft, PhaseNames
  <2>4. task'.left = task.left \ {p}
    BY <2>1, <2>2 DEF Held
  <2>5. request'[task.op] = request[task.op] /\ task.left \subseteq request[task.op].on
    BY <1>0, <1>1, <1>2, <2>1 DEF LeftLine
  <2> QED BY <2>3, <2>4, <2>5 DEF LeftLine
<1>10. CASE RegisterBackup \/ PurgeEnds \/ RegisterRestore \/ Truncate \/ Import \/ Fail
  <2>1. \E at \in {"truncated", "imported", "registered", "failed"} : task' = [task EXCEPT !.at = at]
    BY <1>10 DEF RegisterBackup, PurgeEnds, RegisterRestore, Truncate, Import, Fail
  <2>2. task.at \in Phases
    BY <1>10, PhaseNames DEF RegisterBackup, PurgeEnds, RegisterRestore, Truncate, Import, Fail
  <2>3. task'.at # "purging"
    BY <1>0, <2>1, <2>2, NewPhase, PhaseNames
  <2> QED BY <1>4, <2>3
<1> QED BY <1>5, <1>6, <1>7, <1>8, <1>9, <1>10 DEF Next, TaskStep

\* Work is on what was requested before.
LEMMA UnderwayBack ==
    ASSUME TInv, [Next]_vars, NEW o \in Ops, Underway(o)', request[o] # NoRequest
    PROVE  Underway(o)
<1>0. queue \in Seq(Job) /\ pending \in Seq(Job)
  BY DEF TInv, BackupsTypeOK
<1>1. o \in pushing' \/ In(queue', o) \/ In(pending', o) \/ (task' # NoTask /\ task'.op = o)
  BY DEF Underway, In
<1>2. Underway(o) <=> o \in pushing \/ In(queue, o) \/ In(pending, o) \/ (task # NoTask /\ task.op = o)
  BY UnderwayIs DEF Tasked
<1>3. CASE \/ Refresh \/ DayPasses \/ UNCHANGED vars \/ \E x \in Ops : Cancel(x)
  BY <1>1, <1>2, <1>3, Bystander
<1>4. CASE \/ RequestBackup \/ RequestPurge
           \/ \E p \in Packages : RequestDelete(p) \/ RequestRestore(p)
  BY <1>1, <1>2, <1>4, InsertIs
<1>5. ASSUME NEW x \in Ops, Enqueue(x) PROVE Underway(o)
  <2>1. /\ pushing' \subseteq pushing /\ UNCHANGED <<pending, task>>
        /\ \/ queue' = queue
           \/ x \in pushing /\ \E j \in Job : j.op = x /\ queue' = Append(queue, j)
    BY <1>5, EnqueueIs
  <2>a. ASSUME NEW j \in Job, j.op = x, queue' = Append(queue, j)
        PROVE  In(queue', o) => In(queue, o) \/ o = x
    BY <1>0, <2>a, InAppend
  <2>2. In(queue', o) => In(queue, o) \/ (o = x /\ x \in pushing)
    BY <2>1, <2>a
  <2> QED BY <1>1, <1>2, <2>1, <2>2
<1>6. ASSUME NEW x \in Ops, CancelEnds(x) \/ CancelFails(x) PROVE Underway(o)
  <2>1. UNCHANGED <<pushing, pending, task>> /\ queue' \in {queue, Without(x)}
    BY <1>6 DEF CancelEnds, CancelFails, worker
  <2>2. In(queue', o) => In(queue, o)
    BY <1>0, <2>1, InWithout
  <2> QED BY <1>1, <1>2, <2>1, <2>2
<1>7. CASE Pop
  <2>1. queue # <<>> /\ queue' = Tail(queue) /\ pending' \in {pending, Append(pending, Head(queue))}
        /\ UNCHANGED <<pushing, task>> /\ Head(queue) \in Job
    BY <1>0, <1>7, HeadTailProperties DEF Pop, backend
  <2>2. (In(queue', o) => In(queue, o)) /\ (Head(queue).op = o => In(queue, o))
    BY <1>0, <2>1, InTail
  <2>3. In(Append(pending, Head(queue)), o) => In(pending, o) \/ Head(queue).op = o
    BY <1>0, <2>1, InAppend
  <2> QED BY <1>1, <1>2, <2>1, <2>2, <2>3
<1>8. CASE Begin
  <2>1. /\ pending # <<>> /\ pending' = Tail(pending) /\ task'.op = Head(pending).op
        /\ UNCHANGED <<queue, pushing>>
    BY <1>8, BeginsIs
  <2>2. (In(pending', o) => In(pending, o)) /\ (task'.op = o => In(pending, o))
    BY <1>0, <2>1, InTail
  <2> QED BY <1>1, <1>2, <2>1, <2>2
<1>9. CASE Finish
  <2>1. task' = NoTask /\ UNCHANGED <<pending, pushing>> /\ queue' \in {queue, <<>>}
    BY <1>9 DEF Finish, backend
  <2>2. In(queue', o) => In(queue, o)
    BY <2>1 DEF In
  <2> QED BY <1>1, <1>2, <2>1, <2>2
<1>10. CASE RetryOrBury
  <2>1. /\ task # NoTask /\ task' = NoTask /\ UNCHANGED <<pushing, pending>>
        /\ In(queue', o) => In(queue, o) \/ o = task.op
    BY <1>10, RetryIs
  <2> QED BY <1>1, <1>2, <2>1
<1>11. CASE Crash
  <2>1. task' = NoTask /\ pending' = <<>> /\ UNCHANGED <<queue, pushing>>
    BY <1>11 DEF Crash, backend
  <2>2. ~ In(pending', o)
    BY <2>1 DEF In
  <2> QED BY <1>1, <1>2, <2>1, <2>2
<1>12. CASE \/ BuildBackup \/ RegisterBackup \/ PurgeEnds \/ SaveBeforeRestore
            \/ \E p \in Packages : PurgeOne(p)
            \/ Truncate \/ Import \/ RegisterRestore \/ Fail
  <2>1. UNCHANGED <<queue, pending, backend>> /\ task # NoTask /\ task'.op = task.op
    BY <1>12, TaskStays
  <2> QED BY <1>1, <1>2, <2>1 DEF backend
<1> QED BY <1>3, <1>4, <1>5, <1>6, <1>7, <1>8, <1>9, <1>10, <1>11, <1>12 DEF Next, TaskStep

LEMMA SparedStep ==
    ASSUME TInv, [Next]_vars, NEW k, Spared(k),
           \A o \in Ops : request[o] = NoRequest /\ request'[o].kind = "purge" => k \notin request'[o].on
    PROVE  Spared(k)'
<1> SUFFICES ASSUME NEW o \in Ops, request'[o].kind = "purge", Underway(o)'
             PROVE  k \notin request'[o].on
  BY DEF Spared
<1>1. CASE request[o] # NoRequest
  BY <1>1, RequestsGrow, UnderwayBack DEF Spared
<1>2. CASE request[o] = NoRequest
  BY <1>2
<1> QED BY <1>1, <1>2

\* A new purge leaves out the first package, unless somebody asked to delete it.
LEMMA NewPurge ==
    ASSUME TInv, SoundLine, [Next]_vars, ~ deleted', NEW k, Top(catalog, files, k)
    PROVE  \A o \in Ops : request[o] = NoRequest /\ request'[o].kind = "purge" => k \notin request'[o].on
<1>0. BackupsTypeOK /\ "backup" \in Kinds /\ "purge" \in Kinds /\ "restore" \in Kinds /\ NoRequest.kind = "none"
  BY DEF TInv, Kinds, NoRequest
<1>1. CASE request' = request
  BY <1>0, <1>1
<1>2. ASSUME NEW kind \in Kinds, NEW on \in SUBSET Packages, Insert(kind, on), kind = "purge" => k \notin on
      PROVE  \A o \in Ops : request[o] = NoRequest /\ request'[o].kind = "purge" => k \notin request'[o].on
  <2> PICK x \in Ops : /\ request'[x] = [kind |-> kind, on |-> on]
                       /\ \A y \in Ops \ {x} : request'[y] = request[y]
    BY <1>2, NewRequest
  <2> QED BY <1>0, <1>2
<1>3. CASE RequestBackup
  BY <1>0, <1>2, <1>3 DEF RequestBackup
<1>4. CASE RequestPurge
  <2>1. Insert("purge", Candidates(Reconciled)) /\ Candidates(Reconciled) \in SUBSET Packages
    BY <1>4 DEF RequestPurge, Candidates, Available
  <2>2. k \notin Candidates(Reconciled)
    BY <1>0, TopIsLatest
  <2> QED BY <1>0, <1>2, <2>1, <2>2
<1>5. ASSUME NEW p \in Packages, RequestDelete(p) \/ RequestRestore(p)
      PROVE  \A o \in Ops : request[o] = NoRequest /\ request'[o].kind = "purge" => k \notin request'[o].on
  <2>1. Insert("restore", {p}) /\ {p} \in SUBSET Packages /\ "restore" # "purge"
    BY <1>5 DEF RequestDelete, RequestRestore
  <2> QED BY <1>0, <1>2, <2>1
<1>6. CASE \/ Refresh \/ \E o \in Ops : Enqueue(o) \/ Cancel(o) \/ CancelEnds(o) \/ CancelFails(o)
           \/ Pop \/ Crash \/ DayPasses \/ UNCHANGED vars
  BY <1>1, <1>6 DEF Refresh, Enqueue, Push, PushFails, PushTimesOut, MarkEnqueueFailed, Cancel, CancelEnds, CancelFails, Pop, Crash, DayPasses, vars
<1>7. CASE TaskStep
  BY <1>1, <1>7 DEF TaskStep, Begin, BuildBackup, RegisterBackup, PurgeEnds, PurgeOne, SaveBeforeRestore,
     Truncate, Import, RegisterRestore, Finish, Fail, RetryOrBury
<1> QED BY <1>3, <1>4, <1>5, <1>6, <1>7 DEF Next

\* A purge of the retention takes a package past it from the disk, and none that is spared.
LEMMA PurgeTakes ==
    ASSUME TInv, RInv, NEW p \in Packages, PurgeOne(p), ~ deleted
    PROVE  /\ files' \in {files, files \ {p}} /\ built' = built /\ cutoff' = cutoff
           /\ p < cutoff /\ \A k : Spared(k) => k # p
           /\ \A q \in files' : Time(catalog', q) = Time(catalog, q)
<1>0. /\ BackupsTypeOK /\ TaskLine /\ LeftLine /\ AskedLine
      /\ task.at = "purging" /\ p \in task.left
      /\ catalog \in [Packages -> Artifact] /\ files \subseteq Packages
  BY BackupsAssumption DEF TInv, RInv, PurgeOne, BackupsTypeOK, Packages
<1>1. task # NoTask /\ task.op \in Ops /\ p \in request[task.op].on /\ request[task.op].kind = "purge"
  BY <1>0, HeldIs, PhaseNames DEF LeftLine, TaskLine, Kind
<1>2. p < cutoff
  BY <1>0, <1>1 DEF AskedLine
<1>3. Underway(task.op)
  BY <1>1 DEF Underway
<1>4. /\ files' \in {files, files \ {p}} /\ built' = built /\ cutoff' = cutoff
      /\ \/ catalog' = catalog
         \/ /\ catalog' = [catalog EXCEPT ![p].status = "purged"]
            /\ files' = files \ {p}
  BY DEF PurgeOne
<1>5. ASSUME NEW q \in files' PROVE Time(catalog', q) = Time(catalog, q)
  <2>1. q \in Packages
    BY <1>0, <1>4
  <2>2. catalog'[q] = catalog[q]
    BY <1>0, <1>4, <1>5, <2>1
  <2> QED BY <2>2 DEF Time
<1> QED BY <1>1, <1>2, <1>3, <1>4, <1>5 DEF Spared

\* No day passes while somebody is at work.
LEMMA NobodyAtWork ==
    ASSUME TInv, DayPasses, NEW k
    PROVE  Spared(k)'
<1>1. pushing' = {} /\ queue' = <<>> /\ pending' = <<>> /\ task' = NoTask
  BY DEF DayPasses, backend, worker
<1> QED BY <1>1 DEF Spared, Underway

LEMMA KeepLineStep == ASSUME TInv, RInv, [Next]_vars PROVE KeepLine'
<1>0. /\ BackupsTypeOK /\ SoundLine /\ DayLine /\ KeepLine /\ TaskLine /\ RequestLine
      /\ built \in Nat /\ cutoff \in Nat /\ cutoff <= built + 1
      /\ files \in SUBSET Packages /\ catalog \in [Packages -> Artifact]
  BY BackupsAssumption DEF TInv, RInv, DayLine, BackupsTypeOK, Packages
<1> SUFFICES ASSUME ~ deleted' PROVE KeepLine'
  BY DEF KeepLine
<1> DEFINE First(k) == k \in files /\ Top(catalog, files, k) /\ Spared(k)
<1>1. CASE BuildBackup \/ SaveBeforeRestore
  <2>1. built' = built + 1 /\ files' = files \cup {built + 1} /\ cutoff' = cutoff
    BY <1>1 DEF BuildBackup, SaveBeforeRestore, Build
  <2> QED BY <1>0, <2>1 DEF KeepLine
<1>2. CASE DayPasses
  <2>1. UNCHANGED <<catalog, disk, deleted>> /\ cutoff <= built /\ cutoff' = built + 1
    BY <1>0, <1>2 DEF DayPasses, tables, backend
  <2>2. built \in files
    BY <1>0, <2>1 DEF KeepLine
  <2>3. PICK k \in files : Top(catalog, files, k)
    BY <1>0, <2>2, TopExists
  <2>4. Spared(k)'
    BY <1>2, NobodyAtWork
  <2> QED BY <1>0, <2>1, <2>3, <2>4 DEF KeepLine, disk
<1>3. ASSUME ~ deleted, built' = built, cutoff' = cutoff, files' \subseteq files,
             cutoff <= built /\ built \in files => built \in files',
             \A k : cutoff > built /\ First(k) =>
                 k \in files' /\ \A q \in files' : Time(catalog', q) = Time(catalog, q)
      PROVE  KeepLine'
  <2>1. CASE cutoff <= built
    BY <1>0, <1>3, <2>1 DEF KeepLine
  <2>2. CASE ~ (cutoff <= built)
    <3>1. PICK k \in files : Top(catalog, files, k) /\ Spared(k)
      BY <1>0, <1>3, <2>2 DEF KeepLine
    <3>2. cutoff > built
      BY <1>0, <2>2
    <3>3. k \in files' /\ \A q \in files' : Time(catalog', q) = Time(catalog, q)
      BY <1>3, <3>1, <3>2
    <3>4. Top(catalog', files', k)
      BY <1>3, <3>1, <3>3, SameTop
    <3>5. Spared(k)'
      BY <1>0, <3>1, NewPurge, SparedStep
    <3> QED BY <1>3, <2>2, <3>3, <3>4, <3>5 DEF KeepLine
  <2> QED BY <2>1, <2>2
<1>4. CASE Quiet /\ ~ DayPasses
  <2>1. UNCHANGED <<disk, cutoff>> /\ catalog' \in {catalog, Reconciled} /\ ~ deleted
    BY <1>4, QuietIs
  <2>2. \A q \in files : Time(catalog', q) = Time(catalog, q)
    BY <1>0, <2>1, ReconciledSound
  <2> QED BY <1>3, <2>1, <2>2 DEF disk
<1>5. ASSUME NEW p \in Packages, PurgeOne(p) PROVE KeepLine'
  <2>1. ~ deleted
    BY <1>5 DEF PurgeOne, backend
  <2>2. /\ files' \in {files, files \ {p}} /\ built' = built /\ cutoff' = cutoff
        /\ p < cutoff /\ \A k : Spared(k) => k # p
        /\ \A q \in files' : Time(catalog', q) = Time(catalog, q)
    BY <1>5, <2>1, PurgeTakes
  <2>3. cutoff <= built => p # built
    BY <1>0, <2>2
  <2>4. \A k : First(k) => k \in files'
    BY <2>2
  <2>5. files' \subseteq files /\ (cutoff <= built /\ built \in files => built \in files')
    BY <2>2, <2>3
  <2> QED BY <1>3, <2>1, <2>2, <2>4, <2>5
<1>6. ASSUME UNCHANGED <<built, files, cutoff, deleted>>, catalog' = catalog \/ cutoff <= built
      PROVE  KeepLine'
  <2>1. ~ deleted /\ files' = files /\ built' = built /\ cutoff' = cutoff
    BY <1>6
  <2>2. cutoff > built => catalog' = catalog
    BY <1>0, <1>6
  <2> QED BY <1>3, <2>1, <2>2
<1>7. CASE RegisterBackup \/ Truncate \/ Import \/ RegisterRestore
  <2>1. UNCHANGED <<built, files, cutoff, deleted>> /\ task.at \in {"saved", "truncated", "imported"}
    BY <1>7 DEF RegisterBackup, Truncate, Import, RegisterRestore, disk, backend
  <2> QED BY <1>0, <1>6, <2>1 DEF DayLine
<1>8. CASE Fail
  <2> PICK left \in Leftovers :
              /\ task.at \in Phases \ {"failed"} /\ catalog' = left[2]
              /\ UNCHANGED <<stray, request, built, files, dump, cutoff, queue, backend, pending, doubled>>
    BY <1>0, <1>8, FailIs
  <2>1. left[2] = catalog \/ task.at \in {"saved", "truncated"}
    BY <1>0, HeldIs, LeftoversAre
  <2> QED BY <1>0, <1>6, <2>1 DEF DayLine, backend
<1> QED BY <1>1, <1>2, <1>4, <1>5, <1>7, <1>8 DEF Next, TaskStep, Quiet

LEMMA RetentionInit == Init => RInv
<1> SUFFICES ASSUME Init PROVE RInv
  OBVIOUS
<1>0. /\ FirstPackages \in Nat /\ FirstPackages > 0 /\ MaxPackages \in Nat /\ FirstPackages <= MaxPackages
      /\ built = FirstPackages /\ files = 1..FirstPackages /\ cutoff = FirstPackages + 1
      /\ catalog = Listed(FirstPackages) /\ task = NoTask /\ pushing = {} /\ queue = <<>> /\ pending = <<>>
      /\ files \in SUBSET Packages
  BY BackupsAssumption DEF Init, Packages
<1>1. catalog \in [Packages -> Artifact]
  BY TypeInit DEF BackupsTypeOK
<1>2. \A n \in Int : n <= FirstPackages => Sound(Listed(n), files, built)
  <2> SUFFICES ASSUME NEW n \in Int, n <= FirstPackages, NEW p \in Packages, Listed(n)[p].status # "absent"
               PROVE  /\ Listed(n)[p].status = "purged" => p \notin files
                      /\ p <= Listed(n)[p].created /\ Listed(n)[p].created <= built
    BY DEF Sound
  <2>1. p \in Int
    BY DEF Packages
  <2>2. p <= n /\ Listed(n)[p] = [status |-> "available", created |-> p]
    BY DEF Listed, NoArtifact
  <2> QED BY <1>0, <2>1, <2>2
<1>3. SoundLine
  <2>1. ASSUME NEW d \in Packages PROVE Sound(dump[d].catalog, files, built)
    <3>0. d \in Int
      BY DEF Packages
    <3>1. CASE d <= FirstPackages
      <4>1. dump[d] = [Empty EXCEPT !.catalog = Listed(d - 1)]
        BY <3>1 DEF Init
      <4>2. dump[d].catalog = Listed(d - 1)
        BY <4>1 DEF Empty
      <4>3. d - 1 \in Int /\ d - 1 <= FirstPackages
        BY <1>0, <3>0, <3>1
      <4> QED BY <1>2, <4>2, <4>3
    <3>2. CASE ~ (d <= FirstPackages)
      <4>1. dump[d] = Empty
        BY <3>2 DEF Init
      <4> QED BY <4>1, EmptySound
    <3> QED BY <3>1, <3>2
  <2>2. Sound(catalog, files, built)
    BY <1>0, <1>2
  <2> QED BY <2>1, <2>2 DEF SoundLine
<1>4. DayLine /\ LeftLine
  BY <1>0, NoTaskAt DEF DayLine, LeftLine, Phases
<1>5. AskedLine
  BY DEF Init, AskedLine, NoRequest
<1>6. KeepLine
  <2>0. 1 \in files
    BY <1>0
  <2>1. PICK k \in files : Top(catalog, files, k)
    BY <1>0, <1>1, <2>0, TopExists
  <2>2. Spared(k)
    BY <1>0 DEF Spared, Underway
  <2> QED BY <1>0, <2>1, <2>2 DEF KeepLine
<1> QED BY <1>3, <1>4, <1>5, <1>6 DEF RInv

LEMMA RetentionStep == ASSUME TInv, RInv, [Next]_vars PROVE RInv'
  BY SoundLineStep, DayLineStep, AskedLineStep, LeftLineStep, KeepLineStep DEF RInv

THEOREM RetentionInvariant == Spec => [](TInv /\ RInv)
BY BackupsInit, BackupsStep, RetentionInit, RetentionStep, PTL DEF Spec

\* However purges, backups, restores, their retries and failures interleave, the retention
\* leaves a package that is on disk and not marked as purged.
THEOREM RetentionHolds == Spec => []RetentionKeepsOne
<1>1. TInv /\ RInv => RetentionKeepsOne
  <2> SUFFICES ASSUME TInv, RInv, ~ deleted PROVE \E p \in files : catalog[p].status # "purged"
    BY DEF RetentionKeepsOne
  <2>1. files \subseteq Packages
    BY BackupsAssumption DEF TInv, BackupsTypeOK, Packages
  <2>2. \E k : k \in files
    BY DEF RInv, KeepLine
  <2> QED BY <2>1, <2>2 DEF RInv, SoundLine, Sound
<1> QED BY <1>1, RetentionInvariant, PTL
=============================================================================
