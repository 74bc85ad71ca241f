----------------------------- MODULE JobWorker -----------------------------
(***************************************************************************)
(* The job runtime shared by worker/app/worker.py and                      *)
(* pdf-worker/app/main.py: producers RPUSH envelopes on Redis lists, every *)
(* worker process runs one asyncio loop that BLPOPs its lists in priority  *)
(* order and hands each envelope to a task; tasks queue on a FIFO          *)
(* semaphore, run the handler, retry with attempt + 1 and end on the       *)
(* dead-letter list.  Redis is durable (appendonly yes), everything inside *)
(* a process is memory.                                                    *)
(***************************************************************************)
EXTENDS Integers, Sequences, FiniteSets

CONSTANTS
    Jobs,         \* job_ids
    Queues,       \* Redis lists that are consumed
    Workers,      \* worker processes
    PdfWorkers,   \* those that run pdf-worker/app/main.py: no LTRIM, no client retry
    Slots,        \* places of the semaphore, 1..MAX_CONCURRENT_JOBS
    Priority,     \* Priority[w]: the lists w consumes, most urgent first
    QueueOf,      \* QueueOf[j]: the list the producer of j pushes to
    KindOf,       \* KindOf[j]: what from_raw and the registry make of j
    MaxRetries,   \* MAX_RETRIES
    DlqMax,       \* DLQ_MAX_SIZE
    MaxMishaps,   \* bound on Redis errors, crashes and cancellations
    MaxStops      \* bound on SIGINTs

Kinds == {"handled", "unhandled", "unreadable"}

ASSUME ConstantsAssumption ==
    /\ PdfWorkers \subseteq Workers
    /\ Priority \in [Workers -> Seq(Queues)]
    /\ QueueOf \in [Jobs -> Queues]
    /\ KindOf \in [Jobs -> Kinds]
    /\ "none" \notin Jobs
    /\ MaxRetries \in Nat \ {0}
    /\ DlqMax \in Nat \ {0}
    /\ MaxMishaps \in Nat
    /\ MaxStops \in Nat

VARIABLES
    queue,     \* queue[q]: the envelopes of a Redis list, head first
    dlq,       \* the list queue:dlq
    loop,      \* where the main loop of each process stands
    hand,      \* the envelope a process has popped and not yet made a task
    waiting,   \* tasks of a process waiting for the semaphore, in order
    slot,      \* the tasks that hold the semaphore
    produced,  \* jobs pushed so far
    runs,      \* runs[j]: how many times a handler was started on j
    fate,      \* fate[j]: the ways in which j has left the system
    mishaps,   \* Redis errors, crashes and ill-timed cancellations so far
    stops      \* SIGINTs so far

redisVars == <<queue, dlq>>
memVars == <<loop, hand, waiting, slot>>
ghosts == <<produced, runs, fate>>
vars == <<queue, dlq, loop, hand, waiting, slot, produced, runs, fate, mishaps, stops>>

Attempts == 1..MaxRetries
Envelope == [job : Jobs, attempt : Attempts]
NoEnvelope == [job |-> "none"]
Phases == {"running", "failed", "backoff", "trimming"}
Task == [phase : Phases, env : Envelope]
Idle == [phase |-> "idle"]
LoopStates == {"listening", "popped", "sleeping", "draining", "down"}
Fates == {"done", "discarded", "evicted"}

Init ==
    /\ queue = [q \in Queues |-> <<>>]
    /\ dlq = <<>>
    /\ loop = [w \in Workers |-> "listening"]
    /\ hand = [w \in Workers |-> NoEnvelope]
    /\ waiting = [w \in Workers |-> <<>>]
    /\ slot = [s \in Workers \X Slots |-> Idle]
    /\ produced = {}
    /\ runs = [j \in Jobs |-> 0]
    /\ fate = [j \in Jobs |-> {}]
    /\ mishaps = 0
    /\ stops = 0

Leaves(j, f) == fate' = [fate EXCEPT ![j] = @ \cup {f}]

Mishap ==
    /\ mishaps < MaxMishaps
    /\ mishaps' = mishaps + 1

-----------------------------------------------------------------------------
(* Producers.  Every producer builds its envelope with attempt 1.          *)

Produce(j) ==
    /\ j \notin produced
    /\ produced' = produced \cup {j}
    /\ queue' = [queue EXCEPT ![QueueOf[j]] = Append(@, [job |-> j, attempt |-> 1])]
    /\ UNCHANGED <<dlq, memVars, runs, fate, mishaps, stops>>

-----------------------------------------------------------------------------
(* main_loop                                                               *)

\* Mutant: the last list of the order is never polled.
ServedButLast(w, q) ==
    /\ queue[q] # <<>>
    /\ \E n \in 1..(Len(Priority[w]) - 1) :
          /\ Priority[w][n] = q
          /\ \A m \in 1..(n - 1) : queue[Priority[w][m]] = <<>>

\* BLPOP serves the first list of the priority order that is not empty.
Served(w, q) ==
    /\ queue[q] # <<>>
    /\ \E n \in DOMAIN Priority[w] :
          /\ Priority[w][n] = q
          /\ \A m \in 1..(n - 1) : queue[Priority[w][m]] = <<>>

\* Mutant: the head is read and left on the list.
PeekHead(q) == queue' = [queue EXCEPT ![q] = @]

TakeHead(q) == queue' = [queue EXCEPT ![q] = Tail(@)]

Pop(w) ==
    /\ loop[w] = "listening"
    /\ \E q \in Queues :
          /\ Served(w, q)
          /\ KindOf[Head(queue[q]).job] # "unreadable"
          /\ hand' = [hand EXCEPT ![w] = Head(queue[q])]
          /\ TakeHead(q)
    /\ loop' = [loop EXCEPT ![w] = "popped"]
    /\ UNCHANGED <<dlq, waiting, slot, ghosts, mishaps, stops>>

\* from_raw raises: the envelope is logged and dropped, not sent to the DLQ.
DiscardUnreadable(w) ==
    /\ loop[w] = "listening"
    /\ \E q \in Queues :
          /\ Served(w, q)
          /\ KindOf[Head(queue[q]).job] = "unreadable"
          /\ Leaves(Head(queue[q]).job, "discarded")
          /\ TakeHead(q)
    /\ UNCHANGED <<dlq, memVars, produced, runs, mishaps, stops>>

\* The activity HSET answered: the envelope becomes a task and the loop listens again.
CreateTask(w) ==
    /\ loop[w] = "popped"
    /\ waiting' = [waiting EXCEPT ![w] = Append(@, hand[w])]
    /\ hand' = [hand EXCEPT ![w] = NoEnvelope]
    /\ loop' = [loop EXCEPT ![w] = "listening"]
    /\ UNCHANGED <<redisVars, slot, ghosts, mishaps, stops>>

\* The HSET raises: the popped envelope was only in this frame.
HsetError(w) ==
    /\ loop[w] = "popped"
    /\ Mishap
    /\ hand' = [hand EXCEPT ![w] = NoEnvelope]
    /\ loop' = [loop EXCEPT ![w] = "sleeping"]
    /\ UNCHANGED <<redisVars, waiting, slot, ghosts, stops>>

\* A lost BLPOP: the server may have removed the head before its reply was lost.
PopError(w) ==
    /\ loop[w] = "listening"
    /\ Mishap
    /\ \/ UNCHANGED queue
       \/ \E q \in Queues : Served(w, q) /\ TakeHead(q)
    /\ loop' = [loop EXCEPT ![w] = "sleeping"]
    /\ UNCHANGED <<dlq, hand, waiting, slot, ghosts, stops>>

Wake(w) ==
    /\ loop[w] = "sleeping"
    /\ loop' = [loop EXCEPT ![w] = "listening"]
    /\ UNCHANGED <<redisVars, hand, waiting, slot, ghosts, mishaps, stops>>

-----------------------------------------------------------------------------
(* SIGINT, crash and restart                                               *)

\* What a process loses when it ends without waiting for its tasks.
Forget(w) ==
    /\ hand' = [hand EXCEPT ![w] = NoEnvelope]
    /\ waiting' = [waiting EXCEPT ![w] = <<>>]
    /\ slot' = [s \in Workers \X Slots |-> IF s[1] = w THEN Idle ELSE slot[s]]

CountStop ==
    /\ stops < MaxStops
    /\ stops' = stops + 1

\* Mutant: the loop ends without gathering its tasks.
StopWithoutGather(w) ==
    /\ loop[w] = "listening"
    /\ CountStop
    /\ Forget(w)
    /\ loop' = [loop EXCEPT ![w] = "down"]
    /\ UNCHANGED <<redisVars, ghosts, mishaps>>

\* CancelledError inside blpop: the loop stops popping and gathers its tasks.
StopListening(w) ==
    /\ loop[w] = "listening"
    /\ CountStop
    /\ loop' = [loop EXCEPT ![w] = "draining"]
    /\ UNCHANGED <<redisVars, hand, waiting, slot, ghosts, mishaps>>

\* CancelledError inside the HSET, or as the BLPOP reply travels: the envelope is dropped.
StopDroppingJob(w) ==
    /\ Mishap
    /\ CountStop
    /\ \/ /\ loop[w] = "popped"
          /\ UNCHANGED queue
       \/ /\ loop[w] = "listening"
          /\ \E q \in Queues : Served(w, q) /\ TakeHead(q)
    /\ hand' = [hand EXCEPT ![w] = NoEnvelope]
    /\ loop' = [loop EXCEPT ![w] = "draining"]
    /\ UNCHANGED <<dlq, waiting, slot, ghosts>>

\* CancelledError inside the sleep of an except clause escapes main_loop:
\* asyncio.run cancels the tasks, and no handler of theirs catches that.
StopSleeping(w) ==
    /\ loop[w] = "sleeping"
    /\ CountStop
    /\ Forget(w)
    /\ loop' = [loop EXCEPT ![w] = "down"]
    /\ UNCHANGED <<redisVars, ghosts, mishaps>>

\* gather has returned: every task is over.
Exit(w) ==
    /\ loop[w] = "draining"
    /\ waiting[w] = <<>>
    /\ \A i \in Slots : slot[<<w, i>>] = Idle
    /\ loop' = [loop EXCEPT ![w] = "down"]
    /\ UNCHANGED <<redisVars, hand, waiting, slot, ghosts, mishaps, stops>>

\* SIGTERM and SIGKILL have no handler.
Crash(w) ==
    /\ loop[w] # "down"
    /\ Mishap
    /\ Forget(w)
    /\ loop' = [loop EXCEPT ![w] = "down"]
    /\ UNCHANGED <<redisVars, ghosts, stops>>

\* restart: unless-stopped
Restart(w) ==
    /\ loop[w] = "down"
    /\ loop' = [loop EXCEPT ![w] = "listening"]
    /\ UNCHANGED <<redisVars, hand, waiting, slot, ghosts, mishaps, stops>>

-----------------------------------------------------------------------------
(* _execute_job and send_to_dlq                                            *)

SetSlot(w, i, t) == slot' = [slot EXCEPT ![<<w, i>>] = t]
EnvOf(w, i) == slot[<<w, i>>].env
InPhase(w, i, p) == slot[<<w, i>>].phase = p

\* A free place of the semaphore goes to the task that has waited longest.
Acquires(w, i) ==
    /\ slot[<<w, i>>] = Idle
    /\ waiting[w] # <<>>
    /\ waiting' = [waiting EXCEPT ![w] = Tail(@)]

Start(w, i) ==
    /\ Acquires(w, i)
    /\ LET env == Head(waiting[w]) IN
          /\ KindOf[env.job] # "unhandled"
          /\ SetSlot(w, i, [phase |-> "running", env |-> env])
          /\ runs' = [runs EXCEPT ![env.job] = @ + 1]
    /\ UNCHANGED <<redisVars, loop, hand, produced, fate, mishaps, stops>>

\* No handler registered: the job is dropped without retry or DLQ.
DiscardUnhandled(w, i) ==
    /\ Acquires(w, i)
    /\ KindOf[Head(waiting[w]).job] = "unhandled"
    /\ Leaves(Head(waiting[w]).job, "discarded")
    /\ UNCHANGED <<redisVars, loop, hand, slot, produced, runs, mishaps, stops>>

Finish(w, i) ==
    /\ InPhase(w, i, "running")
    /\ Leaves(EnvOf(w, i).job, "done")
    /\ SetSlot(w, i, Idle)
    /\ UNCHANGED <<redisVars, loop, hand, waiting, produced, runs, mishaps, stops>>

Fail(w, i) ==
    /\ InPhase(w, i, "running")
    /\ SetSlot(w, i, [slot[<<w, i>>] EXCEPT !.phase = "failed"])
    /\ UNCHANGED <<redisVars, loop, hand, waiting, ghosts, mishaps, stops>>

\* Mutants: one attempt too many, one too few.
RetriesOnceMore(env) == env.attempt <= MaxRetries
RetriesOnceLess(env) == env.attempt + 1 < MaxRetries

MayRetry(env) == env.attempt < MaxRetries

\* The task sleeps with its place of the semaphore held.
Backoff(w, i) ==
    /\ InPhase(w, i, "failed")
    /\ MayRetry(EnvOf(w, i))
    /\ SetSlot(w, i, [slot[<<w, i>>] EXCEPT !.phase = "backoff"])
    /\ UNCHANGED <<redisVars, loop, hand, waiting, ghosts, mishaps, stops>>

\* Mutant: the copy forgets the attempts.
RestartAttempts(env) == [env EXCEPT !.attempt = 1]

NextAttempt(env) == [env EXCEPT !.attempt = @ + 1]

Requeue(w, i) ==
    /\ InPhase(w, i, "backoff")
    /\ queue' = [queue EXCEPT ![QueueOf[EnvOf(w, i).job]] = Append(@, NextAttempt(EnvOf(w, i)))]
    /\ SetSlot(w, i, Idle)
    /\ UNCHANGED <<dlq, loop, hand, waiting, ghosts, mishaps, stops>>

\* The client resends an RPUSH whose reply timed out (retry_on_timeout).
RequeueTwice(w, i) ==
    /\ w \notin PdfWorkers
    /\ InPhase(w, i, "backoff")
    /\ Mishap
    /\ queue' = [queue EXCEPT ![QueueOf[EnvOf(w, i).job]] =
                    @ \o <<NextAttempt(EnvOf(w, i)), NextAttempt(EnvOf(w, i))>>]
    /\ SetSlot(w, i, Idle)
    /\ UNCHANGED <<dlq, loop, hand, waiting, ghosts, stops>>

\* The RPUSH of the dead letter; pdf-worker ends there, worker trims next.
AfterBury(w, i) ==
    IF w \in PdfWorkers THEN Idle ELSE [slot[<<w, i>>] EXCEPT !.phase = "trimming"]

Bury(w, i) ==
    /\ InPhase(w, i, "failed")
    /\ ~ MayRetry(EnvOf(w, i))
    /\ dlq' = Append(dlq, EnvOf(w, i))
    /\ SetSlot(w, i, AfterBury(w, i))
    /\ UNCHANGED <<queue, loop, hand, waiting, ghosts, mishaps, stops>>

BuryTwice(w, i) ==
    /\ w \notin PdfWorkers
    /\ InPhase(w, i, "failed")
    /\ ~ MayRetry(EnvOf(w, i))
    /\ Mishap
    /\ dlq' = dlq \o <<EnvOf(w, i), EnvOf(w, i)>>
    /\ SetSlot(w, i, AfterBury(w, i))
    /\ UNCHANGED <<queue, loop, hand, waiting, ghosts, stops>>

\* LTRIM queue:dlq -DlqMax -1 removes from the head.
Excess == IF Len(dlq) > DlqMax THEN Len(dlq) - DlqMax ELSE 0

Trim(w, i) ==
    /\ InPhase(w, i, "trimming")
    /\ dlq' = SubSeq(dlq, Excess + 1, Len(dlq))
    /\ fate' = [j \in Jobs |->
                  IF \E k \in 1..Excess : dlq[k].job = j THEN fate[j] \cup {"evicted"} ELSE fate[j]]
    /\ SetSlot(w, i, Idle)
    /\ UNCHANGED <<queue, loop, hand, waiting, produced, runs, mishaps, stops>>

\* get_redis, the RPUSH or the LTRIM raises inside the except clause: the task ends.
TaskRedisError(w, i) ==
    /\ slot[<<w, i>>].phase \in {"failed", "backoff", "trimming"}
    /\ Mishap
    /\ SetSlot(w, i, Idle)
    /\ UNCHANGED <<redisVars, loop, hand, waiting, ghosts, stops>>

-----------------------------------------------------------------------------
LoopStep(w) ==
    \/ Pop(w) \/ DiscardUnreadable(w) \/ CreateTask(w) \/ Wake(w) \/ Exit(w) \/ Restart(w)

TaskStep(w, i) ==
    \/ Start(w, i) \/ DiscardUnhandled(w, i)
    \/ Finish(w, i) \/ Fail(w, i)
    \/ Backoff(w, i) \/ Requeue(w, i) \/ Bury(w, i) \/ Trim(w, i)

Adversity(w) ==
    \/ HsetError(w) \/ PopError(w) \/ Crash(w)
    \/ StopListening(w) \/ StopDroppingJob(w) \/ StopSleeping(w)
    \/ \E i \in Slots : RequeueTwice(w, i) \/ BuryTwice(w, i) \/ TaskRedisError(w, i)

Next ==
    \/ \E j \in Jobs : Produce(j)
    \/ \E w \in Workers : LoopStep(w) \/ Adversity(w) \/ \E i \in Slots : TaskStep(w, i)

Spec == Init /\ [][Next]_vars

\* The loop and every task it started are scheduled by asyncio; a container that
\* went down is restarted.  Nothing forces a producer, a stop or a mishap.
FairSpec ==
    /\ Spec
    /\ \A w \in Workers : WF_vars(LoopStep(w))
    /\ \A w \in Workers, i \in Slots : WF_vars(TaskStep(w, i))

-----------------------------------------------------------------------------
(* Where a job can be                                                      *)

Among(s, j) == {k \in 1..Len(s) : s[k].job = j}

\* The tasks that still own their envelope: once buried, the DLQ does.
Owned == {s \in Workers \X Slots : slot[s].phase \in {"running", "failed", "backoff"}}

QueuePlaces(j) == UNION {{<<"queue", q, k>> : k \in Among(queue[q], j)} : q \in Queues}
HandPlaces(j) == {<<"hand", w>> : w \in {v \in Workers : hand[v].job = j}}
WaitPlaces(j) == UNION {{<<"waiting", w, k>> : k \in Among(waiting[w], j)} : w \in Workers}
SlotPlaces(j) == {<<"slot", s>> : s \in {t \in Owned : slot[t].env.job = j}}
DlqPlaces(j) == {<<"dlq", k>> : k \in Among(dlq, j)}
Places(j) == QueuePlaces(j) \cup HandPlaces(j) \cup WaitPlaces(j) \cup SlotPlaces(j) \cup DlqPlaces(j)

-----------------------------------------------------------------------------
(* Properties                                                              *)

\* Every variable keeps its type.
TypeOK ==
    /\ queue \in [Queues -> Seq(Envelope)]
    /\ dlq \in Seq(Envelope)
    /\ loop \in [Workers -> LoopStates]
    /\ hand \in [Workers -> Envelope \cup {NoEnvelope}]
    /\ \A w \in Workers : loop[w] = "popped" => hand[w] \in Envelope
    /\ waiting \in [Workers -> Seq(Envelope)]
    /\ slot \in [Workers \X Slots -> Task \cup {Idle}]
    /\ produced \subseteq Jobs
    /\ runs \in [Jobs -> Nat]
    /\ fate \in [Jobs -> SUBSET Fates]
    /\ mishaps \in 0..MaxMishaps
    /\ stops \in 0..MaxStops

\* As long as Redis answers and no process dies, a job that was pushed is in exactly one
\* place - on a list, in a process, on the DLQ - or has left by exactly one of the three
\* exits of the code, whatever the retries, the priorities, the DLQ trims and the SIGINTs
\* that meet the loop inside BLPOP: it is not lost, no two handlers run it, and none runs
\* it after its end.
JobConserved ==
    mishaps = 0 => \A j \in produced : Cardinality(Places(j)) + Cardinality(fate[j]) = 1

\* A dead letter has used all its attempts, and the handler ran exactly that often.
DeadLettersExhausted ==
    \A k \in 1..Len(dlq) :
        /\ dlq[k].attempt = MaxRetries
        /\ mishaps = 0 => runs[dlq[k].job] = MaxRetries

\* dlq.py:38: the DLQ keeps the last DlqMax dead letters.  A list may exceed that by
\* the tasks that have pushed and not yet trimmed, and by what each mishap (a crash
\* before the LTRIM, an LTRIM that raises, a dead letter pushed twice) left behind.
Trimmers == {s \in Workers \X Slots : slot[s].phase = "trimming"}
DlqBounded == Len(dlq) <= DlqMax + Cardinality(Trimmers) + mishaps * Cardinality(Slots)

Settled(j) == fate[j] # {} \/ Among(dlq, j) # {}

\* Every pushed job ends: handled, dropped or dead; only a mishap may lose it.
EveryJobSettles == \A j \in Jobs : j \in produced ~> (Settled(j) \/ mishaps > 0)

\* The queues empty for good, whatever mishaps, restarts and duplicated pushes
\* happened on the way: retries are bounded and no process stays deaf.
QueuesDrain == \A q \in Queues : <>[](queue[q] = <<>>)

-----------------------------------------------------------------------------
(* What the runtime promises to producers and handlers: JobContract.  Once *)
(* the infrastructure has failed, every job counts as lost.                *)

Busy(j, phases) ==
    \E s \in Workers \X Slots : slot[s].phase \in phases /\ slot[s].env.job = j

StageOf(j) ==
    IF mishaps > 0 THEN "lost"
    ELSE IF j \notin produced THEN "absent"
    ELSE IF fate[j] # {} THEN CHOOSE f \in fate[j] : TRUE
    ELSE IF Among(dlq, j) # {} THEN "dead"
    ELSE IF Busy(j, {"running", "failed"}) THEN "running"
    ELSE IF Busy(j, {"backoff"}) THEN "backoff"
    ELSE "queued"

Stages == [j \in Jobs |-> StageOf(j)]
RunsSeen == [j \in Jobs |-> IF mishaps > 0 THEN 0 ELSE runs[j]]
Failed == mishaps > 0

Contract == INSTANCE JobContract WITH stage <- Stages, runs <- RunsSeen, faulty <- Failed

\* As long as Redis answers and no process dies, each job goes queue, handler, backoff,
\* queue ... under the runtime of worker.py and pdf-worker/main.py, is run at most
\* MaxRetries times, never twice at once and never after its end, is retried only
\* before the last attempt and dead only after it.
ImplementsContract == Contract!Spec

=============================================================================
