---------------------------- MODULE JobContract ----------------------------
(***************************************************************************)
(* What a producer and a handler may rely on, of the lists, processes,     *)
(* semaphores and signals of the job runtime: a job is queued, run and     *)
(* retried, at most MaxRetries times and never twice at once, and ends     *)
(* once.  A job may be lost only after the infrastructure has failed.      *)
(* JobWorker implements this for all jobs; MinutePipeline, which knows a   *)
(* job only by its place in the handler, stays within it.                  *)
(***************************************************************************)
EXTENDS Integers

CONSTANTS
    Jobs,
    MaxRetries

VARIABLES
    stage,     \* stage[j]: where j is in its life
    runs,      \* runs[j]: how many times its handler was started
    faulty     \* the infrastructure has failed

vars == <<stage, runs, faulty>>

Init ==
    /\ stage = [j \in Jobs |-> "absent"]
    /\ runs = [j \in Jobs |-> 0]
    /\ faulty = FALSE

Moves(j, from, to) ==
    /\ stage[j] = from
    /\ stage' = [stage EXCEPT ![j] = to]

Push(j) == Moves(j, "absent", "queued") /\ UNCHANGED runs

Run(j) ==
    /\ Moves(j, "queued", "running")
    /\ runs[j] < MaxRetries
    /\ runs' = [runs EXCEPT ![j] = @ + 1]

\* A job that nobody can read, or that nobody handles.
Discard(j) == Moves(j, "queued", "discarded") /\ UNCHANGED runs

Succeed(j) == Moves(j, "running", "done") /\ UNCHANGED runs

BackOff(j) == Moves(j, "running", "backoff") /\ runs[j] < MaxRetries /\ UNCHANGED runs

PushAgain(j) == Moves(j, "backoff", "queued") /\ UNCHANGED runs

\* Only after the last attempt.
Bury(j) == Moves(j, "running", "dead") /\ runs[j] = MaxRetries /\ UNCHANGED runs

\* Dead letters are forgotten several at a time.
Evict(S) ==
    /\ \A j \in S : stage[j] = "dead"
    /\ stage' = [j \in Jobs |-> IF j \in S THEN "evicted" ELSE stage[j]]
    /\ UNCHANGED runs

\* Nothing is promised of the jobs in S any more.
Lose(S) ==
    /\ faulty'
    /\ stage' = [j \in Jobs |-> IF j \in S THEN "lost" ELSE stage[j]]
    /\ runs' = [j \in Jobs |-> IF j \in S THEN 0 ELSE runs[j]]

Step(j) ==
    \/ Push(j) \/ Run(j) \/ Discard(j) \/ Succeed(j)
    \/ BackOff(j) \/ PushAgain(j) \/ Bury(j)

\* A failure may come with any step, and stays.
Next ==
    /\ \/ \E j \in Jobs : Step(j)
       \/ \E S \in SUBSET Jobs : Evict(S) \/ Lose(S)
    /\ faulty => faulty'

Spec == Init /\ [][Next]_vars
=============================================================================
