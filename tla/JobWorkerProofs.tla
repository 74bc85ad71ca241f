-------------------------- MODULE JobWorkerProofs --------------------------
(***************************************************************************)
(* For every number of jobs, lists, processes and places of a semaphore:   *)
(* while nothing fails a job is in one place or has left once, and a dead  *)
(* letter has had its attempts.                                            *)
(***************************************************************************)
EXTENDS JobWorker, FiniteSetTheorems, SequenceTheorems, TLAPS

Holds(s, j) == \E k \in 1..Len(s) : s[k].job = j
Once(s) == \A i, k \in 1..Len(s) : s[i].job = s[k].job => i = k
\* r: how often each job was run.
Ready(s, r) == \A k \in 1..Len(s) : r[s[k].job] = s[k].attempt - 1
Spent(s) == \A k \in 1..Len(s) : s[k].attempt = MaxRetries
SpentRuns(s, r) == \A k \in 1..Len(s) : r[s[k].job] = MaxRetries

\* A task in its backoff has an attempt left.
BackoffLine == \A w \in Workers, i \in Slots : InPhase(w, i, "backoff") => MayRetry(EnvOf(w, i))

\* A process holds an envelope between BLPOP and create_task only.
HandLine == \A w \in Workers : loop[w] # "popped" => hand[w] = NoEnvelope

TInv == TypeOK /\ BackoffLine /\ HandLine

\* Where a job is, one element for each list, process or slot that has it and each exit it
\* has taken.
QueueSpots(j) == {<<"queue", q>> : q \in {x \in Queues : Holds(queue[x], j)}}
HandSpots(j) == {<<"hand", w>> : w \in {v \in Workers : hand[v].job = j}}
WaitSpots(j) == {<<"waiting", w>> : w \in {v \in Workers : Holds(waiting[v], j)}}
SlotSpots(j) == {<<"slot", s>> : s \in {t \in Owned : slot[t].env.job = j}}
DlqSpots(j) == IF Holds(dlq, j) THEN {<<"dlq", "dlq">>} ELSE {}
Exits(j) == {<<"fate", f>> : f \in fate[j]}
Spots(j) ==
    QueueSpots(j) \cup HandSpots(j) \cup WaitSpots(j) \cup SlotSpots(j) \cup DlqSpots(j) \cup Exits(j)

OneSpot == \A j \in Jobs : IF j \in produced THEN \E p : Spots(j) = {p} ELSE Spots(j) = {}

AllOnce == /\ \A q \in Queues : Once(queue[q])
           /\ \A w \in Workers : Once(waiting[w])
           /\ Once(dlq)

\* Every envelope says how often its job was run.
RunsLine ==
    /\ \A q \in Queues : Ready(queue[q], runs)
    /\ \A w \in Workers : hand[w] # NoEnvelope => runs[hand[w].job] = hand[w].attempt - 1
    /\ \A w \in Workers : Ready(waiting[w], runs)
    /\ \A s \in Owned : runs[slot[s].env.job] = slot[s].env.attempt
    /\ SpentRuns(dlq, runs)
    /\ \A j \in Jobs \ produced : runs[j] = 0

\* Only an error sends a loop to sleep.
Awake == \A w \in Workers : loop[w] # "sleeping"

Calm == OneSpot /\ AllOnce /\ RunsLine /\ Awake

CInv == Spent(dlq) /\ (mishaps = 0 => Calm)

-----------------------------------------------------------------------------
(* Sequences of envelopes                                                  *)

LEMMA Pushed ==
    ASSUME NEW s \in Seq(Envelope), NEW e \in Envelope
    PROVE  /\ Append(s, e) \in Seq(Envelope)
           /\ \A j : Holds(Append(s, e), j) <=> Holds(s, j) \/ e.job = j
           /\ Once(s) /\ ~ Holds(s, e.job) => Once(Append(s, e))
           /\ \A r : Ready(s, r) /\ r[e.job] = e.attempt - 1 => Ready(Append(s, e), r)
           /\ Spent(s) /\ e.attempt = MaxRetries => Spent(Append(s, e))
           /\ \A r : SpentRuns(s, r) /\ r[e.job] = MaxRetries => SpentRuns(Append(s, e), r)
<1> DEFINE t == Append(s, e)
<1>1. /\ t \in Seq(Envelope) /\ Len(t) = Len(s) + 1 /\ Len(s) \in Nat
      /\ \A k \in 1..Len(s) : t[k] = s[k]
      /\ t[Len(s) + 1] = e
  BY AppendProperties, LenProperties
<1> HIDE DEF t
<1>2. \A k \in 1..Len(t) : k \in 1..Len(s) \/ k = Len(s) + 1
  BY <1>1
<1>3. \A k \in 1..Len(s) : k \in 1..Len(t)
  BY <1>1
<1>4. Len(s) + 1 \in 1..Len(t)
  BY <1>1
<1>5. \A j : Holds(t, j) <=> Holds(s, j) \/ e.job = j
  BY <1>1, <1>2, <1>3, <1>4 DEF Holds
<1>6. Once(s) /\ ~ Holds(s, e.job) => Once(t)
  BY <1>1, <1>2 DEF Holds, Once
<1>7. \A r : Ready(s, r) /\ r[e.job] = e.attempt - 1 => Ready(t, r)
  BY <1>1, <1>2 DEF Ready
<1>8. Spent(s) /\ e.attempt = MaxRetries => Spent(t)
  BY <1>1, <1>2 DEF Spent
<1>9. \A r : SpentRuns(s, r) /\ r[e.job] = MaxRetries => SpentRuns(t, r)
  BY <1>1, <1>2 DEF SpentRuns
<1> QED BY <1>1, <1>5, <1>6, <1>7, <1>8, <1>9 DEF t

LEMMA Popped ==
    ASSUME NEW s \in Seq(Envelope), s # <<>>
    PROVE  /\ Tail(s) \in Seq(Envelope)
           /\ Head(s) \in Envelope
           /\ Holds(s, Head(s).job)
           /\ \A j : Holds(Tail(s), j) => Holds(s, j)
           /\ \A j : Holds(s, j) => Holds(Tail(s), j) \/ j = Head(s).job
           /\ Once(s) => Once(Tail(s)) /\ ~ Holds(Tail(s), Head(s).job)
           /\ \A r : Ready(s, r) => Ready(Tail(s), r) /\ r[Head(s).job] = Head(s).attempt - 1
<1> DEFINE t == Tail(s)
<1>1. /\ t \in Seq(Envelope) /\ Len(s) \in Nat /\ Len(s) >= 1 /\ Len(t) = Len(s) - 1
      /\ Head(s) = s[1] /\ s[1] \in Envelope
      /\ \A k \in 1..Len(t) : t[k] = s[k + 1]
  BY HeadTailProperties, LenProperties, EmptySeq, ElementOfSeq
<1> HIDE DEF t
<1>2. \A k \in 1..Len(t) : k + 1 \in 1..Len(s) /\ k + 1 # 1
  BY <1>1
<1>3. \A k \in 1..Len(s) : k = 1 \/ (k - 1 \in 1..Len(t) /\ (k - 1) + 1 = k)
  BY <1>1
<1>4. 1 \in 1..Len(s)
  BY <1>1
<1>5. \A j : Holds(t, j) => Holds(s, j)
  BY <1>1, <1>2 DEF Holds
<1>6. \A j : Holds(s, j) => Holds(t, j) \/ j = Head(s).job
  BY <1>1, <1>3 DEF Holds
<1>7. Once(s) => Once(t) /\ ~ Holds(t, Head(s).job)
  <2> SUFFICES ASSUME Once(s) PROVE Once(t) /\ ~ Holds(t, Head(s).job)
    OBVIOUS
  <2>1. Once(t)
    <3> SUFFICES ASSUME NEW i \in 1..Len(t), NEW k \in 1..Len(t), t[i].job = t[k].job PROVE i = k
      BY DEF Once
    <3>1. i + 1 = k + 1
      BY <1>1, <1>2 DEF Once
    <3> QED BY <3>1
  <2>2. ~ Holds(t, Head(s).job)
    BY <1>1, <1>2, <1>4 DEF Once, Holds
  <2> QED BY <2>1, <2>2
<1>8. \A r : Ready(s, r) => Ready(t, r) /\ r[Head(s).job] = Head(s).attempt - 1
  BY <1>1, <1>2, <1>4 DEF Ready
<1>9. Holds(s, Head(s).job)
  BY <1>1, <1>4 DEF Holds
<1> QED BY <1>1, <1>5, <1>6, <1>7, <1>8, <1>9 DEF t

\* What is left when the first n are cut off.
LEMMA Trimmed ==
    ASSUME NEW s \in Seq(Envelope), NEW n \in 0..Len(s)
    PROVE  LET t == SubSeq(s, n + 1, Len(s)) IN
           /\ t \in Seq(Envelope)
           /\ \A j : Holds(t, j) => Holds(s, j)
           /\ \A j : Holds(s, j) => Holds(t, j) \/ \E k \in 1..n : s[k].job = j
           /\ Once(s) => Once(t) /\ \A k \in 1..n : ~ Holds(t, s[k].job)
           /\ Spent(s) => Spent(t)
           /\ \A r : SpentRuns(s, r) => SpentRuns(t, r)
<1> DEFINE t == SubSeq(s, n + 1, Len(s))
<1>0. Len(s) \in Nat /\ n \in Nat /\ n <= Len(s) /\ \A k \in 1..Len(s) : s[k] \in Envelope
  BY ElementOfSeq, LenProperties
<1>1. \A k \in n + 1..Len(s) : s[k] \in Envelope
  BY <1>0
<1>2. /\ t \in Seq(Envelope)
      /\ Len(t) = IF n + 1 <= Len(s) THEN Len(s) - (n + 1) + 1 ELSE 0
      /\ \A k \in 1..Len(s) - (n + 1) + 1 : t[k] = s[n + 1 + k - 1]
  BY <1>0, <1>1, SubSeqProperties
<1>3. Len(t) = Len(s) - n /\ \A k \in 1..Len(t) : t[k] = s[k + n]
  BY <1>0, <1>2
<1> HIDE DEF t
<1>4. \A k \in 1..Len(t) : k + n \in 1..Len(s) /\ ~ (k + n \in 1..n)
  BY <1>0, <1>3
<1>5. \A k \in 1..Len(s) : k \in 1..n \/ (k - n \in 1..Len(t) /\ (k - n) + n = k)
  BY <1>0, <1>3
<1>6. \A k \in 1..n : k \in 1..Len(s)
  BY <1>0
<1>7. \A j : Holds(t, j) => Holds(s, j)
  BY <1>3, <1>4 DEF Holds
<1>8. \A j : Holds(s, j) => Holds(t, j) \/ \E k \in 1..n : s[k].job = j
  <2> SUFFICES ASSUME NEW j, NEW k \in 1..Len(s), s[k].job = j, k \notin 1..n PROVE Holds(t, j)
    BY DEF Holds
  <2>1. k - n \in 1..Len(t) /\ (k - n) + n = k
    BY <1>5
  <2>2. t[k - n] = s[k]
    BY <1>3, <2>1
  <2> QED BY <2>1, <2>2 DEF Holds
<1>9. Once(s) => Once(t) /\ \A k \in 1..n : ~ Holds(t, s[k].job)
  <2> SUFFICES ASSUME Once(s) PROVE Once(t) /\ \A k \in 1..n : ~ Holds(t, s[k].job)
    OBVIOUS
  <2>1. Once(t)
    <3> SUFFICES ASSUME NEW i \in 1..Len(t), NEW k \in 1..Len(t), t[i].job = t[k].job PROVE i = k
      BY DEF Once
    <3>1. i + n = k + n
      BY <1>3, <1>4 DEF Once
    <3> QED BY <3>1, <1>0
  <2>2. \A k \in 1..n : ~ Holds(t, s[k].job)
    BY <1>3, <1>4, <1>6 DEF Once, Holds
  <2> QED BY <2>1, <2>2
<1>10. (Spent(s) => Spent(t)) /\ \A r : SpentRuns(s, r) => SpentRuns(t, r)
  BY <1>3, <1>4 DEF Spent, SpentRuns
<1> QED BY <1>2, <1>7, <1>8, <1>9, <1>10 DEF t

-----------------------------------------------------------------------------
(* Types                                                                   *)

LEMMA TypeInit == Init => TypeOK
<1> SUFFICES ASSUME Init PROVE TypeOK
  OBVIOUS
<1> USE ConstantsAssumption
<1>1. queue \in [Queues -> Seq(Envelope)] /\ waiting \in [Workers -> Seq(Envelope)] /\ dlq \in Seq(Envelope)
  BY EmptySeq DEF Init
<1>2. loop \in [Workers -> LoopStates] /\ \A w \in Workers : loop[w] # "popped"
  BY DEF Init, LoopStates
<1>3. /\ hand \in [Workers -> Envelope \cup {NoEnvelope}] /\ slot \in [Workers \X Slots -> Task \cup {Idle}]
      /\ produced \subseteq Jobs /\ runs \in [Jobs -> Nat] /\ fate \in [Jobs -> SUBSET Fates]
      /\ mishaps \in 0..MaxMishaps /\ stops \in 0..MaxStops
  BY DEF Init
<1> QED BY <1>1, <1>2, <1>3 DEF TypeOK

LEMMA SlotIs ==
    ASSUME TypeOK, NEW w \in Workers, NEW i \in Slots
    PROVE  /\ <<w, i>> \in Workers \X Slots
           /\ slot[<<w, i>>] # Idle => slot[<<w, i>>] \in Task
           /\ slot[<<w, i>>].phase \in Phases => slot[<<w, i>>] \in Task /\ slot[<<w, i>>] # Idle
           /\ slot[<<w, i>>] \in Task => /\ EnvOf(w, i) \in Envelope /\ EnvOf(w, i).job \in Jobs
                                     /\ EnvOf(w, i).attempt \in 1..MaxRetries
                                     /\ slot[<<w, i>>].phase \in Phases
                                     /\ \A p \in Phases : [slot[<<w, i>>] EXCEPT !.phase = p] \in Task
<1>1. <<w, i>> \in Workers \X Slots /\ slot[<<w, i>>] \in Task \cup {Idle}
  BY DEF TypeOK
<1>2. Idle.phase \notin Phases
  BY DEF Idle, Phases
<1>3. ASSUME NEW t \in Task
      PROVE  /\ t.env \in Envelope /\ t.env.job \in Jobs /\ t.env.attempt \in 1..MaxRetries
             /\ t.phase \in Phases /\ \A p \in Phases : [t EXCEPT !.phase = p] \in Task
  BY DEF Task, Envelope, Attempts
<1> QED BY <1>1, <1>2, <1>3 DEF EnvOf

LEMMA PhaseNames == {"running", "failed", "backoff", "trimming"} \subseteq Phases
  BY DEF Phases

LEMMA SlotType ==
    ASSUME TypeOK, NEW w \in Workers, NEW i \in Slots, NEW t \in Task \cup {Idle}, SetSlot(w, i, t)
    PROVE  slot' \in [Workers \X Slots -> Task \cup {Idle}]
  BY SlotIs DEF TypeOK, SetSlot

LEMMA NextAttemptIs ==
    ASSUME NEW e \in Envelope, MayRetry(e)
    PROVE  /\ NextAttempt(e) \in Envelope /\ NextAttempt(e).job = e.job
           /\ NextAttempt(e).attempt = e.attempt + 1
  BY ConstantsAssumption DEF Envelope, Attempts, MayRetry, NextAttempt

LEMMA ServedIs ==
    ASSUME TypeOK, NEW w, NEW q \in Queues, Served(w, q)
    PROVE  queue[q] \in Seq(Envelope) /\ queue[q] # <<>> /\ Head(queue[q]) \in Envelope /\ Tail(queue[q]) \in Seq(Envelope)
  BY Popped DEF TypeOK, Served

LEMMA TakeType ==
    ASSUME TypeOK, NEW w, NEW q \in Queues, Served(w, q), TakeHead(q)
    PROVE  queue' \in [Queues -> Seq(Envelope)]
  BY ServedIs DEF TypeOK, TakeHead

LEMMA PushType ==
    ASSUME TypeOK, NEW q \in Queues, NEW e \in Envelope, queue' = [queue EXCEPT ![q] = Append(@, e)]
    PROVE  queue' \in [Queues -> Seq(Envelope)]
  BY Pushed DEF TypeOK

LEMMA MishapType == ASSUME TypeOK, Mishap PROVE mishaps' \in 0..MaxMishaps /\ mishaps' # 0
  BY ConstantsAssumption DEF TypeOK, Mishap

LEMMA StopType == ASSUME TypeOK, CountStop PROVE stops' \in 0..MaxStops
  BY ConstantsAssumption DEF TypeOK, CountStop

LEMMA LeavesType == ASSUME TypeOK, NEW j \in Jobs, NEW f \in Fates, Leaves(j, f)
                    PROVE  fate' \in [Jobs -> SUBSET Fates]
  BY DEF TypeOK, Leaves

LEMMA ForgetType ==
    ASSUME TypeOK, NEW w \in Workers, Forget(w)
    PROVE  /\ hand' \in [Workers -> Envelope \cup {NoEnvelope}]
           /\ waiting' \in [Workers -> Seq(Envelope)]
           /\ slot' \in [Workers \X Slots -> Task \cup {Idle}]
<1>1. <<>> \in Seq(Envelope)
  BY EmptySeq
<1> QED BY <1>1 DEF TypeOK, Forget

LEMMA ExcessIs == ASSUME TypeOK PROVE Excess \in 0..Len(dlq)
<1>1. Len(dlq) \in Nat /\ DlqMax \in Nat
  BY LenProperties, ConstantsAssumption DEF TypeOK
<1> QED BY <1>1 DEF Excess

\* What is pushed after a backoff.
LEMMA RequeueIs ==
    ASSUME TInv, NEW w \in Workers, NEW i \in Slots, InPhase(w, i, "backoff")
    PROVE  /\ NextAttempt(EnvOf(w, i)) \in Envelope
           /\ NextAttempt(EnvOf(w, i)).job = EnvOf(w, i).job
           /\ NextAttempt(EnvOf(w, i)).attempt = EnvOf(w, i).attempt + 1
           /\ EnvOf(w, i).job \in Jobs /\ QueueOf[EnvOf(w, i).job] \in Queues
<1>1. EnvOf(w, i) \in Envelope /\ EnvOf(w, i).job \in Jobs
  BY SlotIs, PhaseNames DEF InPhase, TInv
<1>2. MayRetry(EnvOf(w, i))
  BY DEF TInv, BackoffLine
<1> QED BY <1>1, <1>2, NextAttemptIs, ConstantsAssumption

LEMMA TypeOfLoop ==
    ASSUME TypeOK, NEW w \in Workers, LoopStep(w)
    PROVE  TypeOK'
<1> USE DEF redisVars, memVars, ghosts
<1>1. CASE Pop(w)
  <2> PICK q \in Queues : /\ Served(w, q) /\ TakeHead(q)
                           /\ hand' = [hand EXCEPT ![w] = Head(queue[q])]
    BY <1>1 DEF Pop
  <2>1. queue' \in [Queues -> Seq(Envelope)]
    BY TakeType
  <2>2. hand' \in [Workers -> Envelope \cup {NoEnvelope}] /\ hand'[w] \in Envelope
    BY ServedIs DEF TypeOK
  <2>3. loop' = [loop EXCEPT ![w] = "popped"]
    BY <1>1 DEF Pop
  <2>4. \A v \in Workers : loop'[v] = "popped" => hand'[v] \in Envelope
    BY <2>2, <2>3 DEF TypeOK
  <2> QED BY <1>1, <2>1, <2>2, <2>3, <2>4 DEF Pop, TypeOK, LoopStates
<1>2. CASE DiscardUnreadable(w)
  <2> PICK q \in Queues : /\ Served(w, q) /\ TakeHead(q) /\ Leaves(Head(queue[q]).job, "discarded")
    BY <1>2 DEF DiscardUnreadable
  <2>1. queue' \in [Queues -> Seq(Envelope)]
    BY TakeType
  <2>2. fate' \in [Jobs -> SUBSET Fates]
    BY ServedIs, LeavesType DEF Envelope, Fates
  <2> QED BY <1>2, <2>1, <2>2 DEF DiscardUnreadable, TypeOK
<1>3. CASE CreateTask(w)
  <2>1. waiting' \in [Workers -> Seq(Envelope)]
    BY <1>3, Pushed DEF CreateTask, TypeOK
  <2> QED BY <1>3, <2>1 DEF CreateTask, TypeOK, LoopStates
<1>4. CASE Wake(w) \/ Exit(w) \/ Restart(w)
  BY <1>4 DEF Wake, Exit, Restart, TypeOK, LoopStates
<1> QED BY <1>1, <1>2, <1>3, <1>4 DEF LoopStep

LEMMA TypeOfTask ==
    ASSUME TInv, NEW w \in Workers, NEW i \in Slots, TaskStep(w, i)
    PROVE  TypeOK'
<1> USE DEF redisVars, memVars, ghosts
<1> TypeOK
  BY DEF TInv
<1>0. ASSUME Acquires(w, i)
      PROVE  /\ waiting' \in [Workers -> Seq(Envelope)]
             /\ Head(waiting[w]) \in Envelope /\ Head(waiting[w]).job \in Jobs
  BY <1>0, Popped DEF Acquires, TypeOK, Envelope
<1>1. CASE Start(w, i)
  <2> DEFINE e == Head(waiting[w])
  <2>1. [phase |-> "running", env |-> e] \in Task
    BY <1>0, <1>1, PhaseNames DEF Start, Task
  <2>2. slot' \in [Workers \X Slots -> Task \cup {Idle}]
    BY <1>1, <2>1, SlotType DEF Start
  <2>3. runs' \in [Jobs -> Nat]
    BY <1>0, <1>1 DEF Start, TypeOK
  <2> QED BY <1>0, <1>1, <2>2, <2>3 DEF Start, TypeOK
<1>2. CASE DiscardUnhandled(w, i)
  <2>1. fate' \in [Jobs -> SUBSET Fates]
    BY <1>0, <1>2, LeavesType DEF DiscardUnhandled, Fates
  <2> QED BY <1>0, <1>2, <2>1 DEF DiscardUnhandled, TypeOK
<1>3. CASE Finish(w, i)
  <2>1. slot' \in [Workers \X Slots -> Task \cup {Idle}]
    BY <1>3, SlotType DEF Finish
  <2>2. fate' \in [Jobs -> SUBSET Fates]
    BY <1>3, SlotIs, PhaseNames, LeavesType DEF Finish, Fates, InPhase
  <2> QED BY <1>3, <2>1, <2>2 DEF Finish, TypeOK
<1>4. CASE Fail(w, i) \/ Backoff(w, i)
  <2>1. slot' \in [Workers \X Slots -> Task \cup {Idle}]
    BY <1>4, SlotType, SlotIs, PhaseNames DEF Fail, Backoff, InPhase
  <2> QED BY <1>4, <2>1 DEF Fail, Backoff, TypeOK
<1>5. CASE Requeue(w, i)
  <2>1. slot' \in [Workers \X Slots -> Task \cup {Idle}]
    BY <1>5, SlotType DEF Requeue
  <2>2. queue' \in [Queues -> Seq(Envelope)]
    BY <1>5, RequeueIs, PushType DEF Requeue
  <2> QED BY <1>5, <2>1, <2>2 DEF Requeue, TypeOK
<1>6. CASE Bury(w, i)
  <2>1. AfterBury(w, i) \in Task \cup {Idle} /\ EnvOf(w, i) \in Envelope
    BY <1>6, SlotIs, PhaseNames DEF Bury, AfterBury, InPhase
  <2>2. slot' \in [Workers \X Slots -> Task \cup {Idle}]
    BY <1>6, <2>1, SlotType DEF Bury
  <2>3. dlq' \in Seq(Envelope)
    BY <1>6, <2>1, Pushed DEF Bury, TypeOK
  <2> QED BY <1>6, <2>2, <2>3 DEF Bury, TypeOK
<1>7. CASE Trim(w, i)
  <2>1. slot' \in [Workers \X Slots -> Task \cup {Idle}]
    BY <1>7, SlotType DEF Trim
  <2>2. dlq' \in Seq(Envelope)
    BY <1>7, ExcessIs, Trimmed DEF Trim, TypeOK
  <2>3. fate' \in [Jobs -> SUBSET Fates]
    BY <1>7 DEF Trim, TypeOK, Fates
  <2> QED BY <1>7, <2>1, <2>2, <2>3 DEF Trim, TypeOK
<1> QED BY <1>1, <1>2, <1>3, <1>4, <1>5, <1>6, <1>7 DEF TaskStep

LEMMA TypeOfAdversity ==
    ASSUME TInv, NEW w \in Workers, Adversity(w)
    PROVE  TypeOK'
<1> USE DEF redisVars, memVars, ghosts
<1> TypeOK
  BY DEF TInv
<1>1. CASE HsetError(w)
  BY <1>1, MishapType DEF HsetError, TypeOK, LoopStates
<1>2. CASE PopError(w)
  <2>1. queue' \in [Queues -> Seq(Envelope)]
    BY <1>2, TakeType DEF PopError, TypeOK
  <2> QED BY <1>2, <2>1, MishapType DEF PopError, TypeOK, LoopStates
<1>3. CASE Crash(w)
  BY <1>3, ForgetType, MishapType DEF Crash, Forget, TypeOK, LoopStates
<1>4. CASE StopListening(w)
  BY <1>4, StopType DEF StopListening, TypeOK, LoopStates
<1>5. CASE StopDroppingJob(w)
  <2>1. queue' \in [Queues -> Seq(Envelope)]
    BY <1>5, TakeType DEF StopDroppingJob, TypeOK
  <2> QED BY <1>5, <2>1, MishapType, StopType DEF StopDroppingJob, TypeOK, LoopStates
<1>6. CASE StopSleeping(w)
  BY <1>6, ForgetType, StopType DEF StopSleeping, Forget, TypeOK, LoopStates
<1>7. ASSUME NEW i \in Slots, RequeueTwice(w, i) PROVE TypeOK'
  <2> DEFINE e == NextAttempt(EnvOf(w, i))
             q == QueueOf[EnvOf(w, i).job]
  <2>1. e \in Envelope /\ q \in Queues
    BY <1>7, RequeueIs DEF RequeueTwice
  <2>2. queue[q] \o <<e, e>> \in Seq(Envelope)
    BY <2>1, ConcatProperties DEF TypeOK
  <2>3. queue' \in [Queues -> Seq(Envelope)]
    BY <1>7, <2>1, <2>2 DEF RequeueTwice, TypeOK
  <2>4. slot' \in [Workers \X Slots -> Task \cup {Idle}]
    BY <1>7, SlotType DEF RequeueTwice
  <2> QED BY <1>7, <2>3, <2>4, MishapType DEF RequeueTwice, TypeOK
<1>8. ASSUME NEW i \in Slots, BuryTwice(w, i) PROVE TypeOK'
  <2>1. AfterBury(w, i) \in Task \cup {Idle} /\ EnvOf(w, i) \in Envelope
    BY <1>8, SlotIs, PhaseNames DEF BuryTwice, AfterBury, InPhase
  <2>2. slot' \in [Workers \X Slots -> Task \cup {Idle}]
    BY <1>8, <2>1, SlotType DEF BuryTwice
  <2>3. dlq' \in Seq(Envelope)
    BY <1>8, <2>1, ConcatProperties DEF BuryTwice, TypeOK
  <2> QED BY <1>8, <2>2, <2>3, MishapType DEF BuryTwice, TypeOK
<1>9. ASSUME NEW i \in Slots, TaskRedisError(w, i) PROVE TypeOK'
  <2>1. slot' \in [Workers \X Slots -> Task \cup {Idle}]
    BY <1>9, SlotType DEF TaskRedisError
  <2> QED BY <1>9, <2>1, MishapType DEF TaskRedisError, TypeOK
<1> QED BY <1>1, <1>2, <1>3, <1>4, <1>5, <1>6, <1>7, <1>8, <1>9 DEF Adversity

LEMMA TypeStep == ASSUME TInv, [Next]_vars PROVE TypeOK'
<1> TypeOK
  BY DEF TInv
<1>1. ASSUME NEW j \in Jobs, Produce(j) PROVE TypeOK'
  <2>1. [job |-> j, attempt |-> 1] \in Envelope /\ QueueOf[j] \in Queues
    BY ConstantsAssumption DEF Envelope, Attempts
  <2>2. queue' \in [Queues -> Seq(Envelope)]
    BY <1>1, <2>1, PushType DEF Produce
  <2> QED BY <1>1, <2>2 DEF Produce, TypeOK, memVars
<1>2. CASE UNCHANGED vars
  BY <1>2 DEF vars, TypeOK
<1> QED BY <1>1, <1>2, TypeOfLoop, TypeOfTask, TypeOfAdversity DEF Next

LEMMA HandLineStep == ASSUME TInv, [Next]_vars PROVE HandLine'
<1> TypeOK /\ HandLine
  BY DEF TInv
<1> USE DEF redisVars, memVars, ghosts
<1>1. ASSUME NEW w \in Workers, LoopStep(w) PROVE HandLine'
  BY <1>1 DEF LoopStep, Pop, DiscardUnreadable, CreateTask, Wake, Exit, Restart, TypeOK, HandLine
<1>2. ASSUME NEW w \in Workers, NEW i \in Slots, TaskStep(w, i) PROVE UNCHANGED <<loop, hand>>
  BY <1>2 DEF TaskStep, Start, DiscardUnhandled, Finish, Fail, Backoff, Requeue, Bury, Trim
<1>3. ASSUME NEW w \in Workers, Adversity(w) PROVE HandLine'
  BY <1>3 DEF Adversity, HsetError, PopError, Crash, StopListening, StopDroppingJob, StopSleeping, Forget,
              RequeueTwice, BuryTwice, TaskRedisError, TypeOK, HandLine
<1>4. ASSUME NEW j \in Jobs, Produce(j) PROVE UNCHANGED <<loop, hand>>
  BY <1>4 DEF Produce
<1>5. CASE UNCHANGED vars
  BY <1>5 DEF vars, HandLine
<1> QED BY <1>1, <1>2, <1>3, <1>4, <1>5 DEF Next, HandLine

LEMMA AfterBuryIs ==
    ASSUME TypeOK, NEW w \in Workers, NEW i \in Slots, slot[<<w, i>>].phase = "failed"
    PROVE  /\ AfterBury(w, i) \in Task \cup {Idle}
           /\ AfterBury(w, i).phase \in {"idle", "trimming"}
<1>1. slot[<<w, i>>] \in Task /\ [slot[<<w, i>>] EXCEPT !.phase = "trimming"] \in Task
  BY SlotIs, PhaseNames
<1>2. [slot[<<w, i>>] EXCEPT !.phase = "trimming"].phase = "trimming"
  BY <1>1 DEF Task
<1> QED BY <1>1, <1>2 DEF AfterBury, Idle

\* A slot takes another task, or none.
LEMMA BackoffKept ==
    ASSUME TInv, NEW w \in Workers, NEW i \in Slots, NEW t \in Task \cup {Idle}, SetSlot(w, i, t),
           t.phase = "backoff" => MayRetry(t.env)
    PROVE  BackoffLine'
<1> SUFFICES ASSUME NEW v \in Workers, NEW k \in Slots, InPhase(v, k, "backoff")' PROVE MayRetry(EnvOf(v, k))'
  BY DEF BackoffLine
<1>1. slot' = [slot EXCEPT ![<<w, i>>] = t] /\ slot \in [Workers \X Slots -> Task \cup {Idle}]
  BY DEF SetSlot, TInv, TypeOK
<1>2. CASE v = w /\ k = i
  <2>1. slot'[<<v, k>>] = t
    BY <1>1, <1>2
  <2> QED BY <2>1 DEF InPhase, EnvOf, MayRetry
<1>3. CASE ~ (v = w /\ k = i)
  <2>1. slot'[<<v, k>>] = slot[<<v, k>>]
    BY <1>1, <1>3
  <2>2. InPhase(v, k, "backoff")
    BY <2>1 DEF InPhase
  <2> QED BY <2>1, <2>2 DEF TInv, BackoffLine, EnvOf, MayRetry
<1> QED BY <1>2, <1>3

LEMMA BackoffLineStep == ASSUME TInv, [Next]_vars PROVE BackoffLine'
<1> TypeOK /\ BackoffLine
  BY DEF TInv
<1> USE DEF redisVars, memVars, ghosts
<1>0. ASSUME UNCHANGED slot PROVE BackoffLine'
  BY <1>0 DEF BackoffLine, InPhase, EnvOf, MayRetry
<1>1. ASSUME NEW w \in Workers, LoopStep(w) PROVE UNCHANGED slot
  BY <1>1 DEF LoopStep, Pop, DiscardUnreadable, CreateTask, Wake, Exit, Restart
<1>2. ASSUME NEW w \in Workers, NEW i \in Slots, TaskStep(w, i) PROVE BackoffLine'
  <2>1. CASE Start(w, i)
    <3> DEFINE t == [phase |-> "running", env |-> Head(waiting[w])]
    <3>1. Head(waiting[w]) \in Envelope
      BY <2>1, Popped DEF Start, Acquires, TypeOK
    <3>2. t \in Task /\ t.phase # "backoff"
      BY <3>1, PhaseNames DEF Task
    <3> QED BY <2>1, <3>2, BackoffKept DEF Start
  <2>2. CASE DiscardUnhandled(w, i)
    BY <2>2, <1>0 DEF DiscardUnhandled
  <2>3. CASE Finish(w, i) \/ Requeue(w, i) \/ Trim(w, i)
    <3>1. SetSlot(w, i, Idle) /\ Idle.phase # "backoff"
      BY <2>3 DEF Finish, Requeue, Trim, Idle
    <3> QED BY <3>1, BackoffKept
  <2>4. CASE Fail(w, i) \/ Backoff(w, i)
    <3>1. slot[<<w, i>>] \in Task
      BY <2>4, SlotIs, PhaseNames DEF Fail, Backoff, InPhase
    <3>2. PICK p \in Phases : SetSlot(w, i, [slot[<<w, i>>] EXCEPT !.phase = p]) /\ (p = "backoff" => MayRetry(EnvOf(w, i)))
      BY <2>4, PhaseNames DEF Fail, Backoff
    <3> DEFINE t == [slot[<<w, i>>] EXCEPT !.phase = p]
    <3>3. t \in Task /\ t.phase = p /\ t.env = EnvOf(w, i)
      BY <3>1, SlotIs DEF Task, EnvOf
    <3> QED BY <3>2, <3>3, BackoffKept
  <2>5. CASE Bury(w, i)
    <3>1. AfterBury(w, i) \in Task \cup {Idle} /\ AfterBury(w, i).phase # "backoff"
      BY <2>5, AfterBuryIs DEF Bury, InPhase
    <3> QED BY <2>5, <3>1, BackoffKept DEF Bury
  <2> QED BY <1>2, <2>1, <2>2, <2>3, <2>4, <2>5 DEF TaskStep
<1>3. ASSUME NEW w \in Workers, Adversity(w) PROVE BackoffLine'
  <2>1. CASE HsetError(w) \/ PopError(w) \/ StopListening(w) \/ StopDroppingJob(w)
    BY <2>1, <1>0 DEF HsetError, PopError, StopListening, StopDroppingJob
  <2>2. CASE Crash(w) \/ StopSleeping(w)
    <3>1. Forget(w)
      BY <2>2 DEF Crash, StopSleeping
    <3> SUFFICES ASSUME NEW v \in Workers, NEW k \in Slots, InPhase(v, k, "backoff")' PROVE MayRetry(EnvOf(v, k))'
      BY DEF BackoffLine
    <3>2. slot'[<<v, k>>] = slot[<<v, k>>]
      BY <3>1, SlotIs DEF Forget, InPhase, Idle
    <3> QED BY <3>2 DEF BackoffLine, InPhase, EnvOf, MayRetry
  <2>3. ASSUME NEW i \in Slots, RequeueTwice(w, i) \/ TaskRedisError(w, i) PROVE BackoffLine'
    <3>1. SetSlot(w, i, Idle) /\ Idle.phase # "backoff"
      BY <2>3 DEF RequeueTwice, TaskRedisError, Idle
    <3> QED BY <3>1, BackoffKept
  <2>4. ASSUME NEW i \in Slots, BuryTwice(w, i) PROVE BackoffLine'
    <3>1. AfterBury(w, i) \in Task \cup {Idle} /\ AfterBury(w, i).phase # "backoff"
      BY <2>4, AfterBuryIs DEF BuryTwice, InPhase
    <3> QED BY <2>4, <3>1, BackoffKept DEF BuryTwice
  <2> QED BY <1>3, <2>1, <2>2, <2>3, <2>4 DEF Adversity
<1>4. ASSUME NEW j \in Jobs, Produce(j) PROVE UNCHANGED slot
  BY <1>4 DEF Produce
<1>5. CASE UNCHANGED vars
  BY <1>0, <1>5 DEF vars
<1> QED BY <1>0, <1>1, <1>2, <1>3, <1>4, <1>5 DEF Next

LEMMA WorkerInit == Init => TInv
<1> SUFFICES ASSUME Init PROVE BackoffLine /\ HandLine
  BY TypeInit DEF TInv
<1> QED BY DEF Init, BackoffLine, HandLine, InPhase, Idle

LEMMA WorkerStep == ASSUME TInv, [Next]_vars PROVE TInv'
  BY TypeStep, HandLineStep, BackoffLineStep DEF TInv

LEMMA WorkerInvariant == Spec => []TInv
<1>1. TInv /\ [Next]_vars => TInv'
  BY WorkerStep
<1> QED BY <1>1, WorkerInit, PTL DEF Spec

\* Every variable keeps its type: attempts stay between 1 and MaxRetries on every list, in
\* every process and among the dead letters (worker.py:82).
THEOREM JobTypes == Spec => []TypeOK
<1>1. TInv => TypeOK
  BY DEF TInv
<1> QED BY <1>1, WorkerInvariant, PTL

-----------------------------------------------------------------------------
(* Spots                                                                   *)

LEMMA Tagged ==
    ASSUME NEW j, NEW p
    PROVE  /\ p \in QueueSpots(j) => p[1] = "queue"
           /\ p \in HandSpots(j) => p[1] = "hand"
           /\ p \in WaitSpots(j) => p[1] = "waiting"
           /\ p \in SlotSpots(j) => p[1] = "slot"
           /\ p \in DlqSpots(j) => p[1] = "dlq"
           /\ p \in Exits(j) => p[1] = "fate"
  BY DEF QueueSpots, HandSpots, WaitSpots, SlotSpots, DlqSpots, Exits

\* A job in one family of spots is in no other, and in one spot of it.
LEMMA Alone ==
    ASSUME OneSpot, NEW j \in Jobs, NEW p, p \in Spots(j)
    PROVE  /\ j \in produced /\ Spots(j) = {p}
           /\ p[1] # "queue" => QueueSpots(j) = {}
           /\ p[1] # "hand" => HandSpots(j) = {}
           /\ p[1] # "waiting" => WaitSpots(j) = {}
           /\ p[1] # "slot" => SlotSpots(j) = {}
           /\ p[1] # "dlq" => DlqSpots(j) = {}
           /\ p[1] # "fate" => Exits(j) = {}
<1>1. j \in produced /\ Spots(j) = {p}
  BY DEF OneSpot
<1>2. \A q \in Spots(j) : q[1] = p[1]
  BY <1>1
<1>3. /\ \A q \in QueueSpots(j) : q \in Spots(j)
      /\ \A q \in HandSpots(j) : q \in Spots(j)
      /\ \A q \in WaitSpots(j) : q \in Spots(j)
      /\ \A q \in SlotSpots(j) : q \in Spots(j)
      /\ \A q \in DlqSpots(j) : q \in Spots(j)
      /\ \A q \in Exits(j) : q \in Spots(j)
  BY DEF Spots
<1> QED BY <1>1, <1>2, <1>3, Tagged

\* One job moves from a to b.
LEMMA MoveOne ==
    ASSUME OneSpot, NEW e \in Jobs, Spots(e) # {} \/ produced' = produced \cup {e},
           produced' \in {produced, produced \cup {e}},
           \E b : Spots(e)' = {b}, \A j \in Jobs \ {e} : Spots(j)' = Spots(j)
    PROVE  OneSpot'
<1> SUFFICES ASSUME NEW j \in Jobs
             PROVE  IF j \in produced' THEN \E p : Spots(j)' = {p} ELSE Spots(j)' = {}
  BY DEF OneSpot
<1>1. CASE j = e
  BY <1>1 DEF OneSpot
<1>2. CASE j # e
  BY <1>2 DEF OneSpot
<1> QED BY <1>1, <1>2

LEMMA TakeSpots ==
    ASSUME TInv, AllOnce, NEW w, NEW q \in Queues, Served(w, q), TakeHead(q)
    PROVE  /\ Head(queue[q]) \in Envelope /\ Head(queue[q]).job \in Jobs
           /\ <<"queue", q>> \in QueueSpots(Head(queue[q]).job)
           /\ \A j : QueueSpots(j)' = QueueSpots(j) \ (IF j = Head(queue[q]).job THEN {<<"queue", q>>} ELSE {})
           /\ \A x \in Queues : Once(queue'[x])
           /\ \A r : (\A x \in Queues : Ready(queue[x], r)) =>
                 /\ \A x \in Queues : Ready(queue'[x], r)
                 /\ r[Head(queue[q]).job] = Head(queue[q]).attempt - 1
<1> DEFINE e == Head(queue[q])
<1>1. queue[q] \in Seq(Envelope) /\ queue[q] # <<>>
  BY ServedIs DEF TInv
<1>2. queue'[q] = Tail(queue[q]) /\ \A x \in Queues \ {q} : queue'[x] = queue[x]
  BY DEF TakeHead, TInv, TypeOK
<1>3. e \in Envelope /\ e.job \in Jobs /\ Holds(queue[q], e.job)
  BY <1>1, Popped DEF Envelope
<1>4. Once(queue[q]) /\ Once(queue'[q]) /\ ~ Holds(queue'[q], e.job)
  BY <1>1, <1>2, Popped DEF AllOnce
<1>5. \A j : Holds(queue'[q], j) <=> Holds(queue[q], j) /\ j # e.job
  BY <1>1, <1>2, <1>4, Popped
<1>6. ASSUME NEW j, NEW p
      PROVE  p \in QueueSpots(j)' <=> p \in QueueSpots(j) /\ ~ (j = e.job /\ p = <<"queue", q>>)
  <2>1. p \in QueueSpots(j)' <=> \E x \in Queues : p = <<"queue", x>> /\ Holds(queue'[x], j)
    BY DEF QueueSpots
  <2>2. p \in QueueSpots(j) <=> \E x \in Queues : p = <<"queue", x>> /\ Holds(queue[x], j)
    BY DEF QueueSpots
  <2>3. \A x \in Queues : Holds(queue'[x], j) <=> Holds(queue[x], j) /\ ~ (x = q /\ j = e.job)
    BY <1>2, <1>5
  <2> QED BY <2>1, <2>2, <2>3
<1>7. <<"queue", q>> \in QueueSpots(e.job)
  BY <1>3 DEF QueueSpots
<1>8. \A x \in Queues : Once(queue'[x])
  BY <1>2, <1>4 DEF AllOnce
<1>9. ASSUME NEW r, \A x \in Queues : Ready(queue[x], r)
      PROVE  (\A x \in Queues : Ready(queue'[x], r)) /\ r[e.job] = e.attempt - 1
  BY <1>1, <1>2, <1>9, Popped
<1> QED BY <1>3, <1>6, <1>7, <1>8, <1>9

LEMMA PushSpots ==
    ASSUME TInv, AllOnce, NEW q \in Queues, NEW e \in Envelope, QueueSpots(e.job) = {},
           queue' = [queue EXCEPT ![q] = Append(@, e)]
    PROVE  /\ \A j : QueueSpots(j)' = QueueSpots(j) \cup (IF j = e.job THEN {<<"queue", q>>} ELSE {})
           /\ \A x \in Queues : Once(queue'[x])
           /\ \A r : (\A x \in Queues : Ready(queue[x], r)) /\ r[e.job] = e.attempt - 1 =>
                 \A x \in Queues : Ready(queue'[x], r)
<1>1. queue[q] \in Seq(Envelope) /\ queue'[q] = Append(queue[q], e)
      /\ \A x \in Queues \ {q} : queue'[x] = queue[x]
  BY DEF TInv, TypeOK
<1>2. ~ Holds(queue[q], e.job)
  BY DEF QueueSpots
<1>3. \A j : Holds(queue'[q], j) <=> Holds(queue[q], j) \/ j = e.job
  BY <1>1, Pushed
<1>4. ASSUME NEW j, NEW p
      PROVE  p \in QueueSpots(j)' <=> p \in QueueSpots(j) \/ (j = e.job /\ p = <<"queue", q>>)
  <2>1. p \in QueueSpots(j)' <=> \E x \in Queues : p = <<"queue", x>> /\ Holds(queue'[x], j)
    BY DEF QueueSpots
  <2>2. p \in QueueSpots(j) <=> \E x \in Queues : p = <<"queue", x>> /\ Holds(queue[x], j)
    BY DEF QueueSpots
  <2>3. \A x \in Queues : Holds(queue'[x], j) <=> Holds(queue[x], j) \/ (x = q /\ j = e.job)
    BY <1>1, <1>3
  <2> QED BY <2>1, <2>2, <2>3
<1>5. \A x \in Queues : Once(queue'[x])
  BY <1>1, <1>2, Pushed DEF AllOnce
<1>6. ASSUME NEW r, \A x \in Queues : Ready(queue[x], r), r[e.job] = e.attempt - 1
      PROVE  \A x \in Queues : Ready(queue'[x], r)
  BY <1>1, <1>6, Pushed
<1> QED BY <1>4, <1>5, <1>6

\* The semaphore lets the first in.
LEMMA AcquireSpots ==
    ASSUME TInv, AllOnce, NEW w \in Workers, NEW i, Acquires(w, i)
    PROVE  /\ Head(waiting[w]) \in Envelope /\ Head(waiting[w]).job \in Jobs
           /\ <<"waiting", w>> \in WaitSpots(Head(waiting[w]).job)
           /\ \A j : WaitSpots(j)' = WaitSpots(j) \ (IF j = Head(waiting[w]).job THEN {<<"waiting", w>>} ELSE {})
           /\ \A v \in Workers : Once(waiting'[v])
           /\ \A r : (\A v \in Workers : Ready(waiting[v], r)) =>
                 /\ \A v \in Workers : Ready(waiting'[v], r)
                 /\ r[Head(waiting[w]).job] = Head(waiting[w]).attempt - 1
<1> DEFINE e == Head(waiting[w])
<1>1. waiting[w] \in Seq(Envelope) /\ waiting[w] # <<>>
  BY DEF Acquires, TInv, TypeOK
<1>2. waiting'[w] = Tail(waiting[w]) /\ \A v \in Workers \ {w} : waiting'[v] = waiting[v]
  BY DEF Acquires, TInv, TypeOK
<1>3. e \in Envelope /\ e.job \in Jobs /\ Holds(waiting[w], e.job)
  BY <1>1, Popped DEF Envelope
<1>4. Once(waiting[w]) /\ Once(waiting'[w]) /\ ~ Holds(waiting'[w], e.job)
  BY <1>1, <1>2, Popped DEF AllOnce
<1>5. \A j : Holds(waiting'[w], j) <=> Holds(waiting[w], j) /\ j # e.job
  BY <1>1, <1>2, <1>4, Popped
<1>6. ASSUME NEW j, NEW p
      PROVE  p \in WaitSpots(j)' <=> p \in WaitSpots(j) /\ ~ (j = e.job /\ p = <<"waiting", w>>)
  <2>1. p \in WaitSpots(j)' <=> \E v \in Workers : p = <<"waiting", v>> /\ Holds(waiting'[v], j)
    BY DEF WaitSpots
  <2>2. p \in WaitSpots(j) <=> \E v \in Workers : p = <<"waiting", v>> /\ Holds(waiting[v], j)
    BY DEF WaitSpots
  <2>3. \A v \in Workers : Holds(waiting'[v], j) <=> Holds(waiting[v], j) /\ ~ (v = w /\ j = e.job)
    BY <1>2, <1>5
  <2> QED BY <2>1, <2>2, <2>3
<1>7. <<"waiting", w>> \in WaitSpots(e.job)
  BY <1>3 DEF WaitSpots
<1>8. \A v \in Workers : Once(waiting'[v])
  BY <1>2, <1>4 DEF AllOnce
<1>9. ASSUME NEW r, \A v \in Workers : Ready(waiting[v], r)
      PROVE  (\A v \in Workers : Ready(waiting'[v], r)) /\ r[e.job] = e.attempt - 1
  BY <1>1, <1>2, <1>9, Popped
<1> QED BY <1>3, <1>6, <1>7, <1>8, <1>9

LEMMA CreateSpots ==
    ASSUME TInv, AllOnce, NEW w \in Workers, NEW e \in Envelope, WaitSpots(e.job) = {},
           waiting' = [waiting EXCEPT ![w] = Append(@, e)]
    PROVE  /\ \A j : WaitSpots(j)' = WaitSpots(j) \cup (IF j = e.job THEN {<<"waiting", w>>} ELSE {})
           /\ \A v \in Workers : Once(waiting'[v])
           /\ \A r : (\A v \in Workers : Ready(waiting[v], r)) /\ r[e.job] = e.attempt - 1 =>
                 \A v \in Workers : Ready(waiting'[v], r)
<1>1. waiting[w] \in Seq(Envelope) /\ waiting'[w] = Append(waiting[w], e)
      /\ \A v \in Workers \ {w} : waiting'[v] = waiting[v]
  BY DEF TInv, TypeOK
<1>2. ~ Holds(waiting[w], e.job)
  BY DEF WaitSpots
<1>3. \A j : Holds(waiting'[w], j) <=> Holds(waiting[w], j) \/ j = e.job
  BY <1>1, Pushed
<1>4. ASSUME NEW j, NEW p
      PROVE  p \in WaitSpots(j)' <=> p \in WaitSpots(j) \/ (j = e.job /\ p = <<"waiting", w>>)
  <2>1. p \in WaitSpots(j)' <=> \E v \in Workers : p = <<"waiting", v>> /\ Holds(waiting'[v], j)
    BY DEF WaitSpots
  <2>2. p \in WaitSpots(j) <=> \E v \in Workers : p = <<"waiting", v>> /\ Holds(waiting[v], j)
    BY DEF WaitSpots
  <2>3. \A v \in Workers : Holds(waiting'[v], j) <=> Holds(waiting[v], j) \/ (v = w /\ j = e.job)
    BY <1>1, <1>3
  <2> QED BY <2>1, <2>2, <2>3
<1>5. \A v \in Workers : Once(waiting'[v])
  BY <1>1, <1>2, Pushed DEF AllOnce
<1>6. ASSUME NEW r, \A v \in Workers : Ready(waiting[v], r), r[e.job] = e.attempt - 1
      PROVE  \A v \in Workers : Ready(waiting'[v], r)
  BY <1>1, <1>6, Pushed
<1> QED BY <1>4, <1>5, <1>6

LEMMA LeaveSpots ==
    ASSUME TInv, NEW e \in Jobs, NEW f, Leaves(e, f)
    PROVE  \A j \in Jobs : Exits(j)' = Exits(j) \cup (IF j = e THEN {<<"fate", f>>} ELSE {})
<1> SUFFICES ASSUME NEW j \in Jobs, NEW p
             PROVE  p \in Exits(j)' <=> p \in Exits(j) \/ (j = e /\ p = <<"fate", f>>)
  OBVIOUS
<1>1. \A x : x \in fate'[j] <=> x \in fate[j] \/ (j = e /\ x = f)
  BY DEF Leaves, TInv, TypeOK
<1>2. p \in Exits(j)' <=> \E x : x \in fate'[j] /\ p = <<"fate", x>>
  BY DEF Exits
<1>3. p \in Exits(j) <=> \E x : x \in fate[j] /\ p = <<"fate", x>>
  BY DEF Exits
<1> QED BY <1>1, <1>2, <1>3

LEMMA HandOverSpots ==
    ASSUME TInv, NEW w \in Workers, NEW x \in Envelope \cup {NoEnvelope}, hand' = [hand EXCEPT ![w] = x]
    PROVE  \A j \in Jobs : HandSpots(j)' = IF x.job = j THEN HandSpots(j) \cup {<<"hand", w>>}
                                           ELSE HandSpots(j) \ {<<"hand", w>>}
<1> SUFFICES ASSUME NEW j \in Jobs, NEW p
             PROVE  p \in HandSpots(j)' <=> IF p = <<"hand", w>> THEN x.job = j ELSE p \in HandSpots(j)
  OBVIOUS
<1>1. hand'[w] = x /\ \A v \in Workers \ {w} : hand'[v] = hand[v]
  BY DEF TInv, TypeOK
<1>2. p \in HandSpots(j)' <=> \E v \in Workers : p = <<"hand", v>> /\ hand'[v].job = j
  BY DEF HandSpots
<1>3. p \in HandSpots(j) <=> \E v \in Workers : p = <<"hand", v>> /\ hand[v].job = j
  BY DEF HandSpots
<1>4. CASE p = <<"hand", w>>
  BY <1>1, <1>2, <1>4
<1>5. CASE p # <<"hand", w>>
  BY <1>1, <1>2, <1>3, <1>5
<1> QED BY <1>4, <1>5

OwnedPhases == {"running", "failed", "backoff"}

LEMMA SlotChanged ==
    ASSUME TInv, NEW here \in Workers \X Slots, NEW t \in Task \cup {Idle}, slot' = [slot EXCEPT ![here] = t]
    PROVE  /\ \A j \in Jobs :
                 SlotSpots(j)' = IF t.phase \in OwnedPhases /\ t.env.job = j
                                 THEN SlotSpots(j) \cup {<<"slot", here>>}
                                 ELSE SlotSpots(j) \ {<<"slot", here>>}
           /\ \A s \in Owned' :
                 \/ s = here /\ slot'[s] = t /\ t.phase \in OwnedPhases
                 \/ s # here /\ s \in Owned /\ slot'[s] = slot[s]
<1>1. slot'[here] = t /\ \A s \in (Workers \X Slots) \ {here} : slot'[s] = slot[s]
  BY DEF TInv, TypeOK
<1>2. \A s : s \in Owned' <=> s \in Workers \X Slots /\ slot'[s].phase \in OwnedPhases
  BY DEF Owned, OwnedPhases
<1>3. \A s : s \in Owned <=> s \in Workers \X Slots /\ slot[s].phase \in OwnedPhases
  BY DEF Owned, OwnedPhases
<1>4. ASSUME NEW j \in Jobs, NEW p
      PROVE  p \in SlotSpots(j)' <=> IF p = <<"slot", here>> THEN t.phase \in OwnedPhases /\ t.env.job = j
                                    ELSE p \in SlotSpots(j)
  <2>1. p \in SlotSpots(j)' <=> \E s \in Owned' : p = <<"slot", s>> /\ slot'[s].env.job = j
    BY DEF SlotSpots
  <2>2. p \in SlotSpots(j) <=> \E s \in Owned : p = <<"slot", s>> /\ slot[s].env.job = j
    BY DEF SlotSpots
  <2>3. CASE p = <<"slot", here>>
    BY <1>1, <1>2, <2>1, <2>3
  <2>4. CASE p # <<"slot", here>>
    BY <1>1, <1>2, <1>3, <2>1, <2>2, <2>4
  <2> QED BY <2>3, <2>4
<1>5. \A j \in Jobs : SlotSpots(j)' = IF t.phase \in OwnedPhases /\ t.env.job = j
                                      THEN SlotSpots(j) \cup {<<"slot", here>>}
                                      ELSE SlotSpots(j) \ {<<"slot", here>>}
  BY <1>4
<1>6. \A s \in Owned' : \/ s = here /\ slot'[s] = t /\ t.phase \in OwnedPhases
                        \/ s # here /\ s \in Owned /\ slot'[s] = slot[s]
  BY <1>1, <1>2, <1>3
<1> QED BY <1>5, <1>6

LEMMA SlotChanges ==
    ASSUME TInv, NEW w \in Workers, NEW i \in Slots, NEW t \in Task \cup {Idle}, SetSlot(w, i, t)
    PROVE  /\ \A j \in Jobs :
                 SlotSpots(j)' = IF t.phase \in OwnedPhases /\ t.env.job = j
                                 THEN SlotSpots(j) \cup {<<"slot", <<w, i>>>>}
                                 ELSE SlotSpots(j) \ {<<"slot", <<w, i>>>>}
           /\ \A s \in Owned' :
                 \/ s = <<w, i>> /\ slot'[s] = t /\ t.phase \in OwnedPhases
                 \/ s # <<w, i>> /\ s \in Owned /\ slot'[s] = slot[s]
<1>1. PICK here \in Workers \X Slots : here = <<w, i>>
  OBVIOUS
<1>2. slot' = [slot EXCEPT ![here] = t]
  BY <1>1 DEF SetSlot
<1> QED BY <1>1, <1>2, SlotChanged

LEMMA OwnedSpot ==
    ASSUME TInv, NEW w \in Workers, NEW i \in Slots, slot[<<w, i>>].phase \in OwnedPhases
    PROVE  /\ EnvOf(w, i) \in Envelope /\ EnvOf(w, i).job \in Jobs
           /\ <<"slot", <<w, i>>>> \in SlotSpots(EnvOf(w, i).job)
           /\ <<w, i>> \in Owned
<1>1. EnvOf(w, i) \in Envelope /\ EnvOf(w, i).job \in Jobs
  BY SlotIs, PhaseNames DEF TInv, OwnedPhases
<1>2. <<w, i>> \in Owned
  BY DEF Owned, OwnedPhases
<1> QED BY <1>1, <1>2 DEF SlotSpots, EnvOf

LEMMA Elsewhere ==
    ASSUME TInv, NEW w \in Workers, NEW i \in Slots, slot[<<w, i>>].phase \notin OwnedPhases
    PROVE  \A j : <<"slot", <<w, i>>>> \notin SlotSpots(j)
  BY DEF SlotSpots, Owned, OwnedPhases

LEMMA BurySpots ==
    ASSUME TInv, AllOnce, NEW e \in Envelope, DlqSpots(e.job) = {}, dlq' = Append(dlq, e)
    PROVE  /\ \A j : DlqSpots(j)' = DlqSpots(j) \cup (IF j = e.job THEN {<<"dlq", "dlq">>} ELSE {})
           /\ Once(dlq')
           /\ \A r : SpentRuns(dlq, r) /\ r[e.job] = MaxRetries => SpentRuns(dlq', r)
<1>1. dlq \in Seq(Envelope) /\ ~ Holds(dlq, e.job) /\ Once(dlq)
  BY DEF TInv, TypeOK, DlqSpots, AllOnce
<1>2. \A j : Holds(dlq', j) <=> Holds(dlq, j) \/ e.job = j
  BY <1>1, Pushed
<1>3. Once(dlq') /\ \A r : SpentRuns(dlq, r) /\ r[e.job] = MaxRetries => SpentRuns(dlq', r)
  BY <1>1, Pushed
<1> QED BY <1>2, <1>3 DEF DlqSpots

LEMMA SameSpots ==
    /\ UNCHANGED queue => \A j : QueueSpots(j)' = QueueSpots(j)
    /\ UNCHANGED hand => \A j : HandSpots(j)' = HandSpots(j)
    /\ UNCHANGED waiting => \A j : WaitSpots(j)' = WaitSpots(j)
    /\ UNCHANGED slot => (\A j : SlotSpots(j)' = SlotSpots(j)) /\ Owned' = Owned
    /\ UNCHANGED dlq => \A j : DlqSpots(j)' = DlqSpots(j)
    /\ UNCHANGED fate => \A j : Exits(j)' = Exits(j)
<1>1. UNCHANGED queue => \A j : QueueSpots(j)' = QueueSpots(j)
  BY DEF QueueSpots
<1>2. UNCHANGED hand => \A j : HandSpots(j)' = HandSpots(j)
  BY DEF HandSpots
<1>3. UNCHANGED waiting => \A j : WaitSpots(j)' = WaitSpots(j)
  BY DEF WaitSpots
<1>4. UNCHANGED slot => (\A j : SlotSpots(j)' = SlotSpots(j)) /\ Owned' = Owned
  BY DEF SlotSpots, Owned
<1>5. UNCHANGED dlq => \A j : DlqSpots(j)' = DlqSpots(j)
  BY DEF DlqSpots
<1>6. UNCHANGED fate => \A j : Exits(j)' = Exits(j)
  BY DEF Exits
<1> QED BY <1>1, <1>2, <1>3, <1>4, <1>5, <1>6

-----------------------------------------------------------------------------
(* Steps without a failure                                                 *)

\* One job goes from the spots a to the spots b.
Moved(j, a, b) ==
    /\ Spots(j) = a
    /\ Spots(j)' = b
    /\ \A x \in Jobs \ {j} : Spots(x)' = Spots(x)

LEMMA CalmProduce ==
    ASSUME TInv, Calm, NEW j \in Jobs, Produce(j)
    PROVE  Calm' /\ Moved(j, {}, {<<"queue", QueueOf[j]>>})
<1> DEFINE e == [job |-> j, attempt |-> 1]
           q == QueueOf[j]
<1>0. OneSpot /\ AllOnce /\ RunsLine /\ Awake
  BY DEF Calm
<1>1. e \in Envelope /\ e.job = j /\ e.attempt = 1 /\ q \in Queues /\ j \notin produced
  BY ConstantsAssumption DEF Envelope, Attempts, Produce
<1>2. queue' = [queue EXCEPT ![q] = Append(@, e)] /\ produced' = produced \cup {j}
      /\ UNCHANGED <<dlq, loop, hand, waiting, slot, runs, fate>>
  BY DEF Produce, memVars
<1> HIDE DEF e, q
<1>3. Spots(j) = {}
  BY <1>0, <1>1 DEF OneSpot
<1>4. QueueSpots(j) = {} /\ HandSpots(j) = {} /\ WaitSpots(j) = {} /\ SlotSpots(j) = {} /\ DlqSpots(j) = {} /\ Exits(j) = {}
  BY <1>3 DEF Spots
<1>5. /\ \A x : QueueSpots(x)' = QueueSpots(x) \cup (IF x = j THEN {<<"queue", q>>} ELSE {})
      /\ \A x \in Queues : Once(queue'[x])
      /\ \A r : (\A x \in Queues : Ready(queue[x], r)) /\ r[e.job] = e.attempt - 1 =>
            \A x \in Queues : Ready(queue'[x], r)
  <2>1. QueueSpots(e.job) = {}
    BY <1>1, <1>4
  <2> QED BY <1>0, <1>1, <1>2, <2>1, PushSpots
<1>6. Spots(j)' = {<<"queue", q>>} /\ \A x \in Jobs \ {j} : Spots(x)' = Spots(x)
  BY <1>2, <1>4, <1>5, SameSpots DEF Spots
<1>7. OneSpot'
  BY <1>0, <1>2, <1>6, MoveOne
<1>8. AllOnce'
  BY <1>0, <1>2, <1>5 DEF AllOnce
<1>9. RunsLine'
  <2>1. runs[j] = 0
    BY <1>0, <1>1 DEF RunsLine
  <2>2. \A x \in Queues : Ready(queue'[x], runs)
    BY <1>0, <1>1, <1>5, <2>1 DEF RunsLine
  <2>3. Owned' = Owned
    BY <1>2, SameSpots
  <2> QED BY <1>0, <1>2, <2>2, <2>3 DEF RunsLine
<1> QED BY <1>0, <1>2, <1>7, <1>8, <1>9, <1>3, <1>6 DEF Calm, Awake, Moved, q

LEMMA CalmPop ==
    ASSUME TInv, Calm, NEW w \in Workers, Pop(w)
    PROVE  Calm' /\ \E j \in Jobs, q \in Queues : Moved(j, {<<"queue", q>>}, {<<"hand", w>>})
<1>0. OneSpot /\ AllOnce /\ RunsLine /\ Awake
  BY DEF Calm
<1> PICK q \in Queues : /\ Served(w, q) /\ TakeHead(q) /\ hand' = [hand EXCEPT ![w] = Head(queue[q])]
  BY DEF Pop
<1>1. UNCHANGED <<dlq, waiting, slot, produced, runs, fate>> /\ loop' = [loop EXCEPT ![w] = "popped"]
  BY DEF Pop, ghosts
<1>2. PICK e \in Envelope :
         /\ e.job \in Jobs
         /\ <<"queue", q>> \in QueueSpots(e.job)
         /\ \A j : QueueSpots(j)' = QueueSpots(j) \ (IF j = e.job THEN {<<"queue", q>>} ELSE {})
         /\ \A x \in Queues : Once(queue'[x])
         /\ \A r : (\A x \in Queues : Ready(queue[x], r)) =>
               (\A x \in Queues : Ready(queue'[x], r)) /\ r[e.job] = e.attempt - 1
         /\ hand' = [hand EXCEPT ![w] = e]
  BY <1>0, TakeSpots
<1>3. /\ Spots(e.job) = {<<"queue", q>>} /\ HandSpots(e.job) = {} /\ WaitSpots(e.job) = {}
      /\ SlotSpots(e.job) = {} /\ DlqSpots(e.job) = {} /\ Exits(e.job) = {}
  <2>1. <<"queue", q>> \in Spots(e.job)
    BY <1>2 DEF Spots
  <2> QED BY <1>0, <1>2, <2>1, Alone
<1>4. \A j \in Jobs : <<"hand", w>> \notin HandSpots(j)
  <2>1. hand[w] = NoEnvelope /\ NoEnvelope.job \notin Jobs
    BY ConstantsAssumption DEF Pop, TInv, HandLine, NoEnvelope
  <2> QED BY <2>1 DEF HandSpots
<1>5. \A j \in Jobs : HandSpots(j)' = HandSpots(j) \cup (IF j = e.job THEN {<<"hand", w>>} ELSE {})
  <2>1. \A j \in Jobs : HandSpots(j)' = IF e.job = j THEN HandSpots(j) \cup {<<"hand", w>>}
                                         ELSE HandSpots(j) \ {<<"hand", w>>}
    BY <1>2, HandOverSpots
  <2> QED BY <1>4, <2>1
<1>6. QueueSpots(e.job)' = {}
  <2>1. QueueSpots(e.job) \subseteq {<<"queue", q>>}
    BY <1>3 DEF Spots
  <2> QED BY <1>2, <2>1
<1>7. Spots(e.job)' = {<<"hand", w>>}
  BY <1>1, <1>2, <1>3, <1>5, <1>6, SameSpots DEF Spots
<1>8. \A j \in Jobs \ {e.job} : Spots(j)' = Spots(j)
  BY <1>1, <1>2, <1>5, SameSpots DEF Spots
<1>9. OneSpot'
  BY <1>0, <1>1, <1>2, <1>3, <1>7, <1>8, MoveOne
<1>10. AllOnce'
  BY <1>0, <1>1, <1>2 DEF AllOnce
<1>11. RunsLine'
  <2>1. (\A x \in Queues : Ready(queue'[x], runs)) /\ runs[e.job] = e.attempt - 1
    BY <1>0, <1>2 DEF RunsLine
  <2>2. hand'[w] = e /\ \A v \in Workers \ {w} : hand'[v] = hand[v]
    BY <1>2 DEF TInv, TypeOK
  <2>3. \A v \in Workers : hand'[v] # NoEnvelope => runs[hand'[v].job] = hand'[v].attempt - 1
    BY <1>0, <2>1, <2>2 DEF RunsLine
  <2>4. Owned' = Owned
    BY <1>1, SameSpots
  <2> QED BY <1>0, <1>1, <2>1, <2>3, <2>4 DEF RunsLine
<1>12. Awake'
  BY <1>0, <1>1 DEF Awake, TInv, TypeOK
<1> QED BY <1>9, <1>10, <1>11, <1>12, <1>2, <1>3, <1>7, <1>8 DEF Calm, Moved

\* A job that is run again, and is on no list of this family, disturbs no count.
LEMMA RunOther ==
    ASSUME NEW s \in Seq(Envelope), NEW j, ~ Holds(s, j), NEW r, NEW r2,
           \A x \in Jobs \ {j} : r2[x] = r[x]
    PROVE  /\ Ready(s, r) => Ready(s, r2)
           /\ SpentRuns(s, r) => SpentRuns(s, r2)
<1>1. \A k \in 1..Len(s) : s[k].job \in Jobs \ {j}
  <2>1. \A k \in 1..Len(s) : s[k] \in Envelope
    BY ElementOfSeq
  <2>2. \A k \in 1..Len(s) : s[k].job # j
    BY DEF Holds
  <2> QED BY <2>1, <2>2 DEF Envelope
<1> QED BY <1>1 DEF Ready, SpentRuns

LEMMA CalmDiscardUnreadable ==
    ASSUME TInv, Calm, NEW w \in Workers, DiscardUnreadable(w)
    PROVE  Calm' /\ \E j \in Jobs, q \in Queues : Moved(j, {<<"queue", q>>}, {<<"fate", "discarded">>})
<1>0. OneSpot /\ AllOnce /\ RunsLine /\ Awake
  BY DEF Calm
<1> PICK q \in Queues : Served(w, q) /\ TakeHead(q) /\ Leaves(Head(queue[q]).job, "discarded")
  BY DEF DiscardUnreadable
<1>1. UNCHANGED <<dlq, loop, hand, waiting, slot, produced, runs>>
  BY DEF DiscardUnreadable, memVars
<1>2. PICK e \in Envelope :
         /\ e.job \in Jobs
         /\ <<"queue", q>> \in QueueSpots(e.job)
         /\ \A j : QueueSpots(j)' = QueueSpots(j) \ (IF j = e.job THEN {<<"queue", q>>} ELSE {})
         /\ \A x \in Queues : Once(queue'[x])
         /\ \A r : (\A x \in Queues : Ready(queue[x], r)) => \A x \in Queues : Ready(queue'[x], r)
         /\ Leaves(e.job, "discarded")
  BY <1>0, TakeSpots
<1>3. /\ Spots(e.job) = {<<"queue", q>>} /\ HandSpots(e.job) = {} /\ WaitSpots(e.job) = {}
      /\ SlotSpots(e.job) = {} /\ DlqSpots(e.job) = {} /\ Exits(e.job) = {}
  <2>1. <<"queue", q>> \in Spots(e.job)
    BY <1>2 DEF Spots
  <2> QED BY <1>0, <1>2, <2>1, Alone
<1>4. \A j \in Jobs : Exits(j)' = Exits(j) \cup (IF j = e.job THEN {<<"fate", "discarded">>} ELSE {})
  BY <1>2, LeaveSpots
<1>5. QueueSpots(e.job)' = {}
  <2>1. QueueSpots(e.job) \subseteq {<<"queue", q>>}
    BY <1>3 DEF Spots
  <2> QED BY <1>2, <2>1
<1>6. Spots(e.job)' = {<<"fate", "discarded">>}
  BY <1>1, <1>2, <1>3, <1>4, <1>5, SameSpots DEF Spots
<1>7. \A j \in Jobs \ {e.job} : Spots(j)' = Spots(j)
  BY <1>1, <1>2, <1>4, SameSpots DEF Spots
<1>8. OneSpot'
  BY <1>0, <1>1, <1>2, <1>3, <1>6, <1>7, MoveOne
<1>9. AllOnce'
  BY <1>0, <1>1, <1>2 DEF AllOnce
<1>10. RunsLine'
  <2>1. Owned' = Owned
    BY <1>1, SameSpots
  <2> QED BY <1>0, <1>1, <1>2, <2>1 DEF RunsLine
<1> QED BY <1>0, <1>1, <1>8, <1>9, <1>10, <1>2, <1>3, <1>6, <1>7 DEF Calm, Awake, Moved

LEMMA CalmCreateTask ==
    ASSUME TInv, Calm, NEW w \in Workers, CreateTask(w)
    PROVE  Calm' /\ \E j \in Jobs : Moved(j, {<<"hand", w>>}, {<<"waiting", w>>})
<1>0. OneSpot /\ AllOnce /\ RunsLine /\ Awake
  BY DEF Calm
<1>1. /\ UNCHANGED <<queue, dlq, slot, produced, runs, fate>> /\ loop' = [loop EXCEPT ![w] = "listening"]
      /\ hand' = [hand EXCEPT ![w] = NoEnvelope]
  BY DEF CreateTask, redisVars, ghosts
<1>2. PICK e \in Envelope : e = hand[w] /\ e.job \in Jobs
  BY DEF CreateTask, TInv, TypeOK, Envelope
<1>3. <<"hand", w>> \in HandSpots(e.job)
  BY <1>2 DEF HandSpots
<1>4. /\ Spots(e.job) = {<<"hand", w>>} /\ QueueSpots(e.job) = {} /\ WaitSpots(e.job) = {}
      /\ SlotSpots(e.job) = {} /\ DlqSpots(e.job) = {} /\ Exits(e.job) = {}
  <2>1. <<"hand", w>> \in Spots(e.job)
    BY <1>3 DEF Spots
  <2> QED BY <1>0, <1>2, <2>1, Alone
<1>5. /\ \A j : WaitSpots(j)' = WaitSpots(j) \cup (IF j = e.job THEN {<<"waiting", w>>} ELSE {})
      /\ \A v \in Workers : Once(waiting'[v])
      /\ \A r : (\A v \in Workers : Ready(waiting[v], r)) /\ r[e.job] = e.attempt - 1 =>
            \A v \in Workers : Ready(waiting'[v], r)
  <2>1. waiting' = [waiting EXCEPT ![w] = Append(@, e)]
    BY <1>2 DEF CreateTask
  <2> QED BY <1>0, <1>4, <2>1, CreateSpots
<1>6. NoEnvelope.job \notin Jobs /\ e # NoEnvelope
  BY <1>2, ConstantsAssumption DEF NoEnvelope
<1>7. \A j \in Jobs : HandSpots(j)' = HandSpots(j) \ {<<"hand", w>>}
  <2>1. \A j \in Jobs : HandSpots(j)' = IF NoEnvelope.job = j THEN HandSpots(j) \cup {<<"hand", w>>}
                                         ELSE HandSpots(j) \ {<<"hand", w>>}
    BY <1>1, HandOverSpots
  <2> QED BY <1>6, <2>1
<1>8. \A j \in Jobs \ {e.job} : <<"hand", w>> \notin HandSpots(j)
  BY <1>2 DEF HandSpots
<1>9. HandSpots(e.job)' = {}
  <2>1. HandSpots(e.job) \subseteq {<<"hand", w>>}
    BY <1>4 DEF Spots
  <2> QED BY <1>2, <1>7, <2>1
<1>10. Spots(e.job)' = {<<"waiting", w>>}
  BY <1>1, <1>4, <1>5, <1>9, SameSpots DEF Spots
<1>11. \A j \in Jobs \ {e.job} : HandSpots(j)' = HandSpots(j) /\ WaitSpots(j)' = WaitSpots(j)
  BY <1>5, <1>7, <1>8
<1>12. \A j \in Jobs \ {e.job} : Spots(j)' = Spots(j)
  BY <1>1, <1>11, SameSpots DEF Spots
<1>13. OneSpot'
  BY <1>0, <1>1, <1>2, <1>4, <1>10, <1>12, MoveOne
<1>14. AllOnce'
  BY <1>0, <1>1, <1>5 DEF AllOnce
<1>15. RunsLine'
  <2>1. runs[e.job] = e.attempt - 1
    BY <1>0, <1>2, <1>6 DEF RunsLine
  <2>2. \A v \in Workers : Ready(waiting'[v], runs)
    BY <1>0, <1>5, <2>1 DEF RunsLine
  <2>3. hand'[w] = NoEnvelope /\ \A v \in Workers \ {w} : hand'[v] = hand[v]
    BY <1>1 DEF TInv, TypeOK
  <2>4. \A v \in Workers : hand'[v] # NoEnvelope => runs[hand'[v].job] = hand'[v].attempt - 1
    BY <1>0, <2>3 DEF RunsLine
  <2>5. Owned' = Owned
    BY <1>1, SameSpots
  <2> QED BY <1>0, <1>1, <2>2, <2>4, <2>5 DEF RunsLine
<1>16. Awake'
  BY <1>0, <1>1 DEF Awake, TInv, TypeOK
<1> QED BY <1>13, <1>14, <1>15, <1>16, <1>2, <1>4, <1>10, <1>12 DEF Calm, Moved

LEMMA CalmStart ==
    ASSUME TInv, Calm, NEW w \in Workers, NEW i \in Slots, Start(w, i)
    PROVE  /\ Calm'
           /\ \E j \in Jobs :
                 /\ Moved(j, {<<"waiting", w>>}, {<<"slot", <<w, i>>>>})
                 /\ runs[j] < MaxRetries /\ runs' = [runs EXCEPT ![j] = @ + 1]
                 /\ slot'[<<w, i>>].phase = "running"
<1>0. OneSpot /\ AllOnce /\ RunsLine /\ Awake
  BY DEF Calm
<1>1. UNCHANGED <<queue, dlq, loop, hand, produced, fate>>
  BY DEF Start, redisVars
<1>2. PICK e \in Envelope :
         /\ e.job \in Jobs
         /\ <<"waiting", w>> \in WaitSpots(e.job)
         /\ \A j : WaitSpots(j)' = WaitSpots(j) \ (IF j = e.job THEN {<<"waiting", w>>} ELSE {})
         /\ \A v \in Workers : Once(waiting'[v])
         /\ \A r : (\A v \in Workers : Ready(waiting[v], r)) =>
               (\A v \in Workers : Ready(waiting'[v], r)) /\ r[e.job] = e.attempt - 1
         /\ SetSlot(w, i, [phase |-> "running", env |-> e])
         /\ runs' = [runs EXCEPT ![e.job] = @ + 1]
  <2>1. Acquires(w, i)
    BY DEF Start
  <2> QED BY <1>0, <2>1, AcquireSpots DEF Start
<1>3. /\ Spots(e.job) = {<<"waiting", w>>} /\ QueueSpots(e.job) = {} /\ HandSpots(e.job) = {}
      /\ SlotSpots(e.job) = {} /\ DlqSpots(e.job) = {} /\ Exits(e.job) = {}
  <2>1. <<"waiting", w>> \in Spots(e.job)
    BY <1>2 DEF Spots
  <2> QED BY <1>0, <1>2, <2>1, Alone
<1>4. PICK t \in Task : t = [phase |-> "running", env |-> e]
  BY PhaseNames DEF Task
<1>5. t.phase \in OwnedPhases /\ t.env = e
  BY <1>4 DEF OwnedPhases
<1>6. /\ \A j \in Jobs :
            SlotSpots(j)' = IF t.phase \in OwnedPhases /\ t.env.job = j
                            THEN SlotSpots(j) \cup {<<"slot", <<w, i>>>>}
                            ELSE SlotSpots(j) \ {<<"slot", <<w, i>>>>}
      /\ \A s \in Owned' :
            \/ s = <<w, i>> /\ slot'[s] = t /\ t.phase \in OwnedPhases
            \/ s # <<w, i>> /\ s \in Owned /\ slot'[s] = slot[s]
  BY <1>2, <1>4, SlotChanges
<1>7. \A j : <<"slot", <<w, i>>>> \notin SlotSpots(j)
  <2>1. slot[<<w, i>>].phase \notin OwnedPhases
    BY DEF Start, Acquires, Idle, OwnedPhases
  <2> QED BY <2>1, Elsewhere
<1>8. \A j \in Jobs : SlotSpots(j)' = SlotSpots(j) \cup (IF j = e.job THEN {<<"slot", <<w, i>>>>} ELSE {})
  BY <1>5, <1>6, <1>7
<1>9. WaitSpots(e.job)' = {}
  <2>1. WaitSpots(e.job) \subseteq {<<"waiting", w>>}
    BY <1>3 DEF Spots
  <2> QED BY <1>2, <2>1
<1>10. Spots(e.job)' = {<<"slot", <<w, i>>>>}
  BY <1>1, <1>2, <1>3, <1>8, <1>9, SameSpots DEF Spots
<1>11. \A j \in Jobs \ {e.job} : Spots(j)' = Spots(j)
  BY <1>1, <1>2, <1>8, SameSpots DEF Spots
<1>12. OneSpot'
  BY <1>0, <1>1, <1>2, <1>3, <1>10, <1>11, MoveOne
<1>13. AllOnce'
  BY <1>0, <1>1, <1>2 DEF AllOnce
<1>14. RunsLine'
  <2>1. (\A v \in Workers : Ready(waiting'[v], runs)) /\ runs[e.job] = e.attempt - 1
    BY <1>0, <1>2 DEF RunsLine
  <2>2. runs'[e.job] = e.attempt /\ \A j \in Jobs \ {e.job} : runs'[j] = runs[j]
    BY <1>2, <2>1 DEF TInv, TypeOK, Envelope, Attempts
  <2>3. \A x \in Queues : Ready(queue'[x], runs')
    <3>1. \A x \in Queues : ~ Holds(queue[x], e.job)
      BY <1>3 DEF QueueSpots
    <3>2. \A x \in Queues : queue[x] \in Seq(Envelope)
      BY DEF TInv, TypeOK
    <3> QED BY <1>0, <1>1, <2>2, <3>1, <3>2, RunOther DEF RunsLine
  <2>4. \A v \in Workers : Ready(waiting'[v], runs')
    <3>1. \A v \in Workers : ~ Holds(waiting'[v], e.job)
      BY <1>9 DEF WaitSpots
    <3>2. \A v \in Workers : waiting'[v] \in Seq(Envelope)
      BY Popped DEF Start, Acquires, TInv, TypeOK
    <3> QED BY <2>1, <2>2, <3>1, <3>2, RunOther
  <2>5. \A v \in Workers : hand'[v] # NoEnvelope => runs'[hand'[v].job] = hand'[v].attempt - 1
    <3>1. \A v \in Workers : hand[v].job # e.job
      BY <1>3 DEF HandSpots
    <3>2. \A v \in Workers : hand[v] # NoEnvelope => hand[v].job \in Jobs
      BY DEF TInv, TypeOK, Envelope
    <3> QED BY <1>0, <1>1, <2>2, <3>1, <3>2 DEF RunsLine
  <2>6. SpentRuns(dlq', runs')
    <3>1. dlq \in Seq(Envelope) /\ ~ Holds(dlq, e.job)
      BY <1>3 DEF DlqSpots, TInv, TypeOK
    <3> QED BY <1>0, <1>1, <2>2, <3>1, RunOther DEF RunsLine
  <2>7. \A s \in Owned' : runs'[slot'[s].env.job] = slot'[s].env.attempt
    <3> SUFFICES ASSUME NEW s \in Owned' PROVE runs'[slot'[s].env.job] = slot'[s].env.attempt
      OBVIOUS
    <3>1. CASE s = <<w, i>>
      BY <1>5, <1>6, <2>2, <3>1
    <3>2. CASE s # <<w, i>>
      <4>1. s \in Owned /\ slot'[s] = slot[s]
        BY <1>6, <3>2
      <4>2. slot[s].env.job \in Jobs
        BY <4>1 DEF Owned, TInv, TypeOK, Task, Idle, Envelope
      <4>3. slot[s].env.job # e.job
        BY <1>3, <4>1 DEF SlotSpots
      <4> QED BY <1>0, <2>2, <4>1, <4>2, <4>3 DEF RunsLine
    <3> QED BY <3>1, <3>2
  <2>8. e.job \in produced
    BY <1>0, <1>2, <1>3 DEF OneSpot
  <2>9. \A j \in Jobs \ produced' : runs'[j] = 0
    BY <1>0, <1>1, <2>2, <2>8 DEF RunsLine
  <2> QED BY <2>3, <2>4, <2>5, <2>6, <2>7, <2>9 DEF RunsLine
<1>15. runs[e.job] < MaxRetries /\ slot'[<<w, i>>].phase = "running"
  <2>1. runs[e.job] = e.attempt - 1
    BY <1>0, <1>2 DEF RunsLine
  <2>2. e.attempt \in 1..MaxRetries
    BY DEF Envelope, Attempts
  <2>3. slot' = [slot EXCEPT ![<<w, i>>] = t]
    BY <1>2, <1>4 DEF SetSlot
  <2>4. <<w, i>> \in Workers \X Slots
    BY SlotIs DEF TInv
  <2>5. slot'[<<w, i>>] = t
    BY <2>3, <2>4 DEF TInv, TypeOK
  <2> QED BY <1>4, <2>1, <2>2, <2>5, ConstantsAssumption
<1> QED BY <1>0, <1>1, <1>2, <1>3, <1>10, <1>11, <1>12, <1>13, <1>14, <1>2, <1>3, <1>15 DEF Calm, Awake, Moved

LEMMA CalmDiscardUnhandled ==
    ASSUME TInv, Calm, NEW w \in Workers, NEW i \in Slots, DiscardUnhandled(w, i)
    PROVE  Calm' /\ \E j \in Jobs : Moved(j, {<<"waiting", w>>}, {<<"fate", "discarded">>})
<1>0. OneSpot /\ AllOnce /\ RunsLine /\ Awake
  BY DEF Calm
<1>1. UNCHANGED <<queue, dlq, loop, hand, slot, produced, runs>>
  BY DEF DiscardUnhandled, redisVars
<1>2. PICK e \in Envelope :
         /\ e.job \in Jobs
         /\ <<"waiting", w>> \in WaitSpots(e.job)
         /\ \A j : WaitSpots(j)' = WaitSpots(j) \ (IF j = e.job THEN {<<"waiting", w>>} ELSE {})
         /\ \A v \in Workers : Once(waiting'[v])
         /\ \A r : (\A v \in Workers : Ready(waiting[v], r)) => \A v \in Workers : Ready(waiting'[v], r)
         /\ Leaves(e.job, "discarded")
  <2>1. Acquires(w, i)
    BY DEF DiscardUnhandled
  <2> QED BY <1>0, <2>1, AcquireSpots DEF DiscardUnhandled
<1>3. /\ Spots(e.job) = {<<"waiting", w>>} /\ QueueSpots(e.job) = {} /\ HandSpots(e.job) = {}
      /\ SlotSpots(e.job) = {} /\ DlqSpots(e.job) = {} /\ Exits(e.job) = {}
  <2>1. <<"waiting", w>> \in Spots(e.job)
    BY <1>2 DEF Spots
  <2> QED BY <1>0, <1>2, <2>1, Alone
<1>4. \A j \in Jobs : Exits(j)' = Exits(j) \cup (IF j = e.job THEN {<<"fate", "discarded">>} ELSE {})
  BY <1>2, LeaveSpots
<1>5. WaitSpots(e.job)' = {}
  <2>1. WaitSpots(e.job) \subseteq {<<"waiting", w>>}
    BY <1>3 DEF Spots
  <2> QED BY <1>2, <2>1
<1>6. Spots(e.job)' = {<<"fate", "discarded">>}
  BY <1>1, <1>2, <1>3, <1>4, <1>5, SameSpots DEF Spots
<1>7. \A j \in Jobs \ {e.job} : Spots(j)' = Spots(j)
  BY <1>1, <1>2, <1>4, SameSpots DEF Spots
<1>8. OneSpot'
  BY <1>0, <1>1, <1>2, <1>3, <1>6, <1>7, MoveOne
<1>9. AllOnce'
  BY <1>0, <1>1, <1>2 DEF AllOnce
<1>10. RunsLine'
  <2>1. Owned' = Owned
    BY <1>1, SameSpots
  <2> QED BY <1>0, <1>1, <1>2, <2>1 DEF RunsLine
<1> QED BY <1>0, <1>1, <1>8, <1>9, <1>10, <1>2, <1>3, <1>6, <1>7 DEF Calm, Awake, Moved

\* A task that no longer owns its envelope.
LEMMA SlotCleared ==
    ASSUME TInv, NEW w \in Workers, NEW i \in Slots, NEW t \in Task \cup {Idle}, SetSlot(w, i, t),
           t.phase \notin OwnedPhases
    PROVE  /\ \A j \in Jobs : SlotSpots(j)' = SlotSpots(j) \ {<<"slot", <<w, i>>>>}
           /\ \A s \in Owned' : s \in Owned /\ slot'[s] = slot[s]
  BY SlotChanges

LEMMA IdleIs == Idle \in Task \cup {Idle} /\ Idle.phase \notin OwnedPhases
  BY DEF Idle, OwnedPhases

LEMMA SlotOfOne ==
    ASSUME NEW w \in Workers, NEW i \in Slots
    PROVE  \A j \in Jobs \ {EnvOf(w, i).job} : <<"slot", <<w, i>>>> \notin SlotSpots(j)
  BY DEF SlotSpots, EnvOf

LEMMA CalmFinish ==
    ASSUME TInv, Calm, NEW w \in Workers, NEW i \in Slots, Finish(w, i)
    PROVE  /\ Calm'
           /\ \E j \in Jobs : j = EnvOf(w, i).job /\ Moved(j, {<<"slot", <<w, i>>>>}, {<<"fate", "done">>})
<1>0. OneSpot /\ AllOnce /\ RunsLine /\ Awake
  BY DEF Calm
<1>1. UNCHANGED <<queue, dlq, loop, hand, waiting, produced, runs>> /\ SetSlot(w, i, Idle)
  BY DEF Finish, redisVars
<1>2. PICK e \in Envelope :
         /\ e.job \in Jobs /\ <<"slot", <<w, i>>>> \in SlotSpots(e.job)
         /\ e = EnvOf(w, i) /\ Leaves(e.job, "done")
  <2>1. slot[<<w, i>>].phase \in OwnedPhases
    BY DEF Finish, InPhase, OwnedPhases
  <2> QED BY <2>1, OwnedSpot DEF Finish
<1>3. /\ Spots(e.job) = {<<"slot", <<w, i>>>>} /\ QueueSpots(e.job) = {} /\ HandSpots(e.job) = {}
      /\ WaitSpots(e.job) = {} /\ DlqSpots(e.job) = {} /\ Exits(e.job) = {}
  <2>1. <<"slot", <<w, i>>>> \in Spots(e.job)
    BY <1>2 DEF Spots
  <2> QED BY <1>0, <1>2, <2>1, Alone
<1>4. \A j \in Jobs : Exits(j)' = Exits(j) \cup (IF j = e.job THEN {<<"fate", "done">>} ELSE {})
  BY <1>2, LeaveSpots
<1>5. /\ \A j \in Jobs : SlotSpots(j)' = SlotSpots(j) \ {<<"slot", <<w, i>>>>}
      /\ \A s \in Owned' : s \in Owned /\ slot'[s] = slot[s]
  BY <1>1, IdleIs, SlotCleared
<1>6. \A j \in Jobs \ {e.job} : <<"slot", <<w, i>>>> \notin SlotSpots(j)
  BY <1>2, SlotOfOne
<1>7. SlotSpots(e.job)' = {}
  <2>1. SlotSpots(e.job) \subseteq {<<"slot", <<w, i>>>>}
    BY <1>3 DEF Spots
  <2> QED BY <1>2, <1>5, <2>1
<1>8. Spots(e.job)' = {<<"fate", "done">>}
  BY <1>1, <1>2, <1>3, <1>4, <1>7, SameSpots DEF Spots
<1>9. \A j \in Jobs \ {e.job} : SlotSpots(j)' = SlotSpots(j) /\ Exits(j)' = Exits(j)
  BY <1>4, <1>5, <1>6
<1>10. \A j \in Jobs \ {e.job} : Spots(j)' = Spots(j)
  BY <1>1, <1>9, SameSpots DEF Spots
<1>11. OneSpot'
  BY <1>0, <1>1, <1>2, <1>3, <1>8, <1>10, MoveOne
<1>12. AllOnce'
  BY <1>0, <1>1 DEF AllOnce
<1>13. RunsLine'
  BY <1>0, <1>1, <1>5 DEF RunsLine
<1>14. e.job = EnvOf(w, i).job /\ Moved(e.job, {<<"slot", <<w, i>>>>}, {<<"fate", "done">>})
  BY <1>2, <1>3, <1>8, <1>10 DEF Moved
<1> QED BY <1>0, <1>1, <1>11, <1>12, <1>13, <1>2, <1>14 DEF Calm, Awake

\* A task changes its phase and keeps its envelope.
LEMMA CalmPhase ==
    ASSUME TInv, Calm, NEW w \in Workers, NEW i \in Slots, Fail(w, i) \/ Backoff(w, i)
    PROVE  Calm' /\ \A j \in Jobs : Spots(j)' = Spots(j)
<1>0. OneSpot /\ AllOnce /\ RunsLine /\ Awake
  BY DEF Calm
<1>1. UNCHANGED <<queue, dlq, loop, hand, waiting, produced, runs, fate>>
  BY DEF Fail, Backoff, redisVars, ghosts
<1>2. /\ EnvOf(w, i) \in Envelope /\ EnvOf(w, i).job \in Jobs
      /\ <<"slot", <<w, i>>>> \in SlotSpots(EnvOf(w, i).job) /\ <<w, i>> \in Owned
  <2>1. slot[<<w, i>>].phase \in OwnedPhases
    BY DEF Fail, Backoff, InPhase, OwnedPhases
  <2> QED BY <2>1, OwnedSpot
<1>3. PICK t \in Task : SetSlot(w, i, t) /\ t.phase \in OwnedPhases /\ t.env = EnvOf(w, i)
  <2>1. PICK p \in {"failed", "backoff"} : SetSlot(w, i, [slot[<<w, i>>] EXCEPT !.phase = p])
    BY DEF Fail, Backoff
  <2>2. slot[<<w, i>>] \in Task
    BY SlotIs, PhaseNames DEF Fail, Backoff, InPhase, TInv
  <2>3. p \in Phases /\ p \in OwnedPhases
    BY DEF Phases, OwnedPhases
  <2> DEFINE u == [slot[<<w, i>>] EXCEPT !.phase = p]
  <2>4. u \in Task /\ u.phase = p /\ u.env = EnvOf(w, i)
    BY <2>2, <2>3, SlotIs DEF Task, EnvOf, TInv
  <2> QED BY <2>1, <2>3, <2>4
<1>4. /\ \A j \in Jobs :
            SlotSpots(j)' = IF t.phase \in OwnedPhases /\ t.env.job = j
                            THEN SlotSpots(j) \cup {<<"slot", <<w, i>>>>}
                            ELSE SlotSpots(j) \ {<<"slot", <<w, i>>>>}
      /\ \A s \in Owned' :
            \/ s = <<w, i>> /\ slot'[s] = t /\ t.phase \in OwnedPhases
            \/ s # <<w, i>> /\ s \in Owned /\ slot'[s] = slot[s]
  BY <1>3, SlotChanges
<1>5. \A j \in Jobs : SlotSpots(j)' = SlotSpots(j)
  <2>1. \A j \in Jobs \ {EnvOf(w, i).job} : <<"slot", <<w, i>>>> \notin SlotSpots(j)
    BY SlotOfOne
  <2> QED BY <1>2, <1>3, <1>4, <2>1
<1>9. \A j \in Jobs : Spots(j)' = Spots(j)
  BY <1>1, <1>5, SameSpots DEF Spots
<1>6. OneSpot'
  BY <1>0, <1>1, <1>9 DEF OneSpot
<1>7. AllOnce'
  BY <1>0, <1>1 DEF AllOnce
<1>8. RunsLine'
  <2>1. runs[EnvOf(w, i).job] = EnvOf(w, i).attempt
    BY <1>0, <1>2 DEF RunsLine, EnvOf
  <2>2. \A s \in Owned' : runs[slot'[s].env.job] = slot'[s].env.attempt
    BY <1>0, <1>3, <1>4, <2>1 DEF RunsLine
  <2> QED BY <1>0, <1>1, <2>2 DEF RunsLine
<1> QED BY <1>0, <1>1, <1>6, <1>7, <1>8, <1>9 DEF Calm, Awake

LEMMA CalmRequeue ==
    ASSUME TInv, Calm, NEW w \in Workers, NEW i \in Slots, Requeue(w, i)
    PROVE  /\ Calm'
           /\ \E j \in Jobs : \E q \in Queues : j = EnvOf(w, i).job /\ Moved(j, {<<"slot", <<w, i>>>>}, {<<"queue", q>>})
<1>0. OneSpot /\ AllOnce /\ RunsLine /\ Awake
  BY DEF Calm
<1>1. UNCHANGED <<dlq, loop, hand, waiting, produced, runs, fate>> /\ SetSlot(w, i, Idle)
  BY DEF Requeue, ghosts
<1>2. PICK e \in Envelope :
         /\ e.job \in Jobs /\ <<"slot", <<w, i>>>> \in SlotSpots(e.job)
         /\ e = EnvOf(w, i) /\ <<w, i>> \in Owned
  <2>1. slot[<<w, i>>].phase \in OwnedPhases
    BY DEF Requeue, InPhase, OwnedPhases
  <2> QED BY <2>1, OwnedSpot
<1>3. PICK n \in Envelope, q \in Queues :
         /\ n.job = e.job /\ n.attempt = e.attempt + 1
         /\ queue' = [queue EXCEPT ![q] = Append(@, n)]
  BY <1>2, RequeueIs DEF Requeue
<1>4. /\ Spots(e.job) = {<<"slot", <<w, i>>>>} /\ QueueSpots(e.job) = {} /\ HandSpots(e.job) = {}
      /\ WaitSpots(e.job) = {} /\ DlqSpots(e.job) = {} /\ Exits(e.job) = {}
  <2>1. <<"slot", <<w, i>>>> \in Spots(e.job)
    BY <1>2 DEF Spots
  <2> QED BY <1>0, <1>2, <2>1, Alone
<1>5. /\ \A j : QueueSpots(j)' = QueueSpots(j) \cup (IF j = e.job THEN {<<"queue", q>>} ELSE {})
      /\ \A x \in Queues : Once(queue'[x])
      /\ \A r : (\A x \in Queues : Ready(queue[x], r)) /\ r[e.job] = n.attempt - 1 =>
            \A x \in Queues : Ready(queue'[x], r)
  <2>1. /\ \A j : QueueSpots(j)' = QueueSpots(j) \cup (IF j = n.job THEN {<<"queue", q>>} ELSE {})
        /\ \A x \in Queues : Once(queue'[x])
        /\ \A r : (\A x \in Queues : Ready(queue[x], r)) /\ r[n.job] = n.attempt - 1 =>
              \A x \in Queues : Ready(queue'[x], r)
    <3>1. QueueSpots(n.job) = {}
      BY <1>3, <1>4
    <3> QED BY <1>0, <1>3, <3>1, PushSpots
  <2> QED BY <1>3, <2>1
<1>6. /\ \A j \in Jobs : SlotSpots(j)' = SlotSpots(j) \ {<<"slot", <<w, i>>>>}
      /\ \A s \in Owned' : s \in Owned /\ slot'[s] = slot[s]
  BY <1>1, IdleIs, SlotCleared
<1>7. \A j \in Jobs \ {e.job} : <<"slot", <<w, i>>>> \notin SlotSpots(j)
  BY <1>2, SlotOfOne
<1>8. SlotSpots(e.job)' = {}
  <2>1. SlotSpots(e.job) \subseteq {<<"slot", <<w, i>>>>}
    BY <1>4 DEF Spots
  <2> QED BY <1>2, <1>6, <2>1
<1>9. Spots(e.job)' = {<<"queue", q>>}
  BY <1>1, <1>4, <1>5, <1>8, SameSpots DEF Spots
<1>10. \A j \in Jobs \ {e.job} : SlotSpots(j)' = SlotSpots(j) /\ QueueSpots(j)' = QueueSpots(j)
  BY <1>5, <1>6, <1>7
<1>11. \A j \in Jobs \ {e.job} : Spots(j)' = Spots(j)
  BY <1>1, <1>10, SameSpots DEF Spots
<1>12. OneSpot'
  BY <1>0, <1>1, <1>2, <1>4, <1>9, <1>11, MoveOne
<1>13. AllOnce'
  BY <1>0, <1>1, <1>5 DEF AllOnce
<1>14. RunsLine'
  <2>1. runs[e.job] = n.attempt - 1
    <3>1. runs[e.job] = e.attempt
      BY <1>0, <1>2 DEF RunsLine, EnvOf
    <3> QED BY <1>2, <1>3, <3>1 DEF Envelope, Attempts
  <2>2. \A x \in Queues : Ready(queue'[x], runs)
    BY <1>0, <1>5, <2>1 DEF RunsLine
  <2> QED BY <1>0, <1>1, <1>6, <2>2 DEF RunsLine
<1>15. e.job = EnvOf(w, i).job /\ Moved(e.job, {<<"slot", <<w, i>>>>}, {<<"queue", q>>})
  BY <1>2, <1>4, <1>9, <1>11 DEF Moved
<1> QED BY <1>0, <1>1, <1>12, <1>13, <1>14, <1>2, <1>3, <1>15 DEF Calm, Awake

LEMMA BuriedIs ==
    ASSUME TInv, NEW w \in Workers, NEW i \in Slots, InPhase(w, i, "failed"), ~ MayRetry(EnvOf(w, i))
    PROVE  /\ EnvOf(w, i) \in Envelope /\ EnvOf(w, i).attempt = MaxRetries
           /\ AfterBury(w, i) \in Task \cup {Idle} /\ AfterBury(w, i).phase \notin OwnedPhases
<1>1. slot[<<w, i>>] \in Task
  BY SlotIs, PhaseNames DEF TInv, InPhase
<1>2. EnvOf(w, i) \in Envelope /\ EnvOf(w, i).attempt \in 1..MaxRetries
  BY <1>1, SlotIs DEF TInv
<1>3. EnvOf(w, i).attempt = MaxRetries
  BY <1>2, ConstantsAssumption DEF MayRetry
<1>4. [slot[<<w, i>>] EXCEPT !.phase = "trimming"] \in Task
  BY <1>1, PhaseNames, SlotIs DEF TInv
<1>5. [slot[<<w, i>>] EXCEPT !.phase = "trimming"].phase = "trimming"
  BY <1>1 DEF Task
<1>6. AfterBury(w, i) \in Task \cup {Idle} /\ AfterBury(w, i).phase \notin OwnedPhases
  BY <1>4, <1>5 DEF AfterBury, Idle, OwnedPhases
<1> QED BY <1>2, <1>3, <1>6

LEMMA CalmBury ==
    ASSUME TInv, Calm, NEW w \in Workers, NEW i \in Slots, Bury(w, i)
    PROVE  /\ Calm'
           /\ \E j \in Jobs : j = EnvOf(w, i).job /\ Moved(j, {<<"slot", <<w, i>>>>}, {<<"dlq", "dlq">>})
<1>0. OneSpot /\ AllOnce /\ RunsLine /\ Awake
  BY DEF Calm
<1>1. UNCHANGED <<queue, loop, hand, waiting, produced, runs, fate>> /\ SetSlot(w, i, AfterBury(w, i))
  BY DEF Bury, ghosts
<1>2. PICK e \in Envelope :
         /\ e.job \in Jobs /\ <<"slot", <<w, i>>>> \in SlotSpots(e.job)
         /\ e = EnvOf(w, i) /\ <<w, i>> \in Owned /\ dlq' = Append(dlq, e)
  <2>1. slot[<<w, i>>].phase \in OwnedPhases
    BY DEF Bury, InPhase, OwnedPhases
  <2> QED BY <2>1, OwnedSpot DEF Bury
<1>3. e.attempt = MaxRetries /\ AfterBury(w, i) \in Task \cup {Idle} /\ AfterBury(w, i).phase \notin OwnedPhases
  BY <1>2, BuriedIs DEF Bury
<1>4. /\ Spots(e.job) = {<<"slot", <<w, i>>>>} /\ QueueSpots(e.job) = {} /\ HandSpots(e.job) = {}
      /\ WaitSpots(e.job) = {} /\ DlqSpots(e.job) = {} /\ Exits(e.job) = {}
  <2>1. <<"slot", <<w, i>>>> \in Spots(e.job)
    BY <1>2 DEF Spots
  <2> QED BY <1>0, <1>2, <2>1, Alone
<1>5. /\ \A j : DlqSpots(j)' = DlqSpots(j) \cup (IF j = e.job THEN {<<"dlq", "dlq">>} ELSE {})
      /\ Once(dlq')
      /\ \A r : SpentRuns(dlq, r) /\ r[e.job] = MaxRetries => SpentRuns(dlq', r)
  BY <1>0, <1>2, <1>4, BurySpots
<1>6. /\ \A j \in Jobs : SlotSpots(j)' = SlotSpots(j) \ {<<"slot", <<w, i>>>>}
      /\ \A s \in Owned' : s \in Owned /\ slot'[s] = slot[s]
  BY <1>1, <1>3, SlotCleared
<1>7. \A j \in Jobs \ {e.job} : <<"slot", <<w, i>>>> \notin SlotSpots(j)
  BY <1>2, SlotOfOne
<1>8. SlotSpots(e.job)' = {}
  <2>1. SlotSpots(e.job) \subseteq {<<"slot", <<w, i>>>>}
    BY <1>4 DEF Spots
  <2> QED BY <1>2, <1>6, <2>1
<1>9. Spots(e.job)' = {<<"dlq", "dlq">>}
  BY <1>1, <1>4, <1>5, <1>8, SameSpots DEF Spots
<1>10. \A j \in Jobs \ {e.job} : SlotSpots(j)' = SlotSpots(j) /\ DlqSpots(j)' = DlqSpots(j)
  BY <1>5, <1>6, <1>7
<1>11. \A j \in Jobs \ {e.job} : Spots(j)' = Spots(j)
  BY <1>1, <1>10, SameSpots DEF Spots
<1>12. OneSpot'
  BY <1>0, <1>1, <1>2, <1>4, <1>9, <1>11, MoveOne
<1>13. AllOnce'
  BY <1>0, <1>1, <1>5 DEF AllOnce
<1>14. RunsLine'
  <2>1. runs[e.job] = MaxRetries
    BY <1>0, <1>2, <1>3 DEF RunsLine, EnvOf
  <2>2. SpentRuns(dlq', runs)
    BY <1>0, <1>5, <2>1 DEF RunsLine
  <2> QED BY <1>0, <1>1, <1>6, <2>2 DEF RunsLine
<1>15. e.job = EnvOf(w, i).job /\ Moved(e.job, {<<"slot", <<w, i>>>>}, {<<"dlq", "dlq">>})
  BY <1>2, <1>4, <1>9, <1>11 DEF Moved
<1> QED BY <1>0, <1>1, <1>12, <1>13, <1>14, <1>2, <1>3, <1>15 DEF Calm, Awake

\* The heads that LTRIM removes leave, each for the first time.
LEMMA CalmTrim ==
    ASSUME TInv, Calm, NEW w \in Workers, NEW i \in Slots, Trim(w, i)
    PROVE  /\ Calm'
           /\ \A j \in Jobs : \/ Spots(j)' = Spots(j)
                              \/ Spots(j) = {<<"dlq", "dlq">>} /\ Spots(j)' = {<<"fate", "evicted">>}
<1>0. OneSpot /\ AllOnce /\ RunsLine /\ Awake
  BY DEF Calm
<1>1. UNCHANGED <<queue, loop, hand, waiting, produced, runs>> /\ SetSlot(w, i, Idle)
  BY DEF Trim
<1> DEFINE Cut(j) == \E k \in 1..Excess : dlq[k].job = j
<1>2. /\ \A j : Holds(dlq', j) => Holds(dlq, j)
      /\ \A j : Holds(dlq, j) => Holds(dlq', j) \/ Cut(j)
      /\ Once(dlq') /\ \A k \in 1..Excess : ~ Holds(dlq', dlq[k].job)
      /\ SpentRuns(dlq', runs)
  <2>1. dlq \in Seq(Envelope) /\ Excess \in 0..Len(dlq)
    BY ExcessIs DEF TInv, TypeOK
  <2>2. dlq' = SubSeq(dlq, Excess + 1, Len(dlq))
    BY DEF Trim
  <2>3. Once(dlq) /\ SpentRuns(dlq, runs)
    BY <1>0 DEF AllOnce, RunsLine
  <2> QED BY <2>1, <2>2, <2>3, Trimmed
<1>3. \A j \in Jobs : fate'[j] = IF Cut(j) THEN fate[j] \cup {"evicted"} ELSE fate[j]
  BY DEF Trim
<1>4. \A j : Cut(j) => Holds(dlq, j) /\ ~ Holds(dlq', j)
  <2>1. \A k \in 1..Excess : k \in 1..Len(dlq)
    BY ExcessIs, LenProperties DEF TInv, TypeOK
  <2> QED BY <1>2, <2>1 DEF Holds
<1> HIDE DEF Cut
<1>5. /\ \A j \in Jobs : SlotSpots(j)' = SlotSpots(j)
      /\ \A s \in Owned' : s \in Owned /\ slot'[s] = slot[s]
  <2>1. slot[<<w, i>>].phase \notin OwnedPhases
    BY DEF Trim, InPhase, OwnedPhases
  <2>2. \A j : <<"slot", <<w, i>>>> \notin SlotSpots(j)
    BY <2>1, Elsewhere
  <2>3. /\ \A j \in Jobs : SlotSpots(j)' = SlotSpots(j) \ {<<"slot", <<w, i>>>>}
        /\ \A s \in Owned' : s \in Owned /\ slot'[s] = slot[s]
    BY <1>1, IdleIs, SlotCleared
  <2> QED BY <2>2, <2>3
<1>6. ASSUME NEW j \in Jobs, ~ Cut(j)
      PROVE  Spots(j)' = Spots(j)
  <2>1. DlqSpots(j)' = DlqSpots(j)
    BY <1>2, <1>6 DEF DlqSpots
  <2>2. Exits(j)' = Exits(j)
    BY <1>3, <1>6 DEF Exits
  <2> QED BY <1>1, <1>5, <2>1, <2>2, SameSpots DEF Spots
<1>7. ASSUME NEW j \in Jobs, Cut(j)
      PROVE  j \in produced /\ Spots(j) = {<<"dlq", "dlq">>} /\ Spots(j)' = {<<"fate", "evicted">>}
  <2>1. <<"dlq", "dlq">> \in DlqSpots(j)
    BY <1>4, <1>7 DEF DlqSpots
  <2>2. <<"dlq", "dlq">> \in Spots(j)
    BY <2>1 DEF Spots
  <2>3. /\ j \in produced /\ Spots(j) = {<<"dlq", "dlq">>} /\ QueueSpots(j) = {} /\ HandSpots(j) = {} /\ WaitSpots(j) = {}
        /\ SlotSpots(j) = {} /\ Exits(j) = {}
    BY <1>0, <2>2, Alone
  <2>4. DlqSpots(j)' = {}
    BY <1>4, <1>7 DEF DlqSpots
  <2>5. Exits(j)' = {<<"fate", "evicted">>}
    <3>1. fate[j] = {}
      BY <2>3 DEF Exits
    <3>2. fate'[j] = {"evicted"}
      BY <1>3, <1>7, <3>1
    <3> QED BY <3>2 DEF Exits
  <2> QED BY <1>1, <1>5, <2>3, <2>4, <2>5, SameSpots DEF Spots
<1>8. OneSpot'
  <2> SUFFICES ASSUME NEW j \in Jobs
               PROVE  IF j \in produced' THEN \E p : Spots(j)' = {p} ELSE Spots(j)' = {}
    BY DEF OneSpot
  <2>1. CASE Cut(j)
    BY <1>1, <1>7, <2>1
  <2>2. CASE ~ Cut(j)
    BY <1>0, <1>1, <1>6, <2>2 DEF OneSpot
  <2> QED BY <2>1, <2>2
<1>9. AllOnce'
  BY <1>0, <1>1, <1>2 DEF AllOnce
<1>10. RunsLine'
  BY <1>0, <1>1, <1>2, <1>5 DEF RunsLine
<1>11. \A j \in Jobs : \/ Spots(j)' = Spots(j)
                       \/ Spots(j) = {<<"dlq", "dlq">>} /\ Spots(j)' = {<<"fate", "evicted">>}
  BY <1>6, <1>7
<1>12. Awake'
  BY <1>0, <1>1 DEF Awake
<1> QED BY <1>8, <1>9, <1>10, <1>11, <1>12 DEF Calm

\* Nothing moves: a step of a loop alone, and stuttering.
LEMMA CalmStill ==
    ASSUME Calm, UNCHANGED <<queue, dlq, hand, waiting, slot, produced, runs, fate>>,
           \A v \in Workers : loop'[v] # "sleeping"
    PROVE  Calm'
<1>1. \A j : Spots(j)' = Spots(j)
  BY SameSpots DEF Spots
<1>2. Owned' = Owned
  BY SameSpots
<1>3. OneSpot'
  BY <1>1 DEF Calm, OneSpot
<1>4. AllOnce'
  BY DEF Calm, AllOnce
<1>5. RunsLine'
  BY <1>2 DEF Calm, RunsLine
<1> QED BY <1>3, <1>4, <1>5 DEF Calm, Awake

LEMMA CalmStep ==
    ASSUME TInv, Calm, [Next]_vars, mishaps' = 0
    PROVE  Calm'
<1> USE DEF redisVars, memVars, ghosts
<1>0. Awake
  BY DEF Calm
<1>1. ASSUME NEW w \in Workers, LoopStep(w)
      PROVE  Calm'
  <2>1. CASE Wake(w) \/ Exit(w) \/ Restart(w)
    <3>1. UNCHANGED <<queue, dlq, hand, waiting, slot, produced, runs, fate>>
      BY <2>1 DEF Wake, Exit, Restart
    <3>2. \A v \in Workers : loop'[v] # "sleeping"
      BY <1>0, <2>1 DEF Wake, Exit, Restart, Awake, TInv, TypeOK
    <3> QED BY <3>1, <3>2, CalmStill
  <2> QED BY <1>1, <2>1, CalmPop, CalmDiscardUnreadable, CalmCreateTask DEF LoopStep
<1>2. ASSUME NEW w \in Workers, NEW i \in Slots, TaskStep(w, i)
      PROVE  Calm'
  BY <1>2, CalmStart, CalmDiscardUnhandled, CalmFinish, CalmPhase, CalmRequeue, CalmBury, CalmTrim DEF TaskStep
<1>3. ASSUME NEW w \in Workers, Adversity(w)
      PROVE  Calm'
  <2>0. ~ Mishap
    BY MishapType DEF TInv
  <2>1. CASE StopListening(w)
    <3>1. UNCHANGED <<queue, dlq, hand, waiting, slot, produced, runs, fate>>
      BY <2>1 DEF StopListening
    <3>2. \A v \in Workers : loop'[v] # "sleeping"
      BY <1>0, <2>1 DEF StopListening, Awake, TInv, TypeOK
    <3> QED BY <3>1, <3>2, CalmStill
  <2>2. ~ StopSleeping(w)
    BY <1>0 DEF StopSleeping, Awake
  <2> QED BY <1>3, <2>0, <2>1, <2>2
          DEF Adversity, HsetError, PopError, Crash, StopDroppingJob, RequeueTwice, BuryTwice, TaskRedisError
<1>4. CASE UNCHANGED vars
  <2>1. \A v \in Workers : loop'[v] # "sleeping"
    BY <1>0, <1>4 DEF Awake, vars
  <2>2. UNCHANGED <<queue, dlq, hand, waiting, slot, produced, runs, fate>>
    BY <1>4 DEF vars
  <2> QED BY <2>1, <2>2, CalmStill
<1> QED BY <1>1, <1>2, <1>3, <1>4, CalmProduce DEF Next

-----------------------------------------------------------------------------
(* Dead letters                                                            *)

LEMMA SpentStep ==
    ASSUME TInv, Spent(dlq), [Next]_vars
    PROVE  Spent(dlq')
<1> USE DEF redisVars, memVars, ghosts
<1> dlq \in Seq(Envelope)
  BY DEF TInv, TypeOK
<1>1. ASSUME NEW w \in Workers, NEW i \in Slots, Bury(w, i)
      PROVE  Spent(dlq')
  BY <1>1, BuriedIs, Pushed DEF Bury
<1>2. ASSUME NEW w \in Workers, NEW i \in Slots, BuryTwice(w, i)
      PROVE  Spent(dlq')
  <2>1. EnvOf(w, i) \in Envelope /\ EnvOf(w, i).attempt = MaxRetries
    BY <1>2, BuriedIs DEF BuryTwice
  <2>2. /\ Len(dlq) \in Nat /\ dlq' = dlq \o <<EnvOf(w, i), EnvOf(w, i)>>
        /\ <<EnvOf(w, i), EnvOf(w, i)>> \in Seq(Envelope)
    BY <1>2, <2>1, LenProperties DEF BuryTwice
  <2>3. /\ Len(dlq') = Len(dlq) + 2
        /\ \A k \in 1..Len(dlq') : dlq'[k] = IF k <= Len(dlq) THEN dlq[k]
                                             ELSE <<EnvOf(w, i), EnvOf(w, i)>>[k - Len(dlq)]
    BY <2>2, ConcatProperties
  <2>4. \A k \in 1..Len(dlq') : k \in 1..Len(dlq) \/ (k > Len(dlq) /\ k - Len(dlq) \in {1, 2})
    BY <2>2, <2>3
  <2>5. \A m \in {1, 2} : <<EnvOf(w, i), EnvOf(w, i)>>[m] = EnvOf(w, i)
    OBVIOUS
  <2>6. ASSUME NEW k \in 1..Len(dlq') PROVE dlq'[k].attempt = MaxRetries
    <3>1. CASE k \in 1..Len(dlq)
      <4>1. dlq'[k] = dlq[k]
        BY <2>2, <2>3, <3>1
      <4> QED BY <3>1, <4>1 DEF Spent
    <3>2. CASE k > Len(dlq) /\ k - Len(dlq) \in {1, 2}
      <4>1. dlq'[k] = <<EnvOf(w, i), EnvOf(w, i)>>[k - Len(dlq)]
        BY <2>2, <2>3, <3>2
      <4>2. dlq'[k] = EnvOf(w, i)
        BY <2>5, <3>2, <4>1
      <4> QED BY <2>1, <4>2
    <3> QED BY <2>4, <3>1, <3>2
  <2> QED BY <2>6 DEF Spent
<1>3. ASSUME NEW w \in Workers, NEW i \in Slots, Trim(w, i)
      PROVE  Spent(dlq')
  BY <1>3, ExcessIs, Trimmed DEF Trim, TInv
<1>4. ASSUME NEW w \in Workers, NEW i \in Slots, TaskStep(w, i), ~ Bury(w, i), ~ Trim(w, i)
      PROVE  UNCHANGED dlq
  BY <1>4 DEF TaskStep, Start, DiscardUnhandled, Finish, Fail, Backoff, Requeue
<1>5. ASSUME NEW w \in Workers, LoopStep(w)
      PROVE  UNCHANGED dlq
  BY <1>5 DEF LoopStep, Pop, DiscardUnreadable, CreateTask, Wake, Exit, Restart
<1>6. ASSUME NEW w \in Workers, Adversity(w), \A i \in Slots : ~ BuryTwice(w, i)
      PROVE  UNCHANGED dlq
  BY <1>6 DEF Adversity, HsetError, PopError, Crash, StopListening, StopDroppingJob, StopSleeping,
              RequeueTwice, TaskRedisError
<1>7. ASSUME NEW j \in Jobs, Produce(j)
      PROVE  UNCHANGED dlq
  BY <1>7 DEF Produce
<1>8. CASE UNCHANGED vars
  BY <1>8 DEF vars
<1> QED BY <1>1, <1>2, <1>3, <1>4, <1>5, <1>6, <1>7, <1>8 DEF Next

LEMMA CalmInit == Init => CInv
<1> SUFFICES ASSUME Init PROVE Spent(dlq) /\ Calm
  BY DEF CInv
<1>1. \A j : ~ Holds(<<>>, j)
  BY DEF Holds
<1>2. \A q \in Queues : queue[q] = <<>>
  BY DEF Init
<1>3. \A w \in Workers : waiting[w] = <<>> /\ hand[w] = NoEnvelope /\ loop[w] = "listening"
  BY DEF Init
<1>4. Owned = {}
  BY DEF Init, Owned, Idle
<1>5. dlq = <<>> /\ produced = {} /\ \A j \in Jobs : runs[j] = 0 /\ fate[j] = {}
  BY DEF Init
<1>6. OneSpot
  <2> SUFFICES ASSUME NEW j \in Jobs PROVE Spots(j) = {}
    BY <1>5 DEF OneSpot
  <2>1. QueueSpots(j) = {}
    BY <1>1, <1>2 DEF QueueSpots
  <2>2. HandSpots(j) = {}
    BY <1>3, ConstantsAssumption DEF HandSpots, NoEnvelope
  <2>3. WaitSpots(j) = {}
    BY <1>1, <1>3 DEF WaitSpots
  <2>4. SlotSpots(j) = {} /\ DlqSpots(j) = {} /\ Exits(j) = {}
    BY <1>1, <1>4, <1>5 DEF SlotSpots, DlqSpots, Exits
  <2> QED BY <2>1, <2>2, <2>3, <2>4 DEF Spots
<1>7. AllOnce
  BY <1>2, <1>3, <1>5 DEF AllOnce, Once
<1>8. RunsLine
  BY <1>2, <1>3, <1>4, <1>5 DEF RunsLine, Ready, SpentRuns
<1>9. Awake
  BY <1>3 DEF Awake
<1> QED BY <1>5, <1>6, <1>7, <1>8, <1>9 DEF Calm, Spent

\* The number of mishaps only grows.
LEMMA MishapsGrow ==
    ASSUME TypeOK, [Next]_vars
    PROVE  mishaps \in Nat /\ mishaps' \in Nat /\ mishaps' >= mishaps
<1>0. mishaps \in Nat
  BY ConstantsAssumption DEF TypeOK
<1>1. Mishap => mishaps' = mishaps + 1
  BY DEF Mishap
<1>2. Mishap \/ UNCHANGED mishaps
  <2>1. ASSUME NEW w \in Workers, LoopStep(w) PROVE UNCHANGED mishaps
    BY <2>1 DEF LoopStep, Pop, DiscardUnreadable, CreateTask, Wake, Exit, Restart
  <2>2. ASSUME NEW w \in Workers, NEW i \in Slots, TaskStep(w, i) PROVE UNCHANGED mishaps
    BY <2>2 DEF TaskStep, Start, DiscardUnhandled, Finish, Fail, Backoff, Requeue, Bury, Trim
  <2>3. ASSUME NEW w \in Workers, Adversity(w) PROVE Mishap \/ UNCHANGED mishaps
    BY <2>3 DEF Adversity, HsetError, PopError, Crash, StopListening, StopDroppingJob, StopSleeping,
                RequeueTwice, BuryTwice, TaskRedisError
  <2>4. ASSUME NEW j \in Jobs, Produce(j) PROVE UNCHANGED mishaps
    BY <2>4 DEF Produce
  <2> QED BY <2>1, <2>2, <2>3, <2>4 DEF Next, vars
<1> QED BY <1>0, <1>1, <1>2

LEMMA CalmKept ==
    ASSUME TInv, CInv, [Next]_vars
    PROVE  CInv'
<1>1. Spent(dlq')
  BY SpentStep DEF CInv
<1>2. mishaps' = 0 => mishaps = 0
  BY MishapsGrow DEF TInv
<1>3. mishaps' = 0 => Calm'
  BY <1>2, CalmStep DEF CInv
<1> QED BY <1>1, <1>3 DEF CInv

LEMMA CalmInvariant == Spec => [](TInv /\ CInv)
<1>1. TInv /\ CInv /\ [Next]_vars => TInv' /\ CInv'
  BY WorkerStep, CalmKept
<1>2. Init => TInv /\ CInv
  BY WorkerInit, CalmInit
<1> QED BY <1>1, <1>2, PTL DEF Spec

\* A dead letter has used all its attempts, whatever fails; and while nothing fails its
\* handler ran exactly MaxRetries times (worker.py:201).
THEOREM DeadLetters == Spec => []DeadLettersExhausted
<1>1. TInv /\ CInv => DeadLettersExhausted
  BY DEF CInv, Spent, Calm, RunsLine, SpentRuns, DeadLettersExhausted
<1> QED BY <1>1, CalmInvariant, PTL

-----------------------------------------------------------------------------
(* Conservation                                                            *)

LEMMA AmongIs ==
    ASSUME NEW s, Once(s), NEW j
    PROVE  /\ ~ Holds(s, j) => Among(s, j) = {}
           /\ Holds(s, j) => \E k : Among(s, j) = {k}
  BY DEF Once, Holds, Among

\* A family of spots that is empty, or has one element, has as many places.
LEMMA QueueCount ==
    ASSUME AllOnce, NEW j
    PROVE  /\ QueueSpots(j) = {} => QueuePlaces(j) = {}
           /\ \A p : QueueSpots(j) = {p} => \E x : QueuePlaces(j) = {x}
<1>1. ASSUME QueueSpots(j) = {} PROVE QueuePlaces(j) = {}
  <2>1. \A q \in Queues : Among(queue[q], j) = {}
    BY <1>1, AmongIs DEF AllOnce, QueueSpots
  <2> QED BY <2>1 DEF QueuePlaces
<1>2. ASSUME NEW p, QueueSpots(j) = {p} PROVE \E x : QueuePlaces(j) = {x}
  <2>1. PICK q \in Queues : p = <<"queue", q>> /\ Holds(queue[q], j)
    BY <1>2 DEF QueueSpots
  <2>2. \A x \in Queues \ {q} : ~ Holds(queue[x], j)
    <3>1. \A x \in Queues : Holds(queue[x], j) => <<"queue", x>> \in {p}
      BY <1>2 DEF QueueSpots
    <3> QED BY <2>1, <3>1
  <2>3. PICK k : Among(queue[q], j) = {k}
    BY <2>1, AmongIs DEF AllOnce
  <2>4. \A x \in Queues \ {q} : Among(queue[x], j) = {}
    BY <2>2, AmongIs DEF AllOnce
  <2>5. \A x : x \in QueuePlaces(j) <=> \E r \in Queues : \E n \in Among(queue[r], j) : x = <<"queue", r, n>>
    BY DEF QueuePlaces
  <2>6. QueuePlaces(j) = {<<"queue", q, k>>}
    BY <2>3, <2>4, <2>5
  <2> QED BY <2>6
<1> QED BY <1>1, <1>2

LEMMA WaitCount ==
    ASSUME AllOnce, NEW j
    PROVE  /\ WaitSpots(j) = {} => WaitPlaces(j) = {}
           /\ \A p : WaitSpots(j) = {p} => \E x : WaitPlaces(j) = {x}
<1>1. ASSUME WaitSpots(j) = {} PROVE WaitPlaces(j) = {}
  <2>1. \A w \in Workers : Among(waiting[w], j) = {}
    BY <1>1, AmongIs DEF AllOnce, WaitSpots
  <2> QED BY <2>1 DEF WaitPlaces
<1>2. ASSUME NEW p, WaitSpots(j) = {p} PROVE \E x : WaitPlaces(j) = {x}
  <2>1. PICK w \in Workers : p = <<"waiting", w>> /\ Holds(waiting[w], j)
    BY <1>2 DEF WaitSpots
  <2>2. \A x \in Workers \ {w} : ~ Holds(waiting[x], j)
    <3>1. \A x \in Workers : Holds(waiting[x], j) => <<"waiting", x>> \in {p}
      BY <1>2 DEF WaitSpots
    <3> QED BY <2>1, <3>1
  <2>3. PICK k : Among(waiting[w], j) = {k}
    BY <2>1, AmongIs DEF AllOnce
  <2>4. \A x \in Workers \ {w} : Among(waiting[x], j) = {}
    BY <2>2, AmongIs DEF AllOnce
  <2>5. \A x : x \in WaitPlaces(j) <=> \E v \in Workers : \E n \in Among(waiting[v], j) : x = <<"waiting", v, n>>
    BY DEF WaitPlaces
  <2>6. WaitPlaces(j) = {<<"waiting", w, k>>}
    BY <2>3, <2>4, <2>5
  <2> QED BY <2>6
<1> QED BY <1>1, <1>2

LEMMA DlqCount ==
    ASSUME AllOnce, NEW j
    PROVE  /\ DlqSpots(j) = {} => DlqPlaces(j) = {}
           /\ \A p : DlqSpots(j) = {p} => \E x : DlqPlaces(j) = {x}
<1>1. ASSUME DlqSpots(j) = {} PROVE DlqPlaces(j) = {}
  <2>1. Among(dlq, j) = {}
    BY <1>1, AmongIs DEF AllOnce, DlqSpots
  <2> QED BY <2>1 DEF DlqPlaces
<1>2. ASSUME NEW p, DlqSpots(j) = {p} PROVE \E x : DlqPlaces(j) = {x}
  <2>1. PICK k : Among(dlq, j) = {k}
    BY <1>2, AmongIs DEF AllOnce, DlqSpots
  <2>2. DlqPlaces(j) = {<<"dlq", k>>}
    BY <2>1 DEF DlqPlaces
  <2> QED BY <2>2
<1> QED BY <1>1, <1>2

LEMMA ExitCount ==
    ASSUME NEW j
    PROVE  /\ Exits(j) = {} => fate[j] = {}
           /\ \A p : Exits(j) = {p} => \E f : fate[j] = {f}
<1>1. ASSUME Exits(j) = {} PROVE fate[j] = {}
  BY <1>1 DEF Exits
<1>2. ASSUME NEW p, Exits(j) = {p} PROVE \E f : fate[j] = {f}
  <2>1. PICK f \in fate[j] : p = <<"fate", f>>
    BY <1>2 DEF Exits
  <2>2. \A x \in fate[j] : <<"fate", x>> \in {p}
    BY <1>2 DEF Exits
  <2>3. \A x \in fate[j] : x = f
    BY <2>1, <2>2
  <2> QED BY <2>1, <2>3
<1> QED BY <1>1, <1>2

LEMMA OneOrNone ==
    ASSUME Calm, NEW j \in produced, j \in Jobs
    PROVE  \/ Places(j) = {} /\ \E f : fate[j] = {f}
           \/ fate[j] = {} /\ \E x : Places(j) = {x}
<1> AllOnce /\ OneSpot
  BY DEF Calm
<1>1. PICK p : Spots(j) = {p}
  BY DEF OneSpot
<1>2. /\ j \in produced /\ p \in Spots(j)
      /\ p[1] # "queue" => QueueSpots(j) = {}
      /\ p[1] # "hand" => HandSpots(j) = {}
      /\ p[1] # "waiting" => WaitSpots(j) = {}
      /\ p[1] # "slot" => SlotSpots(j) = {}
      /\ p[1] # "dlq" => DlqSpots(j) = {}
      /\ p[1] # "fate" => Exits(j) = {}
  <2>1. p \in Spots(j)
    BY <1>1
  <2> QED BY <2>1, Alone
<1>3. Places(j) = QueuePlaces(j) \cup HandPlaces(j) \cup WaitPlaces(j) \cup SlotPlaces(j) \cup DlqPlaces(j)
  BY DEF Places
<1>4. HandPlaces(j) = HandSpots(j) /\ SlotPlaces(j) = SlotSpots(j)
  BY DEF HandPlaces, HandSpots, SlotPlaces, SlotSpots
<1>5. /\ \A x \in QueueSpots(j) \cup HandSpots(j) \cup WaitSpots(j) \cup SlotSpots(j) \cup DlqSpots(j) \cup Exits(j) : x = p
      /\ p \in QueueSpots(j) \cup HandSpots(j) \cup WaitSpots(j) \cup SlotSpots(j) \cup DlqSpots(j) \cup Exits(j)
  BY <1>1 DEF Spots
<1>6. CASE p \in QueueSpots(j)
  <2>1. QueueSpots(j) = {p} /\ p[1] = "queue"
    BY <1>5, <1>6, Tagged
  <2>2. PICK x : QueuePlaces(j) = {x}
    BY <2>1, QueueCount
  <2>3. WaitPlaces(j) = {} /\ HandPlaces(j) = {} /\ SlotPlaces(j) = {} /\ DlqPlaces(j) = {} /\ fate[j] = {}
    BY <1>2, <1>4, <2>1, WaitCount, DlqCount, ExitCount
  <2> QED BY <1>3, <2>2, <2>3
<1>7. CASE p \in HandSpots(j)
  <2>1. HandSpots(j) = {p} /\ p[1] = "hand"
    BY <1>5, <1>7, Tagged
  <2>2. QueuePlaces(j) = {} /\ WaitPlaces(j) = {} /\ SlotPlaces(j) = {} /\ DlqPlaces(j) = {} /\ fate[j] = {}
    BY <1>2, <1>4, <2>1, QueueCount, WaitCount, DlqCount, ExitCount
  <2> QED BY <1>3, <1>4, <2>1, <2>2
<1>8. CASE p \in WaitSpots(j)
  <2>1. WaitSpots(j) = {p} /\ p[1] = "waiting"
    BY <1>5, <1>8, Tagged
  <2>2. PICK x : WaitPlaces(j) = {x}
    BY <2>1, WaitCount
  <2>3. QueuePlaces(j) = {} /\ HandPlaces(j) = {} /\ SlotPlaces(j) = {} /\ DlqPlaces(j) = {} /\ fate[j] = {}
    BY <1>2, <1>4, <2>1, QueueCount, DlqCount, ExitCount
  <2> QED BY <1>3, <2>2, <2>3
<1>9. CASE p \in SlotSpots(j)
  <2>1. SlotSpots(j) = {p} /\ p[1] = "slot"
    BY <1>5, <1>9, Tagged
  <2>2. QueuePlaces(j) = {} /\ HandPlaces(j) = {} /\ WaitPlaces(j) = {} /\ DlqPlaces(j) = {} /\ fate[j] = {}
    BY <1>2, <1>4, <2>1, QueueCount, WaitCount, DlqCount, ExitCount
  <2> QED BY <1>3, <1>4, <2>1, <2>2
<1>10. CASE p \in DlqSpots(j)
  <2>1. DlqSpots(j) = {p} /\ p[1] = "dlq"
    BY <1>5, <1>10, Tagged
  <2>2. PICK x : DlqPlaces(j) = {x}
    BY <2>1, DlqCount
  <2>3. QueuePlaces(j) = {} /\ HandPlaces(j) = {} /\ WaitPlaces(j) = {} /\ SlotPlaces(j) = {} /\ fate[j] = {}
    BY <1>2, <1>4, <2>1, QueueCount, WaitCount, ExitCount
  <2> QED BY <1>3, <2>2, <2>3
<1>11. CASE p \in Exits(j)
  <2>1. Exits(j) = {p} /\ p[1] = "fate"
    BY <1>5, <1>11, Tagged
  <2>2. PICK f : fate[j] = {f}
    BY <2>1, ExitCount
  <2>3. QueuePlaces(j) = {} /\ HandPlaces(j) = {} /\ WaitPlaces(j) = {} /\ SlotPlaces(j) = {} /\ DlqPlaces(j) = {}
    BY <1>2, <1>4, <2>1, QueueCount, WaitCount, DlqCount
  <2> QED BY <1>3, <2>2, <2>3
<1> QED BY <1>5, <1>6, <1>7, <1>8, <1>9, <1>10, <1>11

\* While Redis answers and no process dies, a pushed job is in exactly one place or has left
\* exactly once, for any number of jobs, lists, processes and places of a semaphore, through
\* retries, priorities, LTRIM and the SIGINTs that meet the loop inside BLPOP.
THEOREM Conserved == Spec => []JobConserved
<1>1. TInv /\ CInv => JobConserved
  <2> SUFFICES ASSUME TInv, CInv, mishaps = 0, NEW j \in produced
               PROVE  Cardinality(Places(j)) + Cardinality(fate[j]) = 1
    BY DEF JobConserved
  <2>1. Calm /\ j \in Jobs
    BY DEF CInv, TInv, TypeOK
  <2>2. CASE Places(j) = {} /\ \E f : fate[j] = {f}
    <3>1. PICK f : fate[j] = {f}
      BY <2>2
    <3>2. Cardinality(Places(j)) = 0
      BY <2>2, FS_EmptySet
    <3>3. Cardinality(fate[j]) = 1
      BY <3>1, FS_Singleton
    <3> QED BY <3>2, <3>3
  <2>3. CASE fate[j] = {} /\ \E x : Places(j) = {x}
    <3>1. PICK x : Places(j) = {x}
      BY <2>3
    <3>2. Cardinality(Places(j)) = 1
      BY <3>1, FS_Singleton
    <3>3. Cardinality(fate[j]) = 0
      BY <2>3, FS_EmptySet
    <3> QED BY <3>2, <3>3
  <2> QED BY <2>1, <2>2, <2>3, OneOrNone
<1> QED BY <1>1, CalmInvariant, PTL

-----------------------------------------------------------------------------
(* The runtime implements JobContract                                      *)

\* What StageOf asks of the state, in terms of the spots.
Shown ==
    \A j \in Jobs :
        /\ j \in produced <=> Spots(j) # {}
        /\ \A f : f \in fate[j] <=> <<"fate", f>> \in Spots(j)
        /\ Among(dlq, j) # {} <=> <<"dlq", "dlq">> \in Spots(j)
        /\ \A s \in Workers \X Slots :
              slot[s].phase \in OwnedPhases /\ slot[s].env.job = j <=> <<"slot", s>> \in Spots(j)

LEMMA CalmShown ==
    TInv /\ Calm => Shown
<1> SUFFICES ASSUME TInv, Calm, NEW j \in Jobs
             PROVE  /\ j \in produced <=> Spots(j) # {}
                    /\ \A f : f \in fate[j] <=> <<"fate", f>> \in Spots(j)
                    /\ Among(dlq, j) # {} <=> <<"dlq", "dlq">> \in Spots(j)
                    /\ \A s \in Workers \X Slots :
                          slot[s].phase \in OwnedPhases /\ slot[s].env.job = j
                             <=> <<"slot", s>> \in Spots(j)
  BY DEF Shown
<1>1. j \in produced <=> Spots(j) # {}
  BY DEF Calm, OneSpot
<1>2. \A f : f \in fate[j] <=> <<"fate", f>> \in Spots(j)
  BY DEF Spots, QueueSpots, HandSpots, WaitSpots, SlotSpots, DlqSpots, Exits
<1>3. Among(dlq, j) # {} <=> <<"dlq", "dlq">> \in Spots(j)
  <2>1. Among(dlq, j) # {} <=> Holds(dlq, j)
    BY DEF Among, Holds
  <2> QED BY <2>1 DEF Spots, QueueSpots, HandSpots, WaitSpots, SlotSpots, DlqSpots, Exits
<1>4. ASSUME NEW s \in Workers \X Slots
      PROVE  slot[s].phase \in OwnedPhases /\ slot[s].env.job = j <=> <<"slot", s>> \in Spots(j)
  <2>1. <<"slot", s>> \in Spots(j) <=> <<"slot", s>> \in SlotSpots(j)
    BY DEF Spots, QueueSpots, HandSpots, WaitSpots, SlotSpots, DlqSpots, Exits
  <2>2. <<"slot", s>> \in SlotSpots(j) <=> s \in Owned /\ slot[s].env.job = j
    BY DEF SlotSpots
  <2> QED BY <2>1, <2>2 DEF Owned, OwnedPhases
<1> QED BY <1>1, <1>2, <1>3, <1>4

LEMMA CalmShownNext ==
    ASSUME TInv', Calm'
    PROVE  Shown'
  BY CalmShown, PTL

\* The stage that goes with each spot.
StageFacts ==
    \A j \in Jobs :
        /\ Spots(j) = {} => StageOf(j) = "absent"
        /\ \A q : Spots(j) = {<<"queue", q>>} => StageOf(j) = "queued"
        /\ \A w : Spots(j) = {<<"hand", w>>} => StageOf(j) = "queued"
        /\ \A w : Spots(j) = {<<"waiting", w>>} => StageOf(j) = "queued"
        /\ \A s \in Workers \X Slots :
              Spots(j) = {<<"slot", s>>} =>
                 StageOf(j) = IF slot[s].phase = "backoff" THEN "backoff" ELSE "running"
        /\ Spots(j) = {<<"dlq", "dlq">>} => StageOf(j) = "dead"
        /\ \A f : Spots(j) = {<<"fate", f>>} => StageOf(j) = f

LEMMA ShownStages ==
    Shown /\ mishaps = 0 => StageFacts
<1> SUFFICES ASSUME Shown, mishaps = 0, NEW j \in Jobs
             PROVE  /\ Spots(j) = {} => StageOf(j) = "absent"
                    /\ \A q : Spots(j) = {<<"queue", q>>} => StageOf(j) = "queued"
                    /\ \A w : Spots(j) = {<<"hand", w>>} => StageOf(j) = "queued"
                    /\ \A w : Spots(j) = {<<"waiting", w>>} => StageOf(j) = "queued"
                    /\ \A s \in Workers \X Slots :
                          Spots(j) = {<<"slot", s>>} =>
                             StageOf(j) = IF slot[s].phase = "backoff" THEN "backoff" ELSE "running"
                    /\ Spots(j) = {<<"dlq", "dlq">>} => StageOf(j) = "dead"
                    /\ \A f : Spots(j) = {<<"fate", f>>} => StageOf(j) = f
  BY DEF StageFacts
<1>1. ~ (mishaps > 0)
  OBVIOUS
<1>2. Spots(j) = {} => StageOf(j) = "absent"
  BY <1>1 DEF Shown, StageOf
<1>3. ASSUME Spots(j) # {}, \A f : <<"fate", f>> \notin Spots(j), <<"dlq", "dlq">> \notin Spots(j)
      PROVE  StageOf(j) = IF Busy(j, {"running", "failed"}) THEN "running"
                          ELSE IF Busy(j, {"backoff"}) THEN "backoff" ELSE "queued"
  <2>1. j \in produced /\ fate[j] = {} /\ Among(dlq, j) = {}
    BY <1>3 DEF Shown
  <2> QED BY <1>1, <2>1 DEF StageOf
<1>4. ASSUME NEW p, Spots(j) = {p}, p[1] \notin {"slot", "fate", "dlq"}
      PROVE  StageOf(j) = "queued"
  <2>1. /\ \A f : <<"fate", f>> # p
        /\ <<"dlq", "dlq">> # p
        /\ \A s : <<"slot", s>> # p
    BY <1>4
  <2>2. ~ Busy(j, {"running", "failed"}) /\ ~ Busy(j, {"backoff"})
    <3>1. \A s \in Workers \X Slots : ~ (slot[s].phase \in OwnedPhases /\ slot[s].env.job = j)
      <4>1. \A s : <<"slot", s>> \notin Spots(j)
        BY <1>4, <2>1
      <4> QED BY <4>1 DEF Shown
    <3> QED BY <3>1 DEF Busy, OwnedPhases
  <2> QED BY <1>3, <1>4, <2>1, <2>2
<1>5. ASSUME NEW q
      PROVE  /\ Spots(j) = {<<"queue", q>>} => StageOf(j) = "queued"
             /\ Spots(j) = {<<"hand", q>>} => StageOf(j) = "queued"
             /\ Spots(j) = {<<"waiting", q>>} => StageOf(j) = "queued"
  BY <1>4
<1>6. ASSUME NEW s \in Workers \X Slots, Spots(j) = {<<"slot", s>>}
      PROVE  StageOf(j) = IF slot[s].phase = "backoff" THEN "backoff" ELSE "running"
  <2>1. /\ \A f : <<"fate", f>> # <<"slot", s>>
        /\ <<"dlq", "dlq">> # <<"slot", s>>
        /\ \A x : <<"slot", x>> = <<"slot", s>> => x = s
    OBVIOUS
  <2>2. \A x \in Workers \X Slots : slot[x].phase \in OwnedPhases /\ slot[x].env.job = j <=> x = s
    BY <1>6, <2>1 DEF Shown
  <2>3. Busy(j, {"running", "failed"}) <=> slot[s].phase # "backoff"
    BY <2>2 DEF Busy, OwnedPhases
  <2>4. Busy(j, {"backoff"}) <=> slot[s].phase = "backoff"
    BY <2>2 DEF Busy, OwnedPhases
  <2> QED BY <1>3, <1>6, <2>1, <2>3, <2>4
<1>7. ASSUME Spots(j) = {<<"dlq", "dlq">>}
      PROVE  StageOf(j) = "dead"
  <2>1. j \in produced /\ fate[j] = {} /\ Among(dlq, j) # {}
    BY <1>7 DEF Shown
  <2> QED BY <1>1, <2>1 DEF StageOf
<1>8. ASSUME NEW f, Spots(j) = {<<"fate", f>>}
      PROVE  StageOf(j) = f
  <2>1. j \in produced /\ fate[j] = {f}
    BY <1>8 DEF Shown
  <2> QED BY <1>1, <2>1 DEF StageOf
<1> QED BY <1>2, <1>5, <1>6, <1>7, <1>8

LEMMA StageFactsNext ==
    ASSUME TInv', Calm', mishaps' = 0
    PROVE  StageFacts'
<1>1. Shown'
  BY CalmShownNext
<1>2. (Shown /\ mishaps = 0 => StageFacts)'
  BY ShownStages, PTL
<1> QED BY <1>1, <1>2

\* A job that stays where it is keeps its stage, if its task changes nothing that shows.
LEMMA SameStage ==
    ASSUME Shown, Shown', mishaps' = mishaps, NEW j \in Jobs, Spots(j)' = Spots(j),
           \A s \in Workers \X Slots :
              <<"slot", s>> \in Spots(j) =>
                 (slot'[s].phase = "backoff" <=> slot[s].phase = "backoff")
    PROVE  StageOf(j)' = StageOf(j)
<1>1. (j \in produced)' <=> j \in produced
  BY DEF Shown
<1>2. fate'[j] = fate[j]
  <2>1. \A f : f \in fate'[j] <=> f \in fate[j]
    <3>1. \A f : f \in fate[j] <=> <<"fate", f>> \in Spots(j)
      BY DEF Shown
    <3>2. \A f : f \in fate'[j] <=> <<"fate", f>> \in Spots(j)'
      BY DEF Shown
    <3> QED BY <3>1, <3>2
  <2>2. fate[j] = {f \in fate[j] : TRUE} /\ fate'[j] = {f \in fate'[j] : TRUE}
    BY <2>1
  <2> QED BY <2>1, <2>2
<1>3. (Among(dlq, j) # {})' <=> Among(dlq, j) # {}
  BY DEF Shown
<1>4. \A s \in Workers \X Slots :
         /\ slot[s].phase \in OwnedPhases /\ slot[s].env.job = j <=> <<"slot", s>> \in Spots(j)
         /\ slot'[s].phase \in OwnedPhases /\ slot'[s].env.job = j <=> <<"slot", s>> \in Spots(j)
  <2>1. \A s \in Workers \X Slots :
           slot[s].phase \in OwnedPhases /\ slot[s].env.job = j <=> <<"slot", s>> \in Spots(j)
    BY DEF Shown
  <2>2. \A s \in Workers \X Slots :
           slot'[s].phase \in OwnedPhases' /\ slot'[s].env.job = j <=> <<"slot", s>> \in Spots(j)'
    BY DEF Shown
  <2> QED BY <2>1, <2>2 DEF OwnedPhases
<1>5. Busy(j, {"backoff"})' <=> Busy(j, {"backoff"})
  BY <1>4 DEF Busy, OwnedPhases
<1>6. Busy(j, {"running", "failed"})' <=> Busy(j, {"running", "failed"})
  BY <1>4 DEF Busy, OwnedPhases
<1> QED BY <1>1, <1>2, <1>3, <1>5, <1>6 DEF StageOf

\* One job moves, the others show what they showed.
Stays(x) ==
    \A s \in Workers \X Slots :
        <<"slot", s>> \in Spots(x) => (slot'[s].phase = "backoff" <=> slot[s].phase = "backoff")

LEMMA StageMoved ==
    ASSUME Shown, Shown', mishaps' = mishaps, NEW j \in Jobs,
           \A x \in Jobs \ {j} : Spots(x)' = Spots(x) /\ Stays(x)
    PROVE  Stages' = [Stages EXCEPT ![j] = StageOf(j)']
<1>1. \A x \in Jobs \ {j} : StageOf(x)' = StageOf(x)
  BY SameStage DEF Stays
<1> QED BY <1>1 DEF Stages

\* A step that leaves the slots alone, or takes one over from no other job.
LEMMA StaysOthers ==
    ASSUME Shown, NEW j \in Jobs, NEW w \in Workers, NEW i \in Slots, TypeOK,
           \A s \in Workers \X Slots : s # <<w, i>> => slot'[s] = slot[s],
           slot[<<w, i>>].phase \notin OwnedPhases \/ slot[<<w, i>>].env.job = j
    PROVE  \A x \in Jobs \ {j} : Stays(x)
<1>1. \A x \in Jobs \ {j} : <<"slot", <<w, i>>>> \notin Spots(x)
  BY DEF Shown
<1> QED BY <1>1 DEF Stays

LEMMA SlotsElse ==
    ASSUME TypeOK, NEW w \in Workers, NEW i \in Slots, NEW t, SetSlot(w, i, t)
    PROVE  /\ \A s \in Workers \X Slots : s # <<w, i>> => slot'[s] = slot[s]
           /\ slot'[<<w, i>>] = t
  BY DEF SetSlot, TypeOK

LEMMA MovesIs ==
    ASSUME Shown, Shown', mishaps' = mishaps, NEW j \in Jobs, NEW a, NEW b,
           StageOf(j) = a, StageOf(j)' = b,
           \A x \in Jobs \ {j} : Spots(x)' = Spots(x) /\ Stays(x)
    PROVE  Contract!Moves(j, a, b)
<1>1. Stages' = [Stages EXCEPT ![j] = b]
  BY StageMoved
<1>2. Stages[j] = a
  BY DEF Stages
<1> QED BY <1>1, <1>2 DEF Contract!Moves

\* No mishap yet: RunsSeen is runs.
LEMMA RunsAre ==
    ASSUME TypeOK, mishaps = 0
    PROVE  RunsSeen = runs /\ Failed = FALSE
<1>1. RunsSeen = [j \in Jobs |-> runs[j]]
  BY DEF RunsSeen
<1>2. runs = [j \in Jobs |-> runs[j]]
  BY DEF TypeOK
<1> QED BY <1>1, <1>2 DEF Failed

LEMMA RunsAreNext ==
    ASSUME TypeOK', mishaps' = 0
    PROVE  RunsSeen' = runs' /\ Failed' = FALSE
<1>1. (TypeOK /\ mishaps = 0 => RunsSeen = runs /\ Failed = FALSE)'
  BY RunsAre, PTL
<1> QED BY <1>1

\* The state before and the state after a step without mishap.
Before == TInv /\ Calm /\ mishaps = 0 /\ Shown /\ StageFacts /\ RunsSeen = runs /\ Failed = FALSE

LEMMA BeforeIs == TInv /\ Calm /\ mishaps = 0 => Before
  BY CalmShown, ShownStages, RunsAre DEF Before, TInv

LEMMA ContractProduce ==
    ASSUME Before, Before', NEW j \in Jobs, Produce(j)
    PROVE  Contract!Push(j)
<1>1. Moved(j, {}, {<<"queue", QueueOf[j]>>}) /\ UNCHANGED <<slot, runs>>
  BY CalmProduce DEF Before, Produce, memVars
<1>2. StageOf(j) = "absent" /\ StageOf(j)' = "queued"
  BY <1>1 DEF Before, StageFacts, Moved
<1>3. Contract!Moves(j, "absent", "queued")
  BY <1>1, <1>2, MovesIs DEF Moved, Stays, Before
<1> QED BY <1>1, <1>3 DEF Contract!Push, Before

\* A popped job is still queued, and so is one that waits for the semaphore.
LEMMA ContractHandOver ==
    ASSUME Before, Before', NEW w \in Workers, Pop(w) \/ CreateTask(w)
    PROVE  UNCHANGED <<Stages, RunsSeen, Failed>>
<1>1. UNCHANGED <<slot, runs>>
  BY DEF Pop, CreateTask, ghosts
<1>2. PICK j \in Jobs :
         \/ \E q \in Queues : Moved(j, {<<"queue", q>>}, {<<"hand", w>>})
         \/ Moved(j, {<<"hand", w>>}, {<<"waiting", w>>})
  BY CalmPop, CalmCreateTask DEF Before
<1>3. StageOf(j) = "queued" /\ StageOf(j)' = "queued"
  BY <1>2 DEF Before, StageFacts, Moved
<1>4. Contract!Moves(j, "queued", "queued")
  BY <1>1, <1>2, <1>3, MovesIs DEF Moved, Stays, Before
<1>5. Stages' = Stages
  BY <1>4 DEF Contract!Moves, Stages
<1> QED BY <1>1, <1>5 DEF Before

LEMMA ContractDiscard ==
    ASSUME Before, Before', NEW w \in Workers,
           DiscardUnreadable(w) \/ \E i \in Slots : DiscardUnhandled(w, i)
    PROVE  \E j \in Jobs : Contract!Discard(j)
<1>1. UNCHANGED <<slot, runs>>
  BY DEF DiscardUnreadable, DiscardUnhandled, memVars
<1>2. PICK j \in Jobs :
         \/ \E q \in Queues : Moved(j, {<<"queue", q>>}, {<<"fate", "discarded">>})
         \/ Moved(j, {<<"waiting", w>>}, {<<"fate", "discarded">>})
  BY CalmDiscardUnreadable, CalmDiscardUnhandled DEF Before
<1>3. StageOf(j) = "queued" /\ StageOf(j)' = "discarded"
  BY <1>2 DEF Before, StageFacts, Moved
<1>4. Contract!Moves(j, "queued", "discarded")
  BY <1>1, <1>2, <1>3, MovesIs DEF Moved, Stays, Before
<1> QED BY <1>1, <1>4 DEF Contract!Discard, Before

LEMMA ContractStart ==
    ASSUME Before, Before', NEW w \in Workers, NEW i \in Slots, Start(w, i)
    PROVE  \E j \in Jobs : Contract!Run(j)
<1>1. PICK j \in Jobs :
         /\ Moved(j, {<<"waiting", w>>}, {<<"slot", <<w, i>>>>})
         /\ runs[j] < MaxRetries /\ runs' = [runs EXCEPT ![j] = @ + 1]
         /\ slot'[<<w, i>>].phase = "running"
  BY CalmStart DEF Before
<1>2. StageOf(j) = "queued" /\ StageOf(j)' = "running"
  <2>1. (StageOf(j) = IF slot[<<w, i>>].phase = "backoff" THEN "backoff" ELSE "running")'
    BY <1>1 DEF Before, StageFacts, Moved
  <2>2. StageOf(j) = "queued"
    BY <1>1 DEF Before, StageFacts, Moved
  <2> QED BY <1>1, <2>1, <2>2
<1>3. \A x \in Jobs \ {j} : Stays(x)
  <2>1. PICK t : SetSlot(w, i, t)
    BY DEF Start
  <2>2. \A s \in Workers \X Slots : s # <<w, i>> => slot'[s] = slot[s]
    BY <2>1, SlotsElse DEF Before, TInv
  <2>3. slot[<<w, i>>].phase \notin OwnedPhases
    BY DEF Start, Acquires, Idle, OwnedPhases
  <2> QED BY <2>2, <2>3, StaysOthers DEF Before, TInv
<1>4. Contract!Moves(j, "queued", "running")
  BY <1>1, <1>2, <1>3, MovesIs DEF Moved, Before
<1> QED BY <1>1, <1>4 DEF Contract!Run, Before

\* The job of a task that owns its envelope.
LEMMA OwnerIs ==
    ASSUME Before, NEW w \in Workers, NEW i \in Slots, slot[<<w, i>>].phase \in OwnedPhases
    PROVE  \E j \in Jobs :
              /\ j = EnvOf(w, i).job /\ j = slot[<<w, i>>].env.job
              /\ Spots(j) = {<<"slot", <<w, i>>>>}
              /\ runs[j] = EnvOf(w, i).attempt
              /\ StageOf(j) = IF slot[<<w, i>>].phase = "backoff" THEN "backoff" ELSE "running"
<1> TInv /\ Calm /\ <<w, i>> \in Workers \X Slots
  BY DEF Before
<1>1. PICK j \in Jobs : j = EnvOf(w, i).job /\ <<"slot", <<w, i>>>> \in SlotSpots(j)
  BY OwnedSpot
<1>2. <<"slot", <<w, i>>>> \in Spots(j)
  BY <1>1 DEF Spots
<1>3. Spots(j) = {<<"slot", <<w, i>>>>}
  BY <1>2, Alone DEF Calm
<1>4. <<w, i>> \in Owned
  BY DEF Owned, OwnedPhases
<1>5. runs[j] = EnvOf(w, i).attempt
  BY <1>1, <1>4 DEF Calm, RunsLine, EnvOf
<1>6. StageOf(j) = IF slot[<<w, i>>].phase = "backoff" THEN "backoff" ELSE "running"
  BY <1>3 DEF Before, StageFacts
<1> QED BY <1>1, <1>3, <1>5, <1>6 DEF EnvOf

\* The other jobs do not notice what happens in a slot that is not theirs.
LEMMA OthersStay ==
    ASSUME Before, NEW w \in Workers, NEW i \in Slots, NEW t, SetSlot(w, i, t),
           NEW j \in Jobs, slot[<<w, i>>].phase \notin OwnedPhases \/ slot[<<w, i>>].env.job = j
    PROVE  \A x \in Jobs \ {j} : Stays(x)
<1>1. \A s \in Workers \X Slots : s # <<w, i>> => slot'[s] = slot[s]
  BY SlotsElse DEF Before, TInv
<1> QED BY <1>1, StaysOthers DEF Before, TInv

LEMMA ContractFinish ==
    ASSUME Before, Before', NEW w \in Workers, NEW i \in Slots, Finish(w, i)
    PROVE  \E j \in Jobs : Contract!Succeed(j)
<1>0. slot[<<w, i>>].phase = "running" /\ slot[<<w, i>>].phase \in OwnedPhases
  BY DEF Finish, InPhase, OwnedPhases
<1>1. PICK j \in Jobs :
         j = EnvOf(w, i).job /\ Moved(j, {<<"slot", <<w, i>>>>}, {<<"fate", "done">>})
  BY CalmFinish DEF Before
<1>2. StageOf(j) = "running" /\ slot[<<w, i>>].env.job = j
  BY <1>0, <1>1, OwnerIs
<1>3. StageOf(j)' = "done"
  BY <1>1 DEF Before, StageFacts, Moved
<1>4. \A x \in Jobs \ {j} : Stays(x)
  BY <1>2, OthersStay DEF Finish
<1>5. Contract!Moves(j, "running", "done")
  BY <1>1, <1>2, <1>3, <1>4, MovesIs DEF Moved, Before
<1> QED BY <1>5 DEF Contract!Succeed, Before, Finish

LEMMA ContractFail ==
    ASSUME Before, Before', NEW w \in Workers, NEW i \in Slots, Fail(w, i)
    PROVE  UNCHANGED <<Stages, RunsSeen, Failed>>
<1>1. \A x \in Jobs : Spots(x)' = Spots(x)
  BY CalmPhase DEF Before
<1>2. \A x \in Jobs : Stays(x)
  <2>1. slot[<<w, i>>].phase = "running" /\ <<w, i>> \in Workers \X Slots
    BY DEF Fail, InPhase
  <2>2. slot'[<<w, i>>].phase = "failed"
    <3>1. slot'[<<w, i>>] = [slot[<<w, i>>] EXCEPT !.phase = "failed"]
      BY SlotsElse DEF Fail, Before, TInv
    <3>2. slot[<<w, i>>] \in Task
      BY <2>1, SlotIs, PhaseNames DEF Before, TInv
    <3> QED BY <3>1, <3>2 DEF Task
  <2>3. \A s \in Workers \X Slots : s # <<w, i>> => slot'[s] = slot[s]
    BY SlotsElse DEF Fail, Before, TInv
  <2> QED BY <2>1, <2>2, <2>3 DEF Stays
<1>3. \A x \in Jobs : StageOf(x)' = StageOf(x)
  BY <1>1, <1>2, SameStage DEF Stays, Before
<1> QED BY <1>3 DEF Stages, Before, Fail, ghosts

LEMMA ContractBackoff ==
    ASSUME Before, Before', NEW w \in Workers, NEW i \in Slots, Backoff(w, i)
    PROVE  \E j \in Jobs : Contract!BackOff(j)
<1>0. /\ slot[<<w, i>>].phase = "failed" /\ slot[<<w, i>>].phase \in OwnedPhases
      /\ EnvOf(w, i).attempt < MaxRetries
  BY DEF Backoff, InPhase, OwnedPhases, MayRetry
<1>1. \A x \in Jobs : Spots(x)' = Spots(x)
  BY CalmPhase DEF Before
<1>2. PICK j \in Jobs :
         /\ slot[<<w, i>>].env.job = j /\ Spots(j) = {<<"slot", <<w, i>>>>}
         /\ runs[j] < MaxRetries /\ StageOf(j) = "running"
  BY <1>0, OwnerIs
<1>3. slot'[<<w, i>>].phase = "backoff"
  <2>1. slot'[<<w, i>>] = [slot[<<w, i>>] EXCEPT !.phase = "backoff"]
    BY SlotsElse DEF Backoff, Before, TInv
  <2>2. slot[<<w, i>>] \in Task
    BY <1>0, SlotIs, PhaseNames DEF Before, TInv
  <2> QED BY <2>1, <2>2 DEF Task
<1>4. StageOf(j)' = "backoff"
  <2>1. (StageOf(j) = IF slot[<<w, i>>].phase = "backoff" THEN "backoff" ELSE "running")'
    BY <1>1, <1>2 DEF Before, StageFacts
  <2> QED BY <1>3, <2>1
<1>5. \A x \in Jobs \ {j} : Stays(x)
  BY <1>2, OthersStay DEF Backoff
<1>6. Contract!Moves(j, "running", "backoff")
  BY <1>1, <1>2, <1>4, <1>5, MovesIs DEF Before
<1> QED BY <1>2, <1>6 DEF Contract!BackOff, Before, Backoff, ghosts

LEMMA ContractRequeue ==
    ASSUME Before, Before', NEW w \in Workers, NEW i \in Slots, Requeue(w, i)
    PROVE  \E j \in Jobs : Contract!PushAgain(j)
<1>0. slot[<<w, i>>].phase = "backoff" /\ slot[<<w, i>>].phase \in OwnedPhases
  BY DEF Requeue, InPhase, OwnedPhases
<1>1. PICK j \in Jobs : \E q \in Queues :
         j = EnvOf(w, i).job /\ Moved(j, {<<"slot", <<w, i>>>>}, {<<"queue", q>>})
  BY CalmRequeue DEF Before
<1>2. StageOf(j) = "backoff" /\ slot[<<w, i>>].env.job = j
  BY <1>0, <1>1, OwnerIs
<1>3. StageOf(j)' = "queued"
  BY <1>1 DEF Before, StageFacts, Moved
<1>4. \A x \in Jobs \ {j} : Stays(x)
  BY <1>2, OthersStay DEF Requeue
<1>5. Contract!Moves(j, "backoff", "queued")
  BY <1>1, <1>2, <1>3, <1>4, MovesIs DEF Moved, Before
<1> QED BY <1>5 DEF Contract!PushAgain, Before, Requeue, ghosts

LEMMA ContractBury ==
    ASSUME Before, Before', NEW w \in Workers, NEW i \in Slots, Bury(w, i)
    PROVE  \E j \in Jobs : Contract!Bury(j)
<1>0. /\ slot[<<w, i>>].phase = "failed" /\ slot[<<w, i>>].phase \in OwnedPhases
      /\ EnvOf(w, i).attempt = MaxRetries
  BY BuriedIs DEF Bury, InPhase, OwnedPhases, Before
<1>1. PICK j \in Jobs :
         j = EnvOf(w, i).job /\ Moved(j, {<<"slot", <<w, i>>>>}, {<<"dlq", "dlq">>})
  BY CalmBury DEF Before
<1>2. StageOf(j) = "running" /\ slot[<<w, i>>].env.job = j /\ runs[j] = MaxRetries
  BY <1>0, <1>1, OwnerIs
<1>3. StageOf(j)' = "dead"
  BY <1>1 DEF Before, StageFacts, Moved
<1>4. \A x \in Jobs \ {j} : Stays(x)
  BY <1>2, OthersStay DEF Bury
<1>5. Contract!Moves(j, "running", "dead")
  BY <1>1, <1>2, <1>3, <1>4, MovesIs DEF Moved, Before
<1> QED BY <1>2, <1>5 DEF Contract!Bury, Before, Bury, ghosts

LEMMA ContractTrim ==
    ASSUME Before, Before', NEW w \in Workers, NEW i \in Slots, Trim(w, i)
    PROVE  \E S \in SUBSET Jobs : Contract!Evict(S)
<1> DEFINE S == {x \in Jobs : Spots(x)' # Spots(x)}
<1>1. \A x \in S : Spots(x) = {<<"dlq", "dlq">>} /\ Spots(x)' = {<<"fate", "evicted">>}
  BY CalmTrim DEF Before
<1>2. \A x \in S : StageOf(x) = "dead" /\ StageOf(x)' = "evicted"
  BY <1>1 DEF Before, StageFacts
<1>3. \A x \in Jobs : Stays(x)
  <2>1. slot[<<w, i>>].phase \notin OwnedPhases
    BY DEF Trim, InPhase, OwnedPhases
  <2>2. \A x \in Jobs : <<"slot", <<w, i>>>> \notin Spots(x)
    BY <2>1 DEF Before, Shown
  <2>3. \A s \in Workers \X Slots : s # <<w, i>> => slot'[s] = slot[s]
    BY SlotsElse DEF Trim, Before, TInv
  <2> QED BY <2>2, <2>3 DEF Stays
<1>4. \A x \in Jobs \ S : StageOf(x)' = StageOf(x)
  BY <1>3, SameStage DEF Stays, Before
<1>5. Stages' = [x \in Jobs |-> IF x \in S THEN "evicted" ELSE Stages[x]]
  BY <1>2, <1>4 DEF Stages
<1>6. \A x \in S : Stages[x] = "dead"
  BY <1>2 DEF Stages
<1>7. Contract!Evict(S)
  BY <1>5, <1>6 DEF Contract!Evict, Before, Trim
<1> QED BY <1>7

LEMMA ContractStill ==
    ASSUME Before, Before',
           UNCHANGED <<queue, dlq, hand, waiting, slot, produced, runs, fate>>
    PROVE  UNCHANGED <<Stages, RunsSeen, Failed>>
<1>1. \A x \in Jobs : Spots(x)' = Spots(x)
  BY SameSpots DEF Spots
<1>2. \A x \in Jobs : StageOf(x)' = StageOf(x)
  BY <1>1, SameStage DEF Before
<1> QED BY <1>2 DEF Stages, Before

LEMMA ContractCalm ==
    ASSUME Before, Before', [Next]_vars
    PROVE  [Contract!Next]_(Contract!vars)
<1> USE DEF redisVars, memVars, ghosts
<1>0. /\ Failed = FALSE /\ Failed' = FALSE /\ mishaps' = 0 /\ TypeOK /\ Awake
  BY DEF Before, TInv, Calm
<1>1. ASSUME NEW j \in Jobs, Produce(j)
      PROVE  Contract!Next
  BY <1>0, <1>1, ContractProduce DEF Contract!Next, Contract!Step
<1>2. ASSUME NEW w \in Workers, LoopStep(w)
      PROVE  [Contract!Next]_(Contract!vars)
  <2>1. CASE Pop(w) \/ CreateTask(w)
    BY <2>1, ContractHandOver DEF Contract!vars
  <2>2. CASE DiscardUnreadable(w)
    BY <1>0, <2>2, ContractDiscard DEF Contract!Next, Contract!Step
  <2>3. CASE Wake(w) \/ Exit(w) \/ Restart(w)
    <3>1. UNCHANGED <<queue, dlq, hand, waiting, slot, produced, runs, fate>>
      BY <2>3 DEF Wake, Exit, Restart
    <3> QED BY <3>1, ContractStill DEF Contract!vars
  <2> QED BY <1>2, <2>1, <2>2, <2>3 DEF LoopStep
<1>3. ASSUME NEW w \in Workers, NEW i \in Slots, TaskStep(w, i)
      PROVE  [Contract!Next]_(Contract!vars)
  <2>1. CASE Start(w, i)
    BY <1>0, <2>1, ContractStart DEF Contract!Next, Contract!Step
  <2>2. CASE DiscardUnhandled(w, i)
    BY <1>0, <2>2, ContractDiscard DEF Contract!Next, Contract!Step
  <2>3. CASE Finish(w, i)
    BY <1>0, <2>3, ContractFinish DEF Contract!Next, Contract!Step
  <2>4. CASE Fail(w, i)
    BY <2>4, ContractFail DEF Contract!vars
  <2>5. CASE Backoff(w, i)
    BY <1>0, <2>5, ContractBackoff DEF Contract!Next, Contract!Step
  <2>6. CASE Requeue(w, i)
    BY <1>0, <2>6, ContractRequeue DEF Contract!Next, Contract!Step
  <2>7. CASE Bury(w, i)
    BY <1>0, <2>7, ContractBury DEF Contract!Next, Contract!Step
  <2>8. CASE Trim(w, i)
    BY <1>0, <2>8, ContractTrim DEF Contract!Next
  <2> QED BY <1>3, <2>1, <2>2, <2>3, <2>4, <2>5, <2>6, <2>7, <2>8 DEF TaskStep
<1>4. ASSUME NEW w \in Workers, Adversity(w)
      PROVE  [Contract!Next]_(Contract!vars)
  <2>1. ~ Mishap
    BY <1>0, MishapType
  <2>2. ~ StopSleeping(w)
    BY <1>0 DEF StopSleeping, Awake
  <2>3. StopListening(w)
    BY <1>4, <2>1, <2>2
       DEF Adversity, HsetError, PopError, Crash, StopDroppingJob, RequeueTwice, BuryTwice, TaskRedisError
  <2>4. UNCHANGED <<queue, dlq, hand, waiting, slot, produced, runs, fate>>
    BY <2>3 DEF StopListening
  <2> QED BY <2>4, ContractStill DEF Contract!vars
<1>5. CASE UNCHANGED vars
  BY <1>5, ContractStill DEF vars, Contract!vars
<1> QED BY <1>1, <1>2, <1>3, <1>4, <1>5 DEF Next

LEMMA ContractStep ==
    ASSUME TInv, CInv, TInv', CInv', [Next]_vars
    PROVE  [Contract!Next]_(Contract!vars)
<1>0. mishaps \in Nat /\ mishaps' \in Nat /\ mishaps' >= mishaps
  BY MishapsGrow DEF TInv
<1>1. CASE mishaps' = 0
  <2>1. mishaps = 0
    BY <1>0, <1>1
  <2>2. Before
    BY <2>1, BeforeIs DEF CInv
  <2>3. Before'
    <3>1. (TInv /\ CInv /\ mishaps = 0 => Before)'
      BY BeforeIs, PTL DEF CInv
    <3> QED BY <1>1, <3>1
  <2> QED BY <2>2, <2>3, ContractCalm
<1>2. CASE mishaps = 0 /\ mishaps' > 0
  <2>1. Failed = FALSE /\ Failed' = TRUE
    BY <1>2 DEF Failed
  <2>2. Stages' = [j \in Jobs |-> IF j \in Jobs THEN "lost" ELSE Stages[j]]
    BY <1>2 DEF Stages, StageOf
  <2>3. RunsSeen' = [j \in Jobs |-> IF j \in Jobs THEN 0 ELSE RunsSeen[j]]
    BY <1>2 DEF RunsSeen
  <2>4. Contract!Lose(Jobs)
    BY <2>1, <2>2, <2>3 DEF Contract!Lose
  <2> QED BY <2>1, <2>4 DEF Contract!Next
<1>3. CASE mishaps > 0
  <2>1. mishaps' > 0
    BY <1>0, <1>3
  <2>2. Stages' = Stages /\ RunsSeen' = RunsSeen /\ Failed' = Failed
    BY <1>3, <2>1 DEF Stages, StageOf, RunsSeen, Failed
  <2> QED BY <2>2 DEF Contract!vars
<1> QED BY <1>0, <1>1, <1>2, <1>3

LEMMA ContractInit == Init => Contract!Init
<1> SUFFICES ASSUME Init PROVE Contract!Init
  OBVIOUS
<1>1. mishaps = 0 /\ \A j \in Jobs : j \notin produced /\ runs[j] = 0
  BY DEF Init
<1>2. Stages = [j \in Jobs |-> "absent"] /\ RunsSeen = [j \in Jobs |-> 0] /\ Failed = FALSE
  BY <1>1 DEF Stages, StageOf, RunsSeen, Failed
<1> QED BY <1>2 DEF Contract!Init

\* The runtime of worker.py and pdf-worker/main.py implements the contract for any number
\* of jobs, lists, processes and places of a semaphore: lists, priorities, SIGINTs and
\* LTRIM are invisible, and only a mishap lets a job be lost or run twice at once.
THEOREM ContractImplemented == Spec => ImplementsContract
<1>1. Init => Contract!Init
  BY ContractInit
<1>2. TInv /\ CInv /\ TInv' /\ CInv' /\ [Next]_vars => [Contract!Next]_(Contract!vars)
  BY ContractStep
<1> QED BY <1>1, <1>2, CalmInvariant, PTL DEF Spec, ImplementsContract, Contract!Spec

=============================================================================
