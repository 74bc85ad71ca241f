----------------------------- MODULE Generation -----------------------------
(***************************************************************************)
(* What the pipeline promises of one minute to its user, its editors and   *)
(* the windows that watch it, without worker, requests or storage: the     *)
(* first output that is committed is the content of the minute for good, a *)
(* minute that has content is not generated again, and what is announced   *)
(* is true.  MinutePipeline implements this.                               *)
(***************************************************************************)
EXTENDS MinuteStatus

CONSTANTS
    Txs,       \* transactions: the generation and its repetitions
    NoOutput   \* of no transaction

VARIABLES
    status,    \* of the record, "none" before it exists
    tx,        \* status of each transaction
    owner,     \* the output version v0 was built from
    told,      \* what has been announced of each transaction
    faulty     \* the infrastructure has failed

vars == <<status, tx, owner, told, faulty>>

Init ==
    /\ status = "none"
    /\ tx = [t \in Txs |-> "none"]
    /\ owner = NoOutput
    /\ told = [t \in Txs |-> {}]
    /\ faulty = FALSE

\* A first transaction, or one that repeats those that failed; what it supersedes in
\* processing has failed by that.
Begin(t) ==
    /\ status \in {"none", "in-progress"} \cup Failures
    /\ tx[t] = "none"
    /\ status' = "in-progress"
    /\ \E S \in SUBSET {u \in Txs : tx[u] = "processing"} :
          tx' = [u \in Txs |-> IF u = t THEN "processing" ELSE IF u \in S THEN "failed" ELSE tx[u]]
    /\ UNCHANGED <<owner, told>>

\* Also of a transaction that was superseded, and whatever the record has become; but after
\* an announced failure only through a fault.
Complete(t) ==
    /\ tx[t] # "none"
    /\ told[t] # {} => faulty'
    /\ owner = NoOutput
    /\ owner' # NoOutput /\ owner'.tx = t
    /\ tx' = [tx EXCEPT ![t] = "completed"]
    /\ status' = "ready-for-edit"
    /\ UNCHANGED told

\* Only a fault takes a completed transaction back.
Fail(t) ==
    /\ tx[t] # "none"
    /\ tx[t] = "completed" => faulty'
    /\ tx' = [tx EXCEPT ![t] = "failed"]
    /\ status' \in Failures
    /\ UNCHANGED <<owner, told>>

\* The user's transitions.
Move ==
    /\ status \in Statuses
    /\ status' \in VALID_TRANSITIONS[status]
    /\ UNCHANGED <<tx, owner, told>>

Announce(t, end) ==
    /\ end = "completed" => owner # NoOutput /\ owner.tx = t
    /\ ~ faulty' => tx[t] = end
    /\ told' = [told EXCEPT ![t] = @ \cup {end}]
    /\ UNCHANGED <<status, tx, owner>>

Next ==
    /\ \/ \E t \in Txs : Begin(t) \/ Complete(t) \/ Fail(t)
       \/ Move
       \/ \E t \in Txs, end \in {"completed", "failed"} : Announce(t, end)
       \/ UNCHANGED <<status, tx, owner, told>>
    /\ faulty => faulty'

Spec == Init /\ [][Next]_vars
=============================================================================
