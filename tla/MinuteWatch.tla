----------------------------- MODULE MinuteWatch -----------------------------
(***************************************************************************)
(* How a browser window learns that the generation of a minute has ended:  *)
(* the pending transactions (store/minuteNotificationStore), one event     *)
(* stream for each (hooks/useMinuteSSE over utils/authorizedEventStream,   *)
(* the endpoint of routers/v1/minutes.py), the status it asks for when a   *)
(* stream breaks, and the list of minutes it fetches again                 *)
(* (pages/minutes/Minute.jsx).                                             *)
(***************************************************************************)
EXTENDS MinuteStatus, Integers, FiniteSets

CONSTANTS
    Txs,         \* transactions this window starts
    Filters,     \* what the list can be asked for: filters, page and view,
    NoFilter,    \* what it starts with,
    FirstPage,   \* and the first page of each
    MaxRetries,  \* MAX_RETRIES_PER_WINDOW
    MaxAnswers,  \* bound on the status requests of a transaction under way
    MaxFetches   \* bound on the fetches of the list, under way or to come, that a user adds to

ASSUME WatchAssumption ==
    /\ NoFilter \in Filters
    /\ FirstPage \in [Filters -> Filters]
    /\ MaxRetries \in Nat
    /\ MaxAnswers \in Nat
    /\ MaxFetches \in Nat \ {0}

VARIABLES
    outcome,   \* server: the status of a transaction
    enabled,   \* logged in, and no maintenance
    pending,   \* transactions the store holds
    source,    \* the streams of the hook
    recon,     \* status requests of reconcileTransaction, and their answers, on their way
    start,     \* the calls of generateMinute and reprocessMinute under way, and for which list
    changing,  \* the list each call of transitionMinute under way was made from
    mounted,   \* the list is on screen
    filter,    \* what it should show
    list,      \* what it shows
    fetches,   \* fetches of it under way
    told,      \* history: the notices shown
    times,     \* history: how many, up to two
    been,      \* history: the ends each transaction has come to
    presumed,  \* history: transactions a stream called failed that had not
    crossed,   \* history: transactions told while a status was on its way
    strayed,   \* history: the fetch asked for last was for the list of an earlier click
    overtaken  \* history: the list shows an error, or an answer older than one it showed

watch == <<enabled, pending, source, recon>>
page == <<mounted, filter, list, fetches, strayed, overtaken>>
calls == <<start, changing>>
notices == <<told, times, been, presumed, crossed>>
vars == <<outcome, watch, calls, page, notices>>

Ends == {"completed", "failed"}

\* checked: the endpoint has read the status and not yet subscribed.  waiting: the retry
\* timer runs.  dead: closed for good, and still in the hook's map.  renewed: the session
\* of its token is gone since the token was renewed.
None == [at |-> "none", renewed |-> FALSE, retries |-> 0]
New == [None EXCEPT !.at = "connecting"]
Live == {"connecting", "checked", "open"}
\* An answer on its way, or still to be given.  old: asked for a stream closed by a logout.
Answer == [says : Ends \cup {"asked"}, old : BOOLEAN]
Asked == [says |-> "asked", old |-> FALSE]

Source == [at : Live \cup {"none", "waiting", "dead"}, renewed : BOOLEAN,
           retries : 0..MaxRetries + 1]

\* The list it was clicked in will be asked for as it was then; away: that is no longer
\* mounted, or it was clicked elsewhere.
Call == [what : {"none", "away", "reprocess", "generate"}, filter : Filters]
NoCall == [what |-> "none", filter |-> NoFilter]
Away == [what |-> "away", filter |-> NoFilter]

\* seen: the transactions whose end the rows show.  newest: asked for last.
List == [filter : Filters, seen : SUBSET Txs]
EmptyList == [filter |-> NoFilter, seen |-> {}]
Fetch == [rows : List, at : {"sent", "served"}, newest : BOOLEAN]

Init ==
    /\ outcome = [tx \in Txs |-> "none"]
    /\ enabled = TRUE
    /\ pending = {}
    /\ source = [tx \in Txs |-> None]
    /\ recon = [tx \in Txs |-> {}]
    /\ start = [tx \in Txs |-> NoCall]
    /\ changing = {}
    /\ mounted = FALSE
    /\ filter = NoFilter
    /\ list = EmptyList
    /\ fetches = {}
    /\ told = [tx \in Txs |-> {}]
    /\ times = [tx \in Txs |-> 0]
    /\ been = [tx \in Txs |-> {}]
    /\ presumed = {}
    /\ crossed = {}
    /\ strayed = FALSE
    /\ overtaken = FALSE

-----------------------------------------------------------------------------
(* The list                                                                *)

Older(fs) == {[f EXCEPT !.newest = FALSE] : f \in fs}

Sent(g, newest) == [rows |-> [filter |-> g, seen |-> {}], at |-> "sent", newest |-> newest]

\* fetchMinutes for g, while the page is for "shown".
Ask(g, shown) ==
    /\ fetches' = Older(fetches) \cup {Sent(g, TRUE)}
    /\ strayed' = (g # shown)

MayFetch == Cardinality(fetches) + Cardinality(changing) < MaxFetches

\* One fetch, and after it the one for g.
AskBoth(first, g) ==
    /\ fetches' = Older(fetches) \cup {Sent(first, FALSE), Sent(g, TRUE)}
    /\ strayed' = FALSE

\* window.__minutesRefresh, which is there while the list is.
Refresh ==
    IF mounted THEN Ask(filter, filter) ELSE UNCHANGED <<fetches, strayed>>

\* A new fetchMinutes runs both effects, the one for EMPTY_FILTERS first.
Mount ==
    /\ enabled
    /\ ~ mounted
    /\ mounted' = TRUE
    /\ AskBoth(NoFilter, filter)
    /\ UNCHANGED <<outcome, watch, calls, filter, list, overtaken, notices>>

\* The page forgets what it showed, and requestScope aborts what is under way: the fetches.
\* A call goes on, and has no list to fetch.
Close ==
    /\ mounted' = FALSE
    /\ filter' = NoFilter
    /\ list' = EmptyList
    /\ fetches' = {}
    /\ start' = [tx \in Txs |-> IF start[tx] = NoCall THEN NoCall ELSE Away]
    /\ changing' = {}
    /\ strayed' = FALSE
    /\ overtaken' = FALSE

Unmount ==
    /\ mounted
    /\ Close
    /\ UNCHANGED <<outcome, watch, notices>>

\* handleFilterChange and handleClearFilters, which go to the first page, or handlePageChange.
ChangeFilter(g) ==
    /\ mounted
    /\ g # filter
    /\ FirstPage[g] \in {g, FirstPage[filter]}
    /\ MayFetch
    /\ filter' = g
    /\ Ask(g, g)
    /\ UNCHANGED <<outcome, watch, calls, mounted, list, overtaken, notices>>

\* Another view, from its first page: other limits, and so another fetchMinutes.
handleViewModeChange(g) ==
    /\ mounted
    /\ g # filter
    /\ FirstPage[g] = g
    /\ MayFetch
    /\ filter' = g
    /\ AskBoth(NoFilter, g)
    /\ UNCHANGED <<outcome, watch, calls, mounted, list, overtaken, notices>>

ServeList(f) ==
    /\ f.at = "sent"
    /\ fetches' = (fetches \ {f}) \cup
          {[f EXCEPT !.at = "served", !.rows.seen = {tx \in Txs : outcome[tx] \in Ends}]}
    /\ UNCHANGED <<outcome, watch, calls, mounted, filter, list, strayed, overtaken, notices>>

\* The fetches of one mount do not cancel each other: the last answer stays, whichever
\* was asked for last.
Show(f, rows) ==
    /\ fetches' = fetches \ {f}
    /\ list' = rows
    /\ UNCHANGED <<outcome, watch, calls, mounted, filter, strayed, notices>>

ListArrives(f) ==
    /\ f.at = "served"
    /\ Show(f, f.rows)
    /\ overtaken' = (~ f.newest /\ (overtaken \/ \A g \in fetches : ~ g.newest))

\* An error empties the list, and says so.
ListFails(f) ==
    /\ Show(f, EmptyList)
    /\ overtaken' = TRUE

-----------------------------------------------------------------------------
(* The notices                                                             *)

\* Mutant: the list is not fetched again.
ToldOnly(tx, end, stream) ==
    /\ pending' = pending \ {tx}
    /\ source' = [source EXCEPT ![tx] = stream]
    /\ told' = [told EXCEPT ![tx] = @ \cup {end}]
    /\ times' = [times EXCEPT ![tx] = IF @ < 2 THEN @ + 1 ELSE @]
    /\ UNCHANGED <<fetches, strayed>>

\* handleCompleted and handleFailed, which do not ask whether they have been called before.
Tell(tx, end, stream) ==
    /\ pending' = pending \ {tx}
    /\ source' = [source EXCEPT ![tx] = stream]
    /\ told' = [told EXCEPT ![tx] = @ \cup {end}]
    /\ times' = [times EXCEPT ![tx] = IF @ < 2 THEN @ + 1 ELSE @]
    /\ Refresh

\* Told, while the answers in "rest" are still to come and "stream" remains.
Told(tx, end, rest, stream) ==
    /\ Tell(tx, end, stream)
    /\ recon' = [recon EXCEPT ![tx] = rest]
    /\ crossed' = IF rest # {} \/ stream # None THEN crossed \cup {tx} ELSE crossed
    /\ UNCHANGED <<outcome, enabled, calls, mounted, filter, list, overtaken>>

-----------------------------------------------------------------------------
(* The transactions                                                        *)

Clicked(tx, call) ==
    /\ enabled
    /\ outcome[tx] = "none"
    /\ start[tx] = NoCall
    /\ start' = [start EXCEPT ![tx] = call]
    /\ UNCHANGED <<outcome, watch, changing, page, notices>>

\* A minute of the list is tried again.
handleReprocess(tx) == mounted /\ Clicked(tx, [what |-> "reprocess", filter |-> filter])

\* NewMinute, in the header of the list or of the dashboard.
handleNewMinute(tx) ==
    Clicked(tx, IF mounted THEN [what |-> "generate", filter |-> filter] ELSE Away)

\* The server accepts the call: the transaction is under way, and the window does not know.
Begin(tx) ==
    /\ start[tx] # NoCall
    /\ outcome[tx] = "none"
    /\ outcome' = [outcome EXCEPT ![tx] = "processing"]
    /\ UNCHANGED <<watch, calls, page, notices>>

\* Refused, or answered by an error: an accepted one is watched by nobody.
CallFails(tx) ==
    /\ start[tx] # NoCall
    /\ start' = [start EXCEPT ![tx] = NoCall]
    /\ UNCHANGED <<outcome, watch, changing, page, notices>>

\* The closure of the click fetches what the list showed then; onNewMinute goes to the first
\* page, whose effect fetches again when that is another.
RefreshAsClicked(call) ==
    \/ /\ call.what = "away"
       /\ UNCHANGED <<filter, fetches, strayed>>
    \/ /\ call.what = "reprocess"
       /\ Ask(call.filter, filter)
       /\ UNCHANGED filter
    \/ /\ call.what = "generate"
       /\ filter' = FirstPage[filter]
       /\ IF filter' # filter
          THEN AskBoth(FirstPage[call.filter], filter')
          ELSE Ask(FirstPage[call.filter], filter)

\* addPending: the hook opens a stream, unless the session has ended.
Started(tx) ==
    /\ start[tx] # NoCall
    /\ outcome[tx] # "none"
    /\ start' = [start EXCEPT ![tx] = NoCall]
    /\ pending' = pending \cup {tx}
    /\ source' = [source EXCEPT ![tx] = IF enabled THEN New ELSE @]
    /\ RefreshAsClicked(start[tx])
    /\ UNCHANGED <<outcome, enabled, recon, changing, mounted, list, overtaken, notices>>

\* A minute of the list is cancelled.
handleStatusChange ==
    /\ mounted
    /\ MayFetch
    /\ changing' = changing \cup {filter}
    /\ UNCHANGED <<outcome, watch, start, page, notices>>

\* Answered: the list is fetched as it was when the dialog opened.
StatusChanged(g) ==
    /\ changing' = changing \ {g}
    /\ Ask(g, filter)
    /\ UNCHANGED <<outcome, watch, start, mounted, filter, list, overtaken, notices>>

StatusChangeFails(g) ==
    /\ changing' = changing \ {g}
    /\ UNCHANGED <<outcome, watch, start, page, notices>>

Becomes(tx, end) ==
    /\ <<outcome[tx], end>> \in OutcomeMoves
    /\ outcome' = [outcome EXCEPT ![tx] = end]
    /\ been' = [been EXCEPT ![tx] = @ \cup {end}]
    /\ UNCHANGED <<watch, calls, page, told, times, presumed, crossed>>

Settle(tx) ==
    /\ outcome[tx] = "processing"
    /\ \E end \in Ends : Becomes(tx, end)

\* A repeated commit, or an error after the commit, turns an end over (MinutePipeline).
Revise(tx) ==
    /\ outcome[tx] \in Ends
    /\ \E end \in Ends : Becomes(tx, end)

\* A message on the channel: whoever has not subscribed misses it.  "completed" is true or
\* was; "failed" is also said of a job whose request or report nobody answered.
Publish(tx) ==
    /\ source[tx].at = "open"
    /\ \E end \in {"failed"} \cup been[tx] :
          /\ Told(tx, end, recon[tx], None)
          /\ presumed' = IF end = "failed" /\ outcome[tx] # "failed"
                         THEN presumed \cup {tx} ELSE presumed
    /\ UNCHANGED been

-----------------------------------------------------------------------------
(* The streams                                                             *)

\* The endpoint: a dead session is refused and the stream closes for good, with no
\* listener for auth_error; an ended transaction is answered at once.
Connect(tx) ==
    /\ source[tx].at = "connecting"
    /\ \/ /\ source[tx].renewed
          /\ source' = [source EXCEPT ![tx].at = "dead"]
          /\ UNCHANGED <<outcome, enabled, pending, recon, calls, page, notices>>
       \/ /\ ~ source[tx].renewed
          /\ outcome[tx] \in Ends
          /\ Told(tx, outcome[tx], recon[tx], None)
          /\ UNCHANGED <<been, presumed>>
       \/ /\ ~ source[tx].renewed
          /\ outcome[tx] = "processing"
          /\ source' = [source EXCEPT ![tx].at = "checked"]
          /\ UNCHANGED <<outcome, enabled, pending, recon, calls, page, notices>>

Subscribe(tx) ==
    /\ source[tx].at = "checked"
    /\ source' = [source EXCEPT ![tx].at = "open"]
    /\ UNCHANGED <<outcome, enabled, pending, recon, calls, page, notices>>

\* SSE_MAX_WAIT_SEC passes: "failed", whatever the transaction does.
Timeout(tx) ==
    /\ source[tx].at = "open"
    /\ presumed' = presumed \cup {tx}
    /\ UNCHANGED been
    /\ Told(tx, "failed", recon[tx], None)

\* A keepalive forgets the retries.
Keepalive(tx) ==
    /\ source[tx].at = "open"
    /\ source' = [source EXCEPT ![tx].retries = 0]
    /\ UNCHANGED <<outcome, enabled, pending, recon, calls, page, notices>>

\* A request beyond the bound counts as one that fails: the hook ignores it.
AskStatus(tx) ==
    recon' = IF Cardinality(recon[tx]) < MaxAnswers
             THEN [recon EXCEPT ![tx] = @ \cup {Asked}] ELSE recon

\* Mutant: the stream is given up at the first break.
BreakForGood(tx) ==
    /\ source[tx].at \in Live
    /\ source' = [source EXCEPT ![tx].at = "dead"]
    /\ UNCHANGED <<outcome, enabled, pending, recon, calls, page, notices>>

\* Mutant: no limit to the retries.
BreakOnceMore(tx) ==
    /\ source[tx].at \in Live
    /\ source' = [source EXCEPT ![tx].at = "waiting", ![tx].retries = @ + 1]
    /\ AskStatus(tx)
    /\ UNCHANGED <<outcome, enabled, pending, calls, page, notices>>

\* scheduleReconnect: the status is asked for when the retry is scheduled, not when the
\* stream is open again.
Break(tx) ==
    /\ source[tx].at \in Live
    /\ IF source[tx].retries < MaxRetries
       THEN /\ source' = [source EXCEPT ![tx].at = "waiting", ![tx].retries = @ + 1]
            /\ AskStatus(tx)
       ELSE /\ source' = [source EXCEPT ![tx].at = "dead", ![tx].retries = @ + 1]
            /\ UNCHANGED recon
    /\ UNCHANGED <<outcome, enabled, pending, calls, page, notices>>

Reconnect(tx) ==
    /\ source[tx].at = "waiting"
    /\ source' = [source EXCEPT ![tx].at = "connecting"]
    /\ UNCHANGED <<outcome, enabled, pending, recon, calls, page, notices>>

\* Mutant: any answer is a failure unless it says completed.
ReadBlindly(tx) ==
    /\ \E a \in recon[tx] :
          /\ a.says = "asked"
          /\ LET end == IF outcome[tx] = "completed" THEN "completed" ELSE "failed"
             IN  recon' = [recon EXCEPT ![tx] = (@ \ {a}) \cup {[a EXCEPT !.says = end]}]
    /\ UNCHANGED <<outcome, enabled, pending, source, calls, page, notices>>

\* getMinuteStatus: the end, or nothing to act on (also when the call fails).
StatusRead(tx) ==
    /\ \E a \in recon[tx] :
          /\ a.says = "asked"
          /\ \E end \in {{}, {outcome[tx]} \cap Ends} :
                recon' = [recon EXCEPT ![tx] = (@ \ {a}) \cup {[a EXCEPT !.says = e] : e \in end}]
    /\ UNCHANGED <<outcome, enabled, pending, source, calls, page, notices>>

\* The answer is acted upon whether or not its stream still exists.  One for an old stream
\* takes the entry of the new one out of the map, and leaves the new one open.
Reconciled(tx) ==
    /\ \E a \in recon[tx] :
          /\ a.says \in Ends
          /\ Told(tx, a.says, recon[tx] \ {a}, IF a.old THEN source[tx] ELSE None)
    /\ UNCHANGED <<been, presumed>>

-----------------------------------------------------------------------------
(* The session                                                             *)

\* The token is renewed: streams keep the old one, whose session is gone.
Renew ==
    /\ enabled
    /\ source' = [tx \in Txs |-> IF source[tx].at \in {"none", "dead"} THEN source[tx]
                                 ELSE [source[tx] EXCEPT !.renewed = TRUE]]
    /\ UNCHANGED <<outcome, enabled, pending, recon, calls, page, notices>>

\* Logout or maintenance closes every stream in the map; the pending transactions stay.
Disable ==
    /\ enabled
    /\ enabled' = FALSE
    /\ source' = [tx \in Txs |-> IF tx \in pending THEN None ELSE source[tx]]
    /\ recon' = [tx \in Txs |-> {[a EXCEPT !.old = TRUE] : a \in recon[tx]}]
    /\ Close
    /\ UNCHANGED <<outcome, pending, notices>>

Enable ==
    /\ ~ enabled
    /\ enabled' = TRUE
    /\ source' = [tx \in Txs |-> IF tx \in pending THEN New ELSE source[tx]]
    /\ UNCHANGED <<outcome, pending, recon, calls, page, notices>>

-----------------------------------------------------------------------------
Stream(tx) == Connect(tx) \/ Subscribe(tx) \/ Reconnect(tx)

Next ==
    \/ Mount \/ Unmount \/ Renew \/ Disable \/ Enable
    \/ \E g \in Filters : ChangeFilter(g) \/ handleViewModeChange(g)
    \/ handleStatusChange \/ \E g \in changing : StatusChanged(g) \/ StatusChangeFails(g)
    \/ \E f \in fetches : ServeList(f) \/ ListArrives(f) \/ ListFails(f)
    \/ \E tx \in Txs :
          \/ handleReprocess(tx) \/ handleNewMinute(tx) \/ Begin(tx) \/ CallFails(tx) \/ Started(tx)
          \/ Settle(tx) \/ Revise(tx) \/ Publish(tx) \/ Stream(tx) \/ Timeout(tx)
          \/ Keepalive(tx) \/ Break(tx) \/ StatusRead(tx) \/ Reconciled(tx)

Spec == Init /\ [][Next]_vars

\* A generation ends, a stream goes on connecting and an open one times out.  Nobody has to
\* publish.
Fairness ==
    \A tx \in Txs : WF_vars(Settle(tx)) /\ WF_vars(Stream(tx)) /\ WF_vars(Timeout(tx))

FairSpec == Spec /\ Fairness

-----------------------------------------------------------------------------
TypeOK ==
    /\ outcome \in [Txs -> Ends \cup {"none", "processing"}]
    /\ enabled \in BOOLEAN
    /\ pending \subseteq Txs
    /\ source \in [Txs -> Source]
    /\ recon \in [Txs -> SUBSET Answer]
    /\ start \in [Txs -> Call]
    /\ changing \subseteq Filters
    /\ mounted \in BOOLEAN
    /\ filter \in Filters
    /\ list \in List
    /\ fetches \subseteq Fetch
    /\ told \in [Txs -> SUBSET Ends]
    /\ times \in [Txs -> 0..2]
    /\ been \in [Txs -> SUBSET Ends]
    /\ presumed \subseteq Txs
    /\ crossed \subseteq Txs
    /\ strayed \in BOOLEAN
    /\ overtaken \in BOOLEAN

\* A notice says what the transaction has come to, then or before, except the failure a
\* stream reports when it or the worker has waited too long, and comes once, unless the
\* answer of a reconciliation was on its way, or a stream opened since, when another was
\* shown.
OneTrueNotice ==
    \A tx \in Txs :
        /\ told[tx] \subseteq been[tx] \cup (IF tx \in presumed THEN {"failed"} ELSE {})
        /\ times[tx] > 1 => tx \in crossed

\* A pending transaction leaves the store (useMinuteSSE: "llama removePending() al recibir
\* evento terminal"), unless its stream holds a token that was renewed, used up its
\* retries, or the session ended.
EveryTxTold ==
    \A tx \in Txs :
        tx \in pending ~>
            \/ tx \notin pending
            \/ source[tx].renewed
            \/ source[tx].retries > MaxRetries
            \/ ~ enabled

\* A list at rest shows the end of every minute the user was told of, unless it shows an
\* error or a later answer was overtaken by an earlier one; and it shows what its filters
\* and page say, unless the last fetch was that of a handler whose call was made before
\* they changed.
ListIsCurrent ==
    mounted /\ fetches = {} /\ ~ overtaken =>
        /\ strayed \/ list.filter = filter
        /\ \A tx \in Txs : told[tx] # {} /\ tx \notin presumed => tx \in list.seen
=============================================================================
