-------------------------- MODULE MinuteWatchProofs --------------------------
(***************************************************************************)
(* For every number of transactions, filters and retries: a notice tells   *)
(* what a transaction has come to, once, and the list follows.             *)
(***************************************************************************)
EXTENDS MinuteWatch, TLAPS

\* A stream that is not dead has a retry left, or has just used its last one.
RetriesLeft == \A tx \in Txs : source[tx].at \in Live \cup {"waiting"} => source[tx].retries <= MaxRetries

\* Nothing is known of a transaction before its call is answered.
Unstarted ==
    \A tx \in Txs : outcome[tx] = "none" \/ start[tx] # NoCall =>
        source[tx] = None /\ recon[tx] = {} /\ told[tx] = {} /\ tx \notin pending

\* What the server answered is so, or was so; a transaction that has ended stays ended.
AnswersTrue ==
    \A tx \in Txs :
        /\ outcome[tx] \in Ends => outcome[tx] \in been[tx]
        /\ been[tx] # {} => outcome[tx] \in Ends
        /\ \A a \in recon[tx] : a.says \in Ends => a.says \in been[tx]

\* A transaction told of is not pending, and no stream or answer is left to tell of it again.
ToldOnce ==
    \A tx \in Txs :
        /\ told[tx] = {} <=> times[tx] = 0
        /\ told[tx] # {} => tx \notin pending
        /\ told[tx] # {} /\ tx \notin crossed => source[tx] = None /\ recon[tx] = {}

\* The transactions whose end the user was told of by an event or an answer.
ToldTxs == {tx \in Txs : told[tx] # {} /\ tx \notin presumed}
ShowsEnds(rows) == (strayed \/ rows.filter = filter) /\ ToldTxs \subseteq rows.seen

\* The fetch asked for last will show what the user was told of; once it is through, the
\* list does.
ListLine ==
    mounted =>
        /\ \A f \in fetches : f.newest =>
              (strayed \/ f.rows.filter = filter) /\ (f.at = "served" => ShowsEnds(f.rows))
        /\ ~ overtaken /\ (\A f \in fetches : ~ f.newest) => ShowsEnds(list)

WInv == TypeOK /\ RetriesLeft /\ Unstarted /\ AnswersTrue /\ OneTrueNotice /\ ToldOnce /\ ListLine

LEMMA WatchInit == Init => WInv
<1> SUFFICES ASSUME Init PROVE WInv
  OBVIOUS
<1> USE WatchAssumption DEF Init, None
<1>1. source \in [Txs -> Source]
  BY DEF Source
<1>2. list \in List
  BY DEF List, EmptyList
<1>3. /\ outcome \in [Txs -> Ends \cup {"none", "processing"}] /\ recon \in [Txs -> SUBSET Answer]
      /\ told \in [Txs -> SUBSET Ends] /\ times \in [Txs -> 0..2]
      /\ pending \subseteq Txs /\ fetches \subseteq Fetch /\ filter \in Filters
      /\ been \in [Txs -> SUBSET Ends] /\ presumed \subseteq Txs /\ crossed \subseteq Txs
  BY DEF Ends
<1>6. enabled \in BOOLEAN /\ mounted \in BOOLEAN /\ overtaken \in BOOLEAN /\ strayed \in BOOLEAN
  OBVIOUS
<1>8. start \in [Txs -> Call] /\ changing \subseteq Filters
  BY DEF NoCall, Call
<1>7. TypeOK
  BY <1>1, <1>2, <1>3, <1>6, <1>8, Zenon DEF TypeOK
<1>4. RetriesLeft /\ Unstarted /\ AnswersTrue /\ OneTrueNotice /\ ToldOnce
  BY DEF RetriesLeft, Unstarted, AnswersTrue, OneTrueNotice, ToldOnce, Live, Ends
<1>5. ListLine
  BY DEF ListLine
<1> QED BY <1>4, <1>5, <1>7 DEF WInv

-----------------------------------------------------------------------------
(* The list                                                                *)

LEMMA SentType ==
    ASSUME NEW g \in Filters, NEW newest \in BOOLEAN
    PROVE  /\ Sent(g, newest) \in Fetch /\ Sent(g, newest).newest = newest
           /\ Sent(g, newest).at = "sent" /\ Sent(g, newest).rows.filter = g
  BY DEF Sent, Fetch, List

\* One fetch more, and maybe one that was asked for before it.
Asked2(g, e) ==
    /\ fetches' \subseteq Older(fetches) \cup {Sent(e, FALSE), Sent(g, TRUE)}
    /\ Sent(g, TRUE) \in fetches'

LEMMA AskType ==
    ASSUME TypeOK, NEW g \in Filters, NEW shown, NEW first \in Filters,
           Ask(g, shown) \/ AskBoth(first, g)
    PROVE  fetches' \subseteq Fetch /\ strayed' \in BOOLEAN /\ Asked2(g, first)
<1>1. Sent(g, TRUE) \in Fetch /\ Sent(first, FALSE) \in Fetch
  BY SentType
<1>2. Older(fetches) \subseteq Fetch
  BY DEF TypeOK, Older, Fetch
<1> QED BY <1>1, <1>2 DEF Ask, AskBoth, Asked2

\* The list is asked for again: what it must show is on its way.
LEMMA AskedLine ==
    ASSUME TypeOK, NEW g \in Filters, NEW first \in Filters, Asked2(g, first),
           strayed' \/ filter' = g
    PROVE  ListLine'
<1>1. \A f \in Older(fetches) : ~ f.newest
  BY DEF Older, TypeOK, Fetch
<1>2. /\ ~ Sent(first, FALSE).newest /\ Sent(g, TRUE).newest
      /\ Sent(g, TRUE).at = "sent" /\ Sent(g, TRUE).rows.filter = g
  BY SentType
<1> QED BY <1>1, <1>2 DEF ListLine, Asked2

\* Nothing more was told, and the page is as it was.
LEMMA PageApart ==
    ASSUME WInv, UNCHANGED page, ToldTxs' \subseteq ToldTxs
    PROVE  ListLine'
  BY DEF WInv, ListLine, ShowsEnds, page

\* The end of what was told is settled.
LEMMA ToldSettled == ASSUME WInv PROVE \A tx \in ToldTxs : outcome[tx] \in Ends
  BY DEF WInv, TypeOK, ToldTxs, OneTrueNotice, AnswersTrue, Ends

LEMMA CloseType ==
    ASSUME TypeOK, Close
    PROVE  /\ ListLine' /\ start' \in [Txs -> Call] /\ changing' \subseteq Filters
           /\ mounted' \in BOOLEAN /\ filter' \in Filters /\ list' \in List
           /\ fetches' \subseteq Fetch /\ strayed' \in BOOLEAN /\ overtaken' \in BOOLEAN
           /\ \A tx \in Txs : start'[tx] # NoCall => start[tx] # NoCall
<1>1. NoCall \in Call /\ Away \in Call /\ EmptyList \in List
  BY WatchAssumption DEF NoCall, Away, Call, EmptyList, List
<1> QED BY <1>1, WatchAssumption DEF Close, ListLine

LEMMA ListStep ==
    ASSUME WInv,
           \/ Mount \/ Unmount
           \/ \E g \in Filters : ChangeFilter(g) \/ handleViewModeChange(g)
           \/ handleStatusChange \/ \E g \in changing : StatusChanged(g) \/ StatusChangeFails(g)
           \/ \E f \in fetches : ServeList(f) \/ ListArrives(f) \/ ListFails(f)
    PROVE  ListLine' /\ TypeOK'
<1>0. TypeOK /\ fetches \subseteq Fetch
  BY DEF WInv, TypeOK
<1>1. CASE Mount
  <2>1. filter \in Filters /\ AskBoth(NoFilter, filter) /\ filter' = filter /\ NoFilter \in Filters
    BY <1>0, <1>1, WatchAssumption DEF Mount, TypeOK
  <2>2. ListLine' /\ fetches' \subseteq Fetch /\ strayed' \in BOOLEAN
    BY <1>0, <2>1, AskType, AskedLine
  <2> QED BY <1>0, <1>1, <2>1, <2>2 DEF Mount, TypeOK, watch, calls, notices
<1>2. CASE Unmount
  <2>1. Close /\ UNCHANGED <<outcome, watch, notices>>
    BY <1>2 DEF Unmount
  <2> QED BY <1>0, <2>1, CloseType DEF TypeOK, watch, notices
<1>3. ASSUME NEW g \in Filters, ChangeFilter(g) \/ handleViewModeChange(g) PROVE ListLine' /\ TypeOK'
  <2>1. (Ask(g, g) \/ AskBoth(NoFilter, g)) /\ filter' = g /\ NoFilter \in Filters
    BY <1>3, WatchAssumption DEF ChangeFilter, handleViewModeChange
  <2>2. ListLine' /\ fetches' \subseteq Fetch /\ strayed' \in BOOLEAN
    BY <1>0, <2>1, AskType, AskedLine
  <2> QED BY <1>0, <1>3, <2>1, <2>2
          DEF ChangeFilter, handleViewModeChange, TypeOK, watch, calls, notices
<1>7. ASSUME NEW g \in changing, StatusChanged(g) PROVE ListLine' /\ TypeOK'
  <2>1. g \in Filters /\ Ask(g, filter) /\ filter' = filter /\ NoFilter \in Filters
    BY <1>0, <1>7, WatchAssumption DEF StatusChanged, TypeOK
  <2>2. strayed' \/ filter' = g
    BY <2>1 DEF Ask
  <2>3. ListLine' /\ fetches' \subseteq Fetch /\ strayed' \in BOOLEAN
    BY <1>0, <2>1, <2>2, AskType, AskedLine
  <2> QED BY <1>0, <1>7, <2>3 DEF StatusChanged, TypeOK, watch, notices
<1>8. CASE handleStatusChange \/ \E g \in changing : StatusChangeFails(g)
  <2>1. UNCHANGED <<outcome, watch, start, page, notices>> /\ changing' \subseteq Filters
    BY <1>0, <1>8 DEF handleStatusChange, StatusChangeFails, TypeOK
  <2>2. ToldTxs' = ToldTxs
    BY <2>1 DEF notices, ToldTxs
  <2> QED BY <1>0, <2>1, <2>2, PageApart DEF TypeOK, watch, page, notices
<1>4. ASSUME NEW f \in fetches, ServeList(f) PROVE ListLine' /\ TypeOK'
  <2> DEFINE seen == {tx \in Txs : outcome[tx] \in Ends}
             g == [f EXCEPT !.at = "served", !.rows.seen = seen]
  <2>1. f \in Fetch /\ f.rows \in List
    BY <1>0 DEF Fetch
  <2>2. /\ g \in Fetch /\ g.newest = f.newest /\ g.at = "served"
        /\ g.rows.filter = f.rows.filter /\ g.rows.seen = seen
    BY <2>1 DEF Fetch, List
  <2>3. fetches' = (fetches \ {f}) \cup {g}
    BY <1>4 DEF ServeList
  <2>4. ToldTxs \subseteq seen
    BY ToldSettled DEF ToldTxs
  <2>5. UNCHANGED <<outcome, watch, calls, mounted, filter, list, strayed, overtaken, notices>>
    BY <1>4 DEF ServeList
  <2> HIDE DEF g
  <2>6. ToldTxs' = ToldTxs
    BY <2>5 DEF notices, ToldTxs
  <2>7. ListLine'
    BY <2>2, <2>3, <2>4, <2>5, <2>6 DEF WInv, ListLine, ShowsEnds
  <2> QED BY <1>0, <2>2, <2>3, <2>5, <2>7 DEF TypeOK, watch, calls, notices
<1>5. ASSUME NEW f \in fetches, ListArrives(f) PROVE ListLine' /\ TypeOK'
  <2>1. /\ f.at = "served" /\ fetches' = fetches \ {f} /\ list' = f.rows
        /\ overtaken' = (~ f.newest /\ (overtaken \/ \A g \in fetches : ~ g.newest))
        /\ UNCHANGED <<outcome, watch, calls, mounted, filter, strayed, notices>>
    BY <1>5 DEF ListArrives, Show
  <2>2. f.rows \in List /\ overtaken' \in BOOLEAN
    BY <1>0, <2>1 DEF Fetch
  <2>3. ToldTxs' = ToldTxs
    BY <2>1 DEF notices, ToldTxs
  <2>4. ListLine'
    BY <2>1, <2>3 DEF WInv, ListLine, ShowsEnds
  <2> QED BY <1>0, <2>1, <2>2, <2>4 DEF TypeOK, watch, calls, notices
<1>6. ASSUME NEW f \in fetches, ListFails(f) PROVE ListLine' /\ TypeOK'
  <2>1. /\ fetches' = fetches \ {f} /\ list' = EmptyList /\ overtaken' = TRUE
        /\ UNCHANGED <<outcome, watch, calls, mounted, filter, strayed, notices>>
    BY <1>6 DEF ListFails, Show
  <2>2. list' \in List
    BY <2>1, WatchAssumption DEF EmptyList, List
  <2>3. ToldTxs' = ToldTxs
    BY <2>1 DEF notices, ToldTxs
  <2>4. ListLine'
    BY <2>1, <2>3 DEF WInv, ListLine, ShowsEnds
  <2> QED BY <1>0, <2>1, <2>2, <2>4 DEF TypeOK, watch, calls, notices
<1> QED BY <1>1, <1>2, <1>3, <1>4, <1>5, <1>6, <1>7, <1>8

-----------------------------------------------------------------------------
(* The notices                                                             *)

Watched == RetriesLeft /\ Unstarted /\ AnswersTrue /\ OneTrueNotice /\ ToldOnce

LEMMA ListStepWatched ==
    ASSUME WInv, UNCHANGED <<outcome, watch, notices>>,
           \A tx \in Txs : start'[tx] # NoCall => start[tx] # NoCall
    PROVE  Watched'
  BY DEF WInv, Watched, RetriesLeft, Unstarted, AnswersTrue, OneTrueNotice, ToldOnce, watch,
     notices

LEMMA RefreshLine ==
    ASSUME TypeOK, Refresh, UNCHANGED <<mounted, filter, list, overtaken>>
    PROVE  fetches' \subseteq Fetch /\ strayed' \in BOOLEAN /\ ListLine'
<1>1. filter \in Filters /\ NoFilter \in Filters
  BY WatchAssumption DEF TypeOK
<1>2. CASE mounted
  BY <1>1, <1>2, AskType, AskedLine DEF Refresh
<1>3. CASE ~ mounted
  BY <1>3 DEF Refresh, TypeOK, ListLine
<1> QED BY <1>2, <1>3

\* What telling a transaction's end leaves: nobody to tell it again, or a note that there is.
LEMMA ToldStep ==
    ASSUME WInv, NEW tx \in Txs, NEW end \in Ends, NEW rest, NEW stream,
           Told(tx, end, rest, stream), rest \subseteq recon[tx], stream \in {None, source[tx]},
           outcome[tx] # "none", source[tx] # None \/ recon[tx] # {},
           been' = been, presumed \subseteq presumed', presumed' \subseteq Txs,
           end \in been[tx] \/ (end = "failed" /\ tx \in presumed')
    PROVE  WInv'
<1>0. TypeOK /\ Watched
  BY DEF WInv, Watched
<1>1. /\ pending' = pending \ {tx}
      /\ source' = [source EXCEPT ![tx] = stream]
      /\ told' = [told EXCEPT ![tx] = @ \cup {end}]
      /\ times' = [times EXCEPT ![tx] = IF @ < 2 THEN @ + 1 ELSE @]
      /\ recon' = [recon EXCEPT ![tx] = rest]
      /\ crossed' = IF rest # {} \/ stream # None THEN crossed \cup {tx} ELSE crossed
      /\ UNCHANGED <<outcome, enabled, start, changing, mounted, filter, list, overtaken>>
      /\ Refresh
  BY DEF Told, Tell, calls
<1>2. fetches' \subseteq Fetch /\ strayed' \in BOOLEAN /\ ListLine'
  BY <1>0, <1>1, RefreshLine
<1>3. None \in Source /\ source[tx] \in Source
  BY <1>0, WatchAssumption DEF TypeOK, None, Source
<1>4. times[tx] \in 0..2 /\ told[tx] \subseteq Ends /\ recon[tx] \subseteq Answer
  BY <1>0 DEF TypeOK
<1>5. /\ source' \in [Txs -> Source] /\ recon' \in [Txs -> SUBSET Answer]
      /\ told' \in [Txs -> SUBSET Ends] /\ times' \in [Txs -> 0..2]
  BY <1>0, <1>1, <1>3, <1>4 DEF TypeOK
<1>6. TypeOK'
  BY <1>0, <1>1, <1>2, <1>5 DEF TypeOK
<1>7. RetriesLeft'
  BY <1>0, <1>1, <1>5 DEF Watched, TypeOK, RetriesLeft, None, Live
<1>9. Unstarted'
  BY <1>0, <1>1, <1>5 DEF Watched, TypeOK, Unstarted
<1>10. AnswersTrue'
  BY <1>0, <1>1, <1>5 DEF Watched, TypeOK, AnswersTrue
<1>11. OneTrueNotice' /\ ToldOnce'
  <2>1. \A t \in Txs \ {tx} : /\ source'[t] = source[t] /\ recon'[t] = recon[t]
                               /\ told'[t] = told[t] /\ times'[t] = times[t]
                               /\ (t \in crossed' <=> t \in crossed)
    BY <1>0, <1>1 DEF TypeOK
  <2>2. /\ told'[tx] = told[tx] \cup {end} /\ source'[tx] = stream /\ recon'[tx] = rest
        /\ times'[tx] # 0 /\ (times'[tx] > 1 <=> times[tx] # 0)
        /\ tx \notin crossed' => stream = None /\ rest = {} /\ tx \notin crossed
    BY <1>0, <1>1, <1>4 DEF TypeOK
  <2>3. times'[tx] > 1 => tx \in crossed'
    BY <1>0, <2>2 DEF Watched, ToldOnce
  <2> QED BY <1>0, <1>1, <2>1, <2>2, <2>3 DEF Watched, OneTrueNotice, ToldOnce
<1> QED BY <1>2, <1>6, <1>7, <1>9, <1>10, <1>11 DEF WInv
\* A step that shows no notice and leaves the page alone.
LEMMA Quiet ==
    ASSUME WInv, UNCHANGED <<page, notices>>, Watched', TypeOK'
    PROVE  WInv'
<1>1. ToldTxs' = ToldTxs
  BY DEF notices, ToldTxs
<1> QED BY <1>1, PageApart DEF WInv, Watched

-----------------------------------------------------------------------------
(* The transactions                                                        *)

LEMMA NewType == New \in Source /\ New.retries = 0
<1>1. New = [at |-> "connecting", renewed |-> FALSE, retries |-> 0]
  <2>1. None = [at |-> "none", renewed |-> FALSE, retries |-> 0]
    BY DEF None
  <2>2. New = [None EXCEPT !.at = "connecting"]
    BY DEF New
  <2> QED BY <2>1, <2>2
<1>2. 0 \in 0..MaxRetries + 1
  BY WatchAssumption
<1> QED BY <1>1, <1>2 DEF Source, Live

\* A call is made, accepted or fails: the window knows no more than before.
LEMMA CallStep ==
    ASSUME WInv, NEW tx \in Txs,
           handleReprocess(tx) \/ handleNewMinute(tx) \/ Begin(tx) \/ CallFails(tx)
    PROVE  WInv'
<1>0. TypeOK /\ Watched /\ filter \in Filters
  BY DEF WInv, Watched, TypeOK
<1>1. UNCHANGED <<watch, changing, page, notices>>
  BY DEF handleReprocess, handleNewMinute, Clicked, Begin, CallFails, calls
<1>2. start' = start \/ \E call \in Call : start' = [start EXCEPT ![tx] = call]
  <2>1. NoCall \in Call /\ Away \in Call
        /\ \A what \in {"reprocess", "generate"} : [what |-> what, filter |-> filter] \in Call
    BY <1>0, WatchAssumption DEF NoCall, Away, Call
  <2> QED BY <2>1 DEF handleReprocess, handleNewMinute, Clicked, Begin, CallFails, calls
<1>3. outcome' = outcome \/ (start' = start /\ start[tx] # NoCall /\ outcome[tx] = "none"
                               /\ outcome' = [outcome EXCEPT ![tx] = "processing"])
  BY DEF handleReprocess, handleNewMinute, Clicked, Begin, CallFails, calls
<1>4. \A t \in Txs : outcome'[t] = "none" \/ start'[t] # NoCall =>
                       outcome[t] = "none" \/ start[t] # NoCall
  BY <1>0, <1>3 DEF handleReprocess, handleNewMinute, Clicked, Begin, CallFails, calls, TypeOK
<1>5. TypeOK'
  BY <1>0, <1>1, <1>2, <1>3 DEF TypeOK, watch, page, notices
<1>6. RetriesLeft' /\ Unstarted' /\ OneTrueNotice' /\ ToldOnce'
  BY <1>0, <1>1, <1>4 DEF Watched, RetriesLeft, Unstarted, OneTrueNotice, ToldOnce, watch, notices
<1>7. AnswersTrue'
  BY <1>0, <1>1, <1>3 DEF Watched, TypeOK, AnswersTrue, watch, notices, Ends
<1> QED BY <1>1, <1>5, <1>6, <1>7, Quiet DEF Watched

LEMMA StartedStep == ASSUME WInv, NEW tx \in Txs, Started(tx) PROVE WInv'
<1>0. TypeOK /\ Watched
  BY DEF WInv, Watched
<1>1. /\ start[tx] # NoCall /\ outcome[tx] # "none" /\ start' = [start EXCEPT ![tx] = NoCall]
      /\ pending' = pending \cup {tx}
      /\ source' = [source EXCEPT ![tx] = IF enabled THEN New ELSE @]
      /\ RefreshAsClicked(start[tx])
      /\ UNCHANGED <<outcome, enabled, recon, changing, mounted, list, overtaken, notices>>
  BY DEF Started
<1>2. fetches' \subseteq Fetch /\ strayed' \in BOOLEAN /\ filter' \in Filters /\ ListLine'
  <2> DEFINE c == start[tx]
  <2>1. c \in Call /\ c.filter \in Filters /\ filter \in Filters
    BY <1>0 DEF TypeOK, Call
  <2>2. CASE UNCHANGED <<filter, fetches, strayed>>
    <3>1. UNCHANGED page /\ ToldTxs' = ToldTxs
      BY <1>1, <2>2 DEF page, notices, ToldTxs
    <3> QED BY <1>0, <2>2, <3>1, PageApart DEF TypeOK
  <2>3. ASSUME NEW g \in Filters, NEW first \in Filters, filter' \in Filters,
               Ask(g, filter') \/ (AskBoth(first, g) /\ filter' = g)
        PROVE  fetches' \subseteq Fetch /\ strayed' \in BOOLEAN /\ ListLine'
    <3>1. strayed' \/ filter' = g
      BY <2>3 DEF Ask, AskBoth
    <3> QED BY <1>0, <2>3, <3>1, AskType, AskedLine
  <2>4. CASE c.what = "reprocess" /\ Ask(c.filter, filter) /\ UNCHANGED filter
    BY <2>1, <2>3, <2>4
  <2>5. CASE /\ filter' = FirstPage[filter]
             /\ IF filter' # filter
                THEN AskBoth(FirstPage[c.filter], filter')
                ELSE Ask(FirstPage[c.filter], filter)
    <3>1. filter' \in Filters /\ FirstPage[c.filter] \in Filters
      BY <2>1, <2>5, WatchAssumption
    <3> QED BY <2>3, <2>5, <3>1
  <2> QED BY <1>1, <2>2, <2>4, <2>5 DEF RefreshAsClicked
<1>3. New \in Source /\ New.retries = 0 /\ NoCall \in Call
  BY NewType, WatchAssumption DEF NoCall, Call
<1>4. TypeOK'
  BY <1>0, <1>1, <1>2, <1>3 DEF TypeOK, notices
<1>5. RetriesLeft'
  BY <1>0, <1>1, <1>3, WatchAssumption DEF Watched, TypeOK, RetriesLeft
<1>6. told[tx] = {} /\ recon[tx] = {}
  BY <1>0, <1>1 DEF Watched, Unstarted
<1>7. Unstarted' /\ AnswersTrue'
  BY <1>0, <1>1, <1>6 DEF Watched, TypeOK, Unstarted, AnswersTrue, notices
<1>8. OneTrueNotice' /\ ToldOnce'
  BY <1>0, <1>1, <1>6 DEF Watched, TypeOK, OneTrueNotice, ToldOnce, notices
<1> QED BY <1>2, <1>4, <1>5, <1>7, <1>8 DEF WInv

\* A transaction ends, or its end is turned over.
LEMMA BecomesStep ==
    ASSUME WInv, NEW tx \in Txs, NEW end \in Ends, Becomes(tx, end), outcome[tx] # "none"
    PROVE  WInv'
<1>0. TypeOK /\ Watched
  BY DEF WInv, Watched
<1>1. /\ outcome' = [outcome EXCEPT ![tx] = end]
      /\ been' = [been EXCEPT ![tx] = @ \cup {end}]
      /\ UNCHANGED <<watch, calls, page, told, times, presumed, crossed>>
  BY DEF Becomes
<1>2. TypeOK'
  BY <1>0, <1>1 DEF TypeOK, watch, calls, page
<1>3. Unstarted' /\ RetriesLeft' /\ ToldOnce'
  BY <1>0, <1>1 DEF Watched, TypeOK, Unstarted, RetriesLeft, ToldOnce, watch, calls, Ends
<1>4. AnswersTrue' /\ OneTrueNotice'
  BY <1>0, <1>1 DEF Watched, TypeOK, AnswersTrue, OneTrueNotice, watch
<1>5. ToldTxs' = ToldTxs
  BY <1>1 DEF ToldTxs
<1> QED BY <1>1, <1>2, <1>3, <1>4, <1>5, PageApart DEF WInv

LEMMA SettleStep == ASSUME WInv, NEW tx \in Txs, Settle(tx) \/ Revise(tx) PROVE WInv'
<1>1. PICK end \in Ends : Becomes(tx, end)
  BY DEF Settle, Revise
<1>2. outcome[tx] # "none"
  BY DEF Settle, Revise, Ends
<1> QED BY <1>1, <1>2, BecomesStep

-----------------------------------------------------------------------------
(* The streams                                                             *)

LEMMA ConnectStep == ASSUME WInv, NEW tx \in Txs, Connect(tx) PROVE WInv'
<1>0. TypeOK /\ Watched /\ source[tx] \in Source
  BY DEF WInv, Watched, TypeOK
<1>1. source[tx].at = "connecting" /\ source[tx] # None /\ outcome[tx] # "none"
  BY <1>0 DEF Connect, None, Watched, Unstarted
<1>2. ASSUME NEW at \in {"dead", "checked"}, source' = [source EXCEPT ![tx].at = at],
             UNCHANGED <<outcome, enabled, pending, recon, calls, page, notices>>
      PROVE  WInv'
  <2>1. [source[tx] EXCEPT !.at = at] \in Source
    BY <1>0 DEF Source, Live
  <2>2. TypeOK'
    BY <1>0, <1>2, <2>1 DEF TypeOK, calls, page, notices
  <2>3. RetriesLeft'
    BY <1>0, <1>1, <1>2, <2>1 DEF Watched, TypeOK, RetriesLeft, Live, Source
  <2>4. Unstarted' /\ AnswersTrue' /\ OneTrueNotice' /\ ToldOnce'
    BY <1>0, <1>1, <1>2
       DEF Watched, TypeOK, Unstarted, AnswersTrue, OneTrueNotice, ToldOnce, calls, notices
  <2> QED BY <1>2, <2>2, <2>3, <2>4, Quiet DEF Watched
<1>3. ASSUME outcome[tx] \in Ends, Told(tx, outcome[tx], recon[tx], None),
             UNCHANGED <<been, presumed>>
      PROVE  WInv'
  BY <1>0, <1>1, <1>3, ToldStep DEF Watched, AnswersTrue, TypeOK
<1> QED BY <1>2, <1>3 DEF Connect

LEMMA PublishStep == ASSUME WInv, NEW tx \in Txs, Publish(tx) PROVE WInv'
<1>0. TypeOK /\ Watched /\ been[tx] \subseteq Ends
  BY DEF WInv, Watched, TypeOK
<1>1. source[tx] # None /\ outcome[tx] # "none"
  BY <1>0 DEF Publish, None, Watched, Unstarted
<1> PICK end \in {"failed"} \cup been[tx] :
       /\ Told(tx, end, recon[tx], None)
       /\ presumed' = IF end = "failed" /\ outcome[tx] # "failed"
                      THEN presumed \cup {tx} ELSE presumed
  BY DEF Publish
<1>2. been' = been /\ presumed \subseteq presumed' /\ presumed' \subseteq Txs /\ end \in Ends
  BY <1>0 DEF Publish, TypeOK, Ends
<1>3. end \in been[tx] \/ (end = "failed" /\ tx \in presumed')
  BY <1>0 DEF Watched, AnswersTrue, Ends
<1> QED BY <1>1, <1>2, <1>3, ToldStep

LEMMA TimeoutStep == ASSUME WInv, NEW tx \in Txs, Timeout(tx) PROVE WInv'
<1>0. TypeOK /\ Watched
  BY DEF WInv, Watched
<1>1. source[tx] # None /\ outcome[tx] # "none"
  BY <1>0 DEF Timeout, None, Watched, Unstarted
<1>2. "failed" \in Ends /\ presumed' = presumed \cup {tx}
  BY DEF Ends, Timeout
<1> QED BY <1>0, <1>1, <1>2, ToldStep DEF Timeout, TypeOK

LEMMA ReconciledStep == ASSUME WInv, NEW tx \in Txs, Reconciled(tx) PROVE WInv'
<1>0. TypeOK /\ Watched
  BY DEF WInv, Watched
<1> PICK a \in recon[tx] : /\ a.says \in Ends
                            /\ Told(tx, a.says, recon[tx] \ {a}, IF a.old THEN source[tx] ELSE None)
  BY DEF Reconciled
<1>1. recon[tx] # {} /\ outcome[tx] # "none"
  BY <1>0 DEF Watched, Unstarted
<1>2. (IF a.old THEN source[tx] ELSE None) \in {None, source[tx]}
  OBVIOUS
<1>3. a.says \in been[tx]
  BY <1>0 DEF Watched, AnswersTrue
<1>4. UNCHANGED <<been, presumed>> /\ presumed \subseteq Txs
  BY <1>0 DEF Reconciled, TypeOK
<1> HIDE DEF Watched
<1> QED BY <1>1, <1>2, <1>3, <1>4, ToldStep

\* A stream moves, and may ask for the status.
LEMMA StreamMoves ==
    ASSUME WInv, NEW tx \in Txs, NEW s \in Source, source' = [source EXCEPT ![tx] = s],
           source[tx] # None, s.at \in Live \cup {"waiting"} => s.retries <= MaxRetries,
           recon' = recon \/ recon' = [recon EXCEPT ![tx] = @ \cup {Asked}],
           UNCHANGED <<outcome, enabled, pending, calls, page, notices>>
    PROVE  WInv'
<1>0. TypeOK /\ Watched
  BY DEF WInv, Watched
<1>1. outcome[tx] # "none" /\ (told[tx] # {} => tx \in crossed)
  BY <1>0 DEF Watched, Unstarted, ToldOnce
<1>2. Asked \in Answer /\ Asked.says = "asked"
  BY DEF Asked, Answer
<1>3. recon' \in [Txs -> SUBSET Answer] /\ source' \in [Txs -> Source]
  BY <1>0, <1>2 DEF TypeOK
<1>4. TypeOK'
  BY <1>0, <1>3 DEF TypeOK, calls, page, notices
<1>5. RetriesLeft'
  BY <1>0 DEF Watched, TypeOK, RetriesLeft
<1>6. \A t \in Txs : /\ t # tx => source'[t] = source[t] /\ recon'[t] = recon[t]
                     /\ \A a \in recon'[t] : a \in recon[t] \/ a.says = "asked"
  BY <1>0, <1>2 DEF TypeOK
<1>7. Unstarted' /\ OneTrueNotice' /\ ToldOnce'
  BY <1>0, <1>1, <1>6 DEF Watched, Unstarted, OneTrueNotice, ToldOnce, calls, notices
<1>8. AnswersTrue'
  BY <1>0, <1>6 DEF Watched, AnswersTrue, notices, Ends
<1> QED BY <1>4, <1>5, <1>7, <1>8, Quiet DEF Watched

LEMMA StreamStep ==
    ASSUME WInv, NEW tx \in Txs, Subscribe(tx) \/ Reconnect(tx) \/ Keepalive(tx) \/ Break(tx)
    PROVE  WInv'
<1>0. TypeOK /\ Watched /\ source[tx] \in Source /\ source \in [Txs -> Source]
  BY DEF WInv, Watched, TypeOK
<1>1. source[tx] # None
  BY DEF Subscribe, Reconnect, Keepalive, Break, None, Live
<1>2. source[tx].at \in Live \cup {"waiting"} /\ source[tx].retries <= MaxRetries
  BY <1>0 DEF Watched, RetriesLeft, Subscribe, Reconnect, Keepalive, Break, Live
<1>3. CASE Subscribe(tx)
  <2> DEFINE s == [source[tx] EXCEPT !.at = "open"]
  <2>1. s \in Source /\ s.retries <= MaxRetries /\ source' = [source EXCEPT ![tx] = s]
    BY <1>0, <1>2, <1>3 DEF Source, Live, Subscribe
  <2>2. recon' = recon /\ UNCHANGED <<outcome, enabled, pending, calls, page, notices>>
    BY <1>3 DEF Subscribe
  <2> HIDE DEF s
  <2> QED BY <1>1, <2>1, <2>2, StreamMoves
<1>4. CASE Reconnect(tx)
  <2> DEFINE s == [source[tx] EXCEPT !.at = "connecting"]
  <2>1. s \in Source /\ s.retries <= MaxRetries /\ source' = [source EXCEPT ![tx] = s]
    BY <1>0, <1>2, <1>4 DEF Source, Live, Reconnect
  <2>2. recon' = recon /\ UNCHANGED <<outcome, enabled, pending, calls, page, notices>>
    BY <1>4 DEF Reconnect
  <2> HIDE DEF s
  <2> QED BY <1>1, <2>1, <2>2, StreamMoves
<1>5. CASE Keepalive(tx)
  <2> DEFINE s == [source[tx] EXCEPT !.retries = 0]
  <2>1. s \in Source /\ s.retries <= MaxRetries /\ source' = [source EXCEPT ![tx] = s]
    BY <1>0, <1>5, WatchAssumption DEF Source, Keepalive
  <2>2. recon' = recon /\ UNCHANGED <<outcome, enabled, pending, calls, page, notices>>
    BY <1>5 DEF Keepalive
  <2> HIDE DEF s
  <2> QED BY <1>1, <2>1, <2>2, StreamMoves
<1>6. CASE Break(tx)
  <2>1. UNCHANGED <<outcome, enabled, pending, calls, page, notices>>
    BY <1>6 DEF Break
  <2>2. ASSUME source[tx].retries < MaxRetries PROVE WInv'
    <3> DEFINE s == [source[tx] EXCEPT !.at = "waiting", !.retries = @ + 1]
    <3> DEFINE n == source[tx].retries + 1
    <3>a. n \in 0..MaxRetries + 1 /\ n <= MaxRetries
      <4>1. source[tx].retries \in 0..MaxRetries + 1
        BY <1>0 DEF Source
      <4> QED BY <4>1, <2>2, WatchAssumption
    <3>b. s = [source[tx] EXCEPT !.at = "waiting", !.retries = n]
      OBVIOUS
    <3>1. s \in Source /\ s.retries <= MaxRetries
      <4> HIDE DEF n, s
      <4> QED BY <1>0, <3>a, <3>b DEF Source
    <3>2. source' = [source EXCEPT ![tx] = s]
      BY <1>0, <1>6, <2>2 DEF Break
    <3>3. recon' = recon \/ recon' = [recon EXCEPT ![tx] = @ \cup {Asked}]
      BY <1>6, <2>2 DEF Break, AskStatus
    <3> HIDE DEF s
    <3> QED BY <1>1, <2>1, <3>1, <3>2, <3>3, StreamMoves
  <2>3. ASSUME ~ (source[tx].retries < MaxRetries) PROVE WInv'
    <3> DEFINE s == [source[tx] EXCEPT !.at = "dead", !.retries = @ + 1]
    <3> DEFINE n == source[tx].retries + 1
    <3>a. n \in 0..MaxRetries + 1
      <4>1. source[tx].retries \in 0..MaxRetries + 1
        BY <1>0 DEF Source
      <4> QED BY <4>1, <1>2, WatchAssumption
    <3>b. s = [source[tx] EXCEPT !.at = "dead", !.retries = n]
      OBVIOUS
    <3>1. s \in Source /\ s.at = "dead"
      <4> HIDE DEF n, s
      <4> QED BY <1>0, <3>a, <3>b DEF Source
    <3>2. source' = [source EXCEPT ![tx] = s] /\ recon' = recon
      BY <1>0, <1>6, <2>3 DEF Break
    <3>3. s.at \notin Live \cup {"waiting"}
      BY <3>1 DEF Live
    <3> HIDE DEF s
    <3> QED BY <1>1, <2>1, <3>1, <3>2, <3>3, StreamMoves
  <2> QED BY <2>2, <2>3
<1> QED BY <1>3, <1>4, <1>5, <1>6

LEMMA StatusReadStep == ASSUME WInv, NEW tx \in Txs, StatusRead(tx) PROVE WInv'
<1>0. TypeOK /\ Watched /\ recon[tx] \subseteq Answer
  BY DEF WInv, Watched, TypeOK
<1> PICK a \in recon[tx], end \in {{}, {outcome[tx]} \cap Ends} :
         recon' = [recon EXCEPT ![tx] = (@ \ {a}) \cup {[a EXCEPT !.says = e] : e \in end}]
  BY DEF StatusRead
<1> DEFINE new == {[a EXCEPT !.says = e] : e \in end}
<1>1. UNCHANGED <<outcome, enabled, pending, source, calls, page, notices>>
  BY DEF StatusRead
<1>2. end \subseteq Ends /\ \A e \in end : e = outcome[tx]
  OBVIOUS
<1>3. new \subseteq Answer /\ \A n \in new : n.says = outcome[tx]
  BY <1>0, <1>2 DEF Answer
<1>4. recon' = [recon EXCEPT ![tx] = (@ \ {a}) \cup new]
  OBVIOUS
<1> HIDE DEF new
<1>5. outcome[tx] # "none" /\ (told[tx] # {} => tx \in crossed)
  BY <1>0 DEF Watched, Unstarted, ToldOnce
<1>6. TypeOK'
  BY <1>0, <1>1, <1>3, <1>4 DEF TypeOK, calls, page, notices
<1>7. \A t \in Txs : /\ t # tx => recon'[t] = recon[t]
                     /\ \A n \in recon'[t] : n \in recon[t] \/ n.says = outcome[t]
  BY <1>0, <1>3, <1>4 DEF TypeOK
<1>8. RetriesLeft' /\ Unstarted' /\ OneTrueNotice' /\ ToldOnce'
  BY <1>0, <1>1, <1>5, <1>7 DEF Watched, RetriesLeft, Unstarted, OneTrueNotice, ToldOnce, calls, notices
<1>9. AnswersTrue'
  BY <1>0, <1>1, <1>7 DEF Watched, AnswersTrue, notices
<1> QED BY <1>1, <1>6, <1>8, <1>9, Quiet DEF Watched

-----------------------------------------------------------------------------
(* The session                                                             *)

LEMMA RenewStep == ASSUME WInv, Renew PROVE WInv'
<1>0. TypeOK /\ Watched
  BY DEF WInv, Watched
<1>1. /\ source' = [tx \in Txs |-> IF source[tx].at \in {"none", "dead"} THEN source[tx]
                                   ELSE [source[tx] EXCEPT !.renewed = TRUE]]
      /\ UNCHANGED <<outcome, enabled, pending, recon, calls, page, notices>>
  BY DEF Renew
<1>2. \A tx \in Txs : /\ source'[tx] \in Source /\ source'[tx].at = source[tx].at
                      /\ source'[tx].retries = source[tx].retries
                      /\ source[tx] = None => source'[tx] = None
  <2> TAKE tx \in Txs
  <2>1. source[tx] \in Source /\ [source[tx] EXCEPT !.renewed = TRUE] \in Source
    BY <1>0 DEF TypeOK, Source
  <2>2. CASE source[tx].at \in {"none", "dead"}
    BY <1>1, <2>1, <2>2
  <2>3. CASE source[tx].at \notin {"none", "dead"}
    BY <1>1, <2>1, <2>3 DEF Source, None
  <2> QED BY <2>2, <2>3
<1>3. source' \in [Txs -> Source]
  BY <1>1, <1>2
<1>4. TypeOK'
  BY <1>0, <1>1, <1>3 DEF TypeOK, calls, page, notices
<1>5. Watched'
  BY <1>0, <1>1, <1>2 DEF Watched, RetriesLeft, Unstarted, AnswersTrue, OneTrueNotice, ToldOnce,
     calls, notices
<1> QED BY <1>1, <1>4, <1>5, Quiet

LEMMA DisableStep == ASSUME WInv, Disable PROVE WInv'
<1>0. TypeOK /\ Watched /\ None \in Source
  BY WatchAssumption DEF WInv, Watched, None, Source, TypeOK
<1> DEFINE Aged(as) == {[a EXCEPT !.old = TRUE] : a \in as}
<1>1. /\ source' = [tx \in Txs |-> IF tx \in pending THEN None ELSE source[tx]]
      /\ recon' = [tx \in Txs |-> Aged(recon[tx])]
      /\ enabled' = FALSE /\ Close /\ UNCHANGED <<outcome, pending, notices>>
  BY DEF Disable
<1>2. ASSUME NEW tx \in Txs
      PROVE  /\ Aged(recon[tx]) \subseteq Answer
             /\ \A n \in Aged(recon[tx]) : \E a \in recon[tx] : n.says = a.says
             /\ recon[tx] = {} => Aged(recon[tx]) = {}
  <2>1. \A a \in recon[tx] : [a EXCEPT !.old = TRUE] \in Answer /\ [a EXCEPT !.old = TRUE].says = a.says
    <3> TAKE a \in recon[tx]
    <3>1. a \in [says : Ends \cup {"asked"}, old : BOOLEAN]
      BY <1>0 DEF TypeOK, Answer
    <3> QED BY <3>1, Zenon DEF Answer
  <2> QED BY <2>1
<1> HIDE DEF Aged
<1>3. source' \in [Txs -> Source] /\ recon' \in [Txs -> SUBSET Answer]
  BY <1>0, <1>1, <1>2 DEF TypeOK
<1>5. TypeOK'
  BY <1>0, <1>1, <1>3, CloseType DEF TypeOK, notices
<1>6. RetriesLeft' /\ Unstarted'
  BY <1>0, <1>1, <1>2, CloseType DEF Watched, RetriesLeft, Unstarted, notices, None, Live
<1>7. AnswersTrue'
  BY <1>0, <1>1, <1>2 DEF Watched, AnswersTrue, notices
<1>8. OneTrueNotice' /\ ToldOnce'
  BY <1>0, <1>1, <1>2 DEF Watched, OneTrueNotice, ToldOnce, notices
<1>9. ListLine'
  BY <1>0, <1>1, CloseType
<1> QED BY <1>5, <1>6, <1>7, <1>8, <1>9 DEF WInv

LEMMA EnableStep == ASSUME WInv, Enable PROVE WInv'
<1>0. TypeOK /\ Watched
  BY DEF WInv, Watched
<1>1. New \in Source /\ New.retries = 0
  BY NewType
<1>2. /\ source' = [tx \in Txs |-> IF tx \in pending THEN New ELSE source[tx]]
      /\ enabled' = TRUE /\ UNCHANGED <<outcome, pending, recon, calls, page, notices>>
  BY DEF Enable
<1>3. TypeOK'
  BY <1>0, <1>1, <1>2 DEF TypeOK, calls, page, notices
<1>4. RetriesLeft'
  BY <1>0, <1>1, <1>2, WatchAssumption DEF Watched, RetriesLeft
<1>5. Unstarted' /\ AnswersTrue' /\ OneTrueNotice' /\ ToldOnce'
  BY <1>0, <1>2 DEF Watched, Unstarted, AnswersTrue, OneTrueNotice, ToldOnce, calls, notices
<1> QED BY <1>2, <1>3, <1>4, <1>5, Quiet DEF Watched

-----------------------------------------------------------------------------
LEMMA WatchStep == ASSUME WInv, [Next]_vars PROVE WInv'
<1>1. CASE \/ Mount \/ Unmount
           \/ \E g \in Filters : ChangeFilter(g) \/ handleViewModeChange(g)
           \/ handleStatusChange \/ \E g \in changing : StatusChanged(g) \/ StatusChangeFails(g)
           \/ \E f \in fetches : ServeList(f) \/ ListArrives(f) \/ ListFails(f)
  <2>1. UNCHANGED <<outcome, watch, notices>> /\ (Close \/ UNCHANGED start)
    BY <1>1 DEF Mount, Unmount, ChangeFilter, handleViewModeChange, handleStatusChange,
       StatusChanged, StatusChangeFails, ServeList, ListArrives, ListFails, Show, calls
  <2>2. \A tx \in Txs : start'[tx] # NoCall => start[tx] # NoCall
    BY <2>1 DEF Close
  <2> QED BY <1>1, <2>1, <2>2, ListStep, ListStepWatched DEF WInv, Watched
<1>2. CASE Renew \/ Disable \/ Enable
  BY <1>2, RenewStep, DisableStep, EnableStep
<1>3. ASSUME NEW tx \in Txs, \/ handleReprocess(tx) \/ handleNewMinute(tx) \/ Begin(tx)
                               \/ CallFails(tx) \/ Started(tx)
                               \/ Settle(tx) \/ Revise(tx) \/ Publish(tx)
                               \/ Timeout(tx) \/ StatusRead(tx) \/ Reconciled(tx)
      PROVE  WInv'
  BY <1>3, CallStep, StartedStep, SettleStep, PublishStep, TimeoutStep, StatusReadStep,
     ReconciledStep
<1>4. ASSUME NEW tx \in Txs, Stream(tx) \/ Keepalive(tx) \/ Break(tx)
      PROVE  WInv'
  BY <1>4, ConnectStep, StreamStep DEF Stream
<1>5. CASE UNCHANGED vars
  <2>1. UNCHANGED <<outcome, watch, notices>> /\ UNCHANGED page /\ UNCHANGED calls
    BY <1>5 DEF vars
  <2>2. TypeOK' /\ start' = start
    BY <2>1 DEF WInv, TypeOK, watch, notices, page, calls
  <2> QED BY <2>1, <2>2, ListStepWatched, Quiet
<1> QED BY <1>1, <1>2, <1>3, <1>4, <1>5 DEF Next

THEOREM WatchInductive == Spec => []WInv
BY WatchInit, WatchStep, PTL DEF Spec

\* What the window of a user knows of its transactions and its list stays in its types.
THEOREM WatchTypes == Spec => []TypeOK
<1>1. WInv => TypeOK
  BY DEF WInv
<1> QED BY <1>1, WatchInductive, PTL

\* handleCompleted and handleFailed tell what the transaction has come to, and once, but for
\* the failure of a stream that waited too long and an answer that was still on its way.
THEOREM NoticesAreTrue == Spec => []OneTrueNotice
<1>1. WInv => OneTrueNotice
  BY DEF WInv
<1> QED BY <1>1, WatchInductive, PTL

\* The list at rest shows the end of every minute the user was told of, and what its filters
\* say, unless the last fetch was that of a call made before they changed.
THEOREM ListFollows == Spec => []ListIsCurrent
<1>1. WInv => ListIsCurrent
  BY DEF WInv, ListLine, ListIsCurrent, ShowsEnds, ToldTxs
<1> QED BY <1>1, WatchInductive, PTL

-----------------------------------------------------------------------------
(* Nobody is forgotten                                                     *)

\* A stream goes on, or was closed for good by a refused token or its last retry.
Watching(s) ==
    \/ s.at \in Live \cup {"waiting"}
    \/ s.at = "dead" /\ (s.renewed \/ s.retries > MaxRetries)

\* What the store holds has a stream: whatever comes and goes meanwhile, renewals, logouts,
\* breaks and answers of closed streams.
PendingIsWatched == \A tx \in Txs : enabled /\ tx \in pending => Watching(source[tx])

\* A step that leaves alone the streams of what stays pending.
LEMMA StreamsStay ==
    ASSUME PendingIsWatched, enabled' => enabled, pending' \subseteq pending,
           \A t \in pending' : source'[t] = source[t]
    PROVE  PendingIsWatched'
  BY DEF PendingIsWatched

\* A step of one stream that goes on.
LEMMA StreamGoesOn ==
    ASSUME TypeOK, PendingIsWatched, NEW tx \in Txs, NEW s,
           source' = [source EXCEPT ![tx] = s], Watching(s),
           enabled' = enabled, pending' \subseteq pending \cup {tx}
    PROVE  PendingIsWatched'
  BY DEF TypeOK, PendingIsWatched

LEMMA ToldLeaves ==
    ASSUME TypeOK, PendingIsWatched, NEW tx \in Txs, NEW end, NEW rest, NEW stream,
           Told(tx, end, rest, stream)
    PROVE  PendingIsWatched'
<1>1. /\ pending' = pending \ {tx} /\ enabled' = enabled
      /\ source' = [source EXCEPT ![tx] = stream]
  BY DEF Told, Tell
<1>2. \A t \in pending' : source'[t] = source[t]
  BY <1>1 DEF TypeOK
<1> QED BY <1>1, <1>2, StreamsStay

LEMMA OneStreamStep ==
    ASSUME WInv, PendingIsWatched, NEW tx \in Txs,
           Started(tx) \/ Stream(tx) \/ Keepalive(tx) \/ Break(tx)
    PROVE  PendingIsWatched'
<1>0. TypeOK /\ source \in [Txs -> Source] /\ source[tx] \in Source
  BY DEF WInv, TypeOK
<1>1. ASSUME NEW at \in Live \cup {"waiting"}, source' = [source EXCEPT ![tx] = [@ EXCEPT !.at = at]],
             UNCHANGED <<enabled, pending>>
      PROVE  PendingIsWatched'
  <2> DEFINE s == [source[tx] EXCEPT !.at = at]
  <2>1. source' = [source EXCEPT ![tx] = s] /\ Watching(s)
    BY <1>0, <1>1 DEF Source, Watching
  <2> HIDE DEF s
  <2> QED BY <1>0, <1>1, <2>1, StreamGoesOn
<1>2. CASE Started(tx)
  <2>1. New.at = "connecting"
    BY DEF New, None
  <2>2. Watching(New)
    BY <2>1 DEF Watching, Live
  <2>3. CASE enabled
    BY <1>0, <1>2, <2>2, <2>3, StreamGoesOn DEF Started
  <2>4. CASE ~ enabled
    BY <1>2, <2>4 DEF Started, PendingIsWatched
  <2> QED BY <2>3, <2>4
<1>3. CASE Connect(tx)
  <2>1. CASE \E rest, stream : Told(tx, outcome[tx], rest, stream)
    BY <1>0, <2>1, ToldLeaves
  <2>2. CASE /\ source[tx].renewed /\ source' = [source EXCEPT ![tx].at = "dead"]
             /\ UNCHANGED <<enabled, pending>>
    <3> DEFINE s == [source[tx] EXCEPT !.at = "dead"]
    <3>1. source' = [source EXCEPT ![tx] = s] /\ Watching(s)
      BY <1>0, <2>2 DEF Source, Watching
    <3> HIDE DEF s
    <3> QED BY <1>0, <2>2, <3>1, StreamGoesOn
  <2>3. CASE source' = [source EXCEPT ![tx].at = "checked"] /\ UNCHANGED <<enabled, pending>>
    BY <1>1, <2>3 DEF Live
  <2> QED BY <1>3, <2>1, <2>2, <2>3 DEF Connect
<1>4. CASE Subscribe(tx)
  BY <1>1, <1>4 DEF Subscribe, Live
<1>5. CASE Reconnect(tx)
  BY <1>1, <1>5 DEF Reconnect, Live
<1>6. CASE Keepalive(tx)
  <2> DEFINE s == [source[tx] EXCEPT !.retries = 0]
  <2>1. source' = [source EXCEPT ![tx] = s] /\ s.at = "open"
    BY <1>0, <1>6 DEF Keepalive, Source
  <2>2. Watching(s)
    BY <2>1 DEF Watching, Live
  <2> HIDE DEF s
  <2> QED BY <1>0, <1>6, <2>1, <2>2, StreamGoesOn DEF Keepalive
<1>7. CASE Break(tx)
  <2>1. source[tx].retries \in 0..MaxRetries + 1 /\ MaxRetries \in Nat
    BY <1>0, WatchAssumption DEF Source
  <2>2. \E at \in {"waiting", "dead"} :
            /\ source' = [source EXCEPT ![tx].at = at, ![tx].retries = @ + 1]
            /\ at = "dead" => ~ (source[tx].retries < MaxRetries)
    BY <1>7 DEF Break
  <2> PICK at \in {"waiting", "dead"} :
            /\ source' = [source EXCEPT ![tx].at = at, ![tx].retries = @ + 1]
            /\ at = "dead" => ~ (source[tx].retries < MaxRetries)
    BY <2>2
  <2> DEFINE n == source[tx].retries + 1
             s == [source[tx] EXCEPT !.at = at, !.retries = n]
  <2>3. source' = [source EXCEPT ![tx] = s]
    BY <1>0
  <2>4. at = "dead" => n > MaxRetries
    BY <2>1
  <2>5. Watching(s)
    <3> HIDE DEF n
    <3>1. s.at = at /\ s.retries = n
      BY <1>0 DEF Source
    <3> QED BY <2>4, <3>1 DEF Watching
  <2> HIDE DEF s
  <2> QED BY <1>0, <1>7, <2>3, <2>5, StreamGoesOn DEF Break
<1> QED BY <1>2, <1>3, <1>4, <1>5, <1>6, <1>7 DEF Stream

LEMMA PendingIsWatchedStep == ASSUME WInv, PendingIsWatched, [Next]_vars PROVE PendingIsWatched'
<1>0. TypeOK /\ source \in [Txs -> Source] /\ pending \subseteq Txs
  BY DEF WInv, TypeOK
<1>1. CASE UNCHANGED watch
  BY <1>1, StreamsStay DEF watch
<1>2. CASE \/ Mount \/ Unmount
           \/ \E g \in Filters : ChangeFilter(g) \/ handleViewModeChange(g)
           \/ handleStatusChange \/ \E g \in changing : StatusChanged(g) \/ StatusChangeFails(g)
           \/ \E f \in fetches : ServeList(f) \/ ListArrives(f) \/ ListFails(f)
           \/ \E tx \in Txs : \/ handleReprocess(tx) \/ handleNewMinute(tx) \/ Begin(tx)
                               \/ CallFails(tx) \/ Settle(tx) \/ Revise(tx)
           \/ UNCHANGED vars
  BY <1>1, <1>2 DEF Mount, Unmount, ChangeFilter, handleViewModeChange, handleStatusChange,
     StatusChanged, StatusChangeFails, ServeList, ListArrives, ListFails, Show,
     handleReprocess, handleNewMinute, Clicked, Begin, CallFails, Settle, Revise, Becomes, vars
<1>3. CASE Renew
  <2>1. /\ enabled' = enabled /\ pending' = pending
        /\ source' = [tx \in Txs |-> IF source[tx].at \in {"none", "dead"} THEN source[tx]
                                     ELSE [source[tx] EXCEPT !.renewed = TRUE]]
    BY <1>3 DEF Renew
  <2>2. \A tx \in Txs : source'[tx] = source[tx] \/ source'[tx] = [source[tx] EXCEPT !.renewed = TRUE]
    BY <2>1
  <2>3. \A tx \in Txs : source'[tx].at = source[tx].at /\ source'[tx].retries = source[tx].retries
                       /\ (source[tx].renewed => source'[tx].renewed)
    BY <1>0, <2>2 DEF Source
  <2>4. \A tx \in Txs : Watching(source[tx]) => Watching(source'[tx])
    BY <2>3 DEF Watching
  <2> QED BY <2>1, <2>4 DEF PendingIsWatched
<1>4. CASE Disable
  BY <1>4 DEF Disable, PendingIsWatched
<1>5. CASE Enable
  <2>1. \A tx \in Txs : tx \in pending' => source'[tx] = New
    BY <1>5 DEF Enable
  <2>2. New.at = "connecting"
    BY DEF New, None
  <2>3. Watching(New)
    BY <2>2 DEF Watching, Live
  <2> QED BY <2>1, <2>3 DEF PendingIsWatched
<1>6. ASSUME NEW tx \in Txs, Publish(tx) \/ Timeout(tx) \/ Reconciled(tx) PROVE PendingIsWatched'
  <2>1. \E end, rest, stream : Told(tx, end, rest, stream)
    BY <1>6 DEF Publish, Timeout, Reconciled
  <2> QED BY <1>0, <2>1, ToldLeaves
<1>7. ASSUME NEW tx \in Txs, StatusRead(tx) PROVE PendingIsWatched'
  BY <1>7, StreamsStay DEF StatusRead
<1>8. ASSUME NEW tx \in Txs, Started(tx) \/ Stream(tx) \/ Keepalive(tx) \/ Break(tx)
      PROVE  PendingIsWatched'
  BY <1>8, OneStreamStep
<1> QED BY <1>2, <1>3, <1>4, <1>5, <1>6, <1>7, <1>8 DEF Next

\* The safety half of EveryTxTold: while the session lasts, a transaction in the store has a
\* stream that goes on, unless that was refused with a renewed token or has used up its
\* retries; no order of renewals, logouts, breaks and late answers leaves one without.
THEOREM NobodyForgotten == Spec => []PendingIsWatched
<1>1. Init => PendingIsWatched
  BY DEF Init, PendingIsWatched
<1>2. WInv /\ PendingIsWatched /\ [Next]_vars => PendingIsWatched'
  BY PendingIsWatchedStep
<1> QED BY <1>1, <1>2, WatchInductive, PTL DEF Spec
=============================================================================
