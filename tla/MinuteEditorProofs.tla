------------------------- MODULE MinuteEditorProofs -------------------------
(***************************************************************************)
(* For every number of requests under way, observations and texts: what    *)
(* the window believes of its record is what the server has, for as long   *)
(* as nothing has parted the two.                                          *)
(***************************************************************************)
EXTENDS MinuteEditor, TLAPS

Pending(r) == r.at = "sent"
ServedLoad(r) == r.what = "load" /\ r.at = "ok"

\* Requests of a mounted page: its load while it loads, the others while it is open.
\* A dialog has nothing to be answered.
Mounted ==
    /\ \A r \in requests : r.what \in Dialogs => r.at = "sent"
    /\ \A r \in requests : r.what = "load" => r.live /\ page = "loading"
    /\ \A r \in requests : r.live /\ r.what # "load" => page = "open"
    /\ \A q, r \in requests : q.what = "load" /\ r.what = "load" => q = r

\* The moves of the page that change its status, and the dialog and the save that become one.
Moving(r) == r.live /\ r.what \in Moves \cup Submits
Arrived(r) == r.live /\ r.what \in Moves /\ r.at = "ok"

\* While nothing parted the two, the page shows the status of the record, or the answer
\* under way will bring it; what moves the record is alone under way.
Shown ==
    /\ \A r \in requests : ServedLoad(r) => r.got = status
    /\ \A q, r \in requests : Moving(r) /\ q.what \in Saves \cup Moves \cup Submits => q = r
    /\ \A r \in requests : Arrived(r) => status = Target[r.what]
    /\ page = "open" /\ (\A r \in requests : ~ Arrived(r)) => local = status
    /\ \A r \in requests : r.live =>
          /\ r.what \in Submits \/ (r.what = "saveDraft" /\ r.at = "sent") => status = "pending"
          /\ r.what \in Moves /\ r.at = "sent" => Target[r.what] \in VALID_TRANSITIONS[status]

MoveLine == ~ moved => Shown

Store(r) == r.what \in Storing /\ r.at = "sent"

\* Observations whose insertion the server has stored, resolved already or not.
Secured(o) ==
    \/ obs[o] = "inserted"
    \/ \E r \in requests :
          /\ o \in r.on
          /\ r.what = "inserted" \/ (r.what = "insertSave" /\ r.at = "ok")

\* Every content that may still reach the server has the secured observations, and so has
\* what a load brings.
Held ==
    /\ \A o \in Observations : Secured(o) =>
          /\ o \in stored.notes
          /\ page = "open" => o \in doc.notes
          /\ \A r \in requests : Store(r) \/ ServedLoad(r) => o \in r.payload.notes
    /\ \A r \in requests : r.what = "insertSave" /\ page = "open" => r.on \subseteq doc.notes
    /\ \A r \in requests : r.what = "insertSave" => r.on \subseteq r.payload.notes
    /\ \A q, r \in requests : ServedLoad(q) => ~ Store(r)

NotesLine == ~ dropped => Held

Settled ==
    /\ baseline = stored
    /\ ~ isDirty => doc = baseline

\* While nothing parted the two, either one save of the document as it is is on its way,
\* or what the awaited answers take for the baseline is stored already.
OneSave ==
    /\ Settled
    /\ \A q, r \in requests : q.what \in Snapshots /\ r.what \in Snapshots =>
          q = r /\ r.what \in Saves /\ r.at = "sent" /\ r.payload = doc

StoredAlready ==
    /\ stored = doc
    /\ \E r \in requests : r.what \in Snapshots
    /\ \A r \in requests : r.what \in Saves => r.at = "ok"

Agreed ==
    /\ \A r \in requests : ServedLoad(r) => r.payload = stored
    /\ \A q, r \in requests : ServedLoad(q) => ~ Store(r)
    /\ page = "open" => OneSave \/ StoredAlready

BaseLine == ~ diverged => Agreed

-----------------------------------------------------------------------------
(* Requests                                                                *)

LEMMA Names ==
    /\ Moves = {"enter", "toPreview", "return", "publish", "cancel"}
    /\ Target["enter"] = "pending" /\ Target["toPreview"] = "preview"
    /\ Target["return"] = "pending" /\ Target["publish"] = "completed"
    /\ Target["cancel"] = "cancelled"
    /\ \A what \in Moves : Target[what] \in Statuses
  BY DEF Moves, Target, Statuses, Editable, WithContent

Like(s, r) == s.payload = r.payload /\ s.got = r.got /\ s.on = r.on

LEMMA NewFields ==
    ASSUME NEW what \in Whats, NEW payload \in Doc, NEW on \in SUBSET Observations
    PROVE  LET n == NewRequest(what, payload, on)
           IN  /\ n \in Request /\ n.what = what /\ n.at = "sent" /\ n.live
               /\ n.payload = payload /\ n.on = on
  BY DEF NewRequest, Request, Statuses

LEMMA OkFields ==
    ASSUME NEW r \in Request
    PROVE  LET s == [r EXCEPT !.at = "ok"]
           IN  s \in Request /\ s.what = r.what /\ s.at = "ok" /\ s.live = r.live /\ Like(s, r)
  BY DEF Request, Like

LEMMA LoadFields ==
    ASSUME NEW r \in Request, NEW d \in Doc, NEW st \in Statuses
    PROVE  LET s == [r EXCEPT !.at = "ok", !.payload = d, !.got = st]
           IN  /\ s \in Request /\ s.what = r.what /\ s.at = "ok" /\ s.live = r.live
               /\ s.on = r.on /\ s.payload = d /\ s.got = st
  BY DEF Request

LEMMA DeadFields ==
    ASSUME NEW r \in Request
    PROVE  LET s == [r EXCEPT !.live = FALSE]
           IN  s \in Request /\ s.what = r.what /\ s.at = r.at /\ ~ s.live /\ Like(s, r)
  BY DEF Request, Like

LEMMA ReviewFields ==
    ASSUME NEW r \in Request
    PROVE  LET s == [r EXCEPT !.what = "toPreview", !.at = "sent"]
           IN  s \in Request /\ s.what = "toPreview" /\ s.at = "sent" /\ s.live = r.live /\ Like(s, r)
<1>1. "toPreview" \in Whats
  BY Names DEF Whats
<1> QED BY <1>1 DEF Request, Like

LEMMA EmptyDoc == EMPTY_STATE \in Doc
  BY DEF EMPTY_STATE, Doc

LEMMA ResolveFields ==
    ASSUME NEW r \in Request
    PROVE  LET s == [r EXCEPT !.what = "inserted", !.at = "sent", !.payload = EMPTY_STATE]
           IN  /\ s \in Request /\ s.what = "inserted" /\ s.at = "sent" /\ s.live = r.live
               /\ s.on = r.on /\ s.payload = EMPTY_STATE
<1>1. "inserted" \in Whats
  BY DEF Whats, Verdicts
<1> QED BY <1>1, EmptyDoc DEF Request

\* What a dialog sends for its page, the save of the review, and the dialog of a review that
\* failed.
LEMMA InsertFields ==
    ASSUME NEW r \in Request, NEW payload \in Doc
    PROVE  LET s == [NewRequest("insertSave", payload, r.on) EXCEPT !.live = r.live]
           IN  /\ s \in Request /\ s.what = "insertSave" /\ s.at = "sent" /\ s.live = r.live
               /\ s.payload = payload /\ s.on = r.on
<1>1. "insertSave" \in Whats
  BY DEF Whats, Storing, ReviewSaves
<1> QED BY <1>1 DEF NewRequest, Request, Statuses

LEMMA SubmitFields ==
    ASSUME NEW r \in Request, NEW payload \in Doc
    PROVE  LET s == [r EXCEPT !.what = "submitSave", !.payload = payload]
           IN  /\ s \in Request /\ s.what = "submitSave" /\ s.at = r.at /\ s.live = r.live
               /\ s.payload = payload /\ s.on = r.on
<1>1. "submitSave" \in Whats
  BY DEF Whats, Storing, Saves
<1> QED BY <1>1 DEF Request

LEMMA ReopenFields ==
    ASSUME NEW r \in Request
    PROVE  LET s == [r EXCEPT !.what = "reviewDialog", !.at = "sent", !.payload = EMPTY_STATE]
           IN  s \in Request /\ s.what = "reviewDialog" /\ s.at = "sent" /\ s.live = r.live
<1>1. "reviewDialog" \in Whats
  BY DEF Whats, Dialogs
<1> QED BY <1>1, EmptyDoc DEF Request

-----------------------------------------------------------------------------
(* Types                                                                   *)

LEMMA TypeInit == Init => TypeOK
  BY EditorAssumption, EmptyDoc
  DEF Init, TypeOK, Doc, Statuses, Editable, WithContent

LEMMA SentType ==
    ASSUME TypeOK, NEW what \in Whats, NEW payload \in Doc, NEW on \in SUBSET Observations,
           Send(NewRequest(what, payload, on))
    PROVE  requests' \subseteq Request
  BY NewFields DEF TypeOK, Send

LEMMA AnswerType == ASSUME TypeOK, NEW r \in requests, Answer(r) PROVE TypeOK'
<1>0. r \in Request /\ r.payload \in Doc /\ r.got \in Statuses
  BY DEF TypeOK, Request
<1>1. CASE Loaded(r)
  BY <1>0, <1>1 DEF Loaded, loadFrom, Forget, TypeOK, server, history, store
<1>2. CASE DraftSaved(r)
  BY <1>2 DEF DraftSaved, TakeSnapshot, Forget, TypeOK, server, history
<1>3. CASE SubmitSaved(r)
  BY <1>0, <1>3, ReviewFields DEF SubmitSaved, Replace, TypeOK, server, history, store, view
<1>4. CASE Submitted(r)
  BY <1>4 DEF Submitted, TakeSnapshot, closeAll, TypeOK, server, history, Statuses, WithContent, Editable
<1>5. CASE Moved(r)
  BY <1>5, Names DEF Moved, Forget, closeAll, TypeOK, server, history, store
<1>6. CASE InsertSaved(r)
  BY <1>0, <1>6, ResolveFields DEF InsertSaved, Replace, TypeOK, server, history, store, view
<1>7. CASE Resolved(r)
  BY <1>7 DEF Resolved, closeAll, TypeOK, server, history, store
<1> QED BY <1>1, <1>2, <1>3, <1>4, <1>5, <1>6, <1>7 DEF Answer

LEMMA EffectType ==
    ASSUME TypeOK, NEW r \in Request, Effect(r)
    PROVE  /\ status' \in Statuses /\ stored' \in Doc
           /\ obs' \in [Observations -> {"none", "new", "withdrawn"} \cup Verdicts]
<1>1. status' \in Statuses
  BY Names DEF TypeOK, Effect
<1>2. stored' \in Doc
  BY DEF TypeOK, Effect, Request
<1>3. obs' \in [Observations -> {"none", "new", "withdrawn"} \cup Verdicts]
  BY DEF TypeOK, Effect
<1> QED BY <1>1, <1>2, <1>3

LEMMA ServerType == ASSUME TypeOK, NEW r \in requests, Server(r) PROVE TypeOK'
<1>0. r \in Request
  BY DEF TypeOK
<1>1. CASE Serve(r)
  <2>1. requests' \subseteq Request
    <3>1. [r EXCEPT !.at = "ok"] \in Request
      BY <1>0, OkFields
    <3>2. [r EXCEPT !.at = "ok", !.payload = stored, !.got = status] \in Request
      BY <1>0, LoadFields DEF TypeOK
    <3> QED BY <1>1, <3>1, <3>2 DEF Serve, Replace, Forget, TypeOK
  <2>2. diverged' \in BOOLEAN /\ moved' \in BOOLEAN /\ dropped' \in BOOLEAN
    BY <1>0, <1>1 DEF Serve, Compare, TypeOK, Request
  <2>3. UNCHANGED <<view, store>> /\ Effect(r)
    BY <1>1 DEF Serve
  <2> QED BY <1>0, <2>1, <2>2, <2>3, EffectType DEF TypeOK, view, store
<1>2. ASSUME Failed(r) PROVE requests' \subseteq Request /\ page' \in {page, "error"}
  <2>1. [r EXCEPT !.what = "reviewDialog", !.at = "sent", !.payload = EMPTY_STATE] \in Request
    BY <1>0, ReopenFields
  <2> QED BY <1>2, <2>1 DEF Failed, Forget, Replace, TypeOK
<1>3. CASE Refuse(r)
  BY <1>2, <1>3 DEF Refuse, Failed, TypeOK, server, store
<1>4. CASE LoseAnswer(r)
  <2>1. Effect(r)
    BY <1>4 DEF LoseAnswer
  <2> QED BY <1>0, <1>2, <1>4, <2>1, EffectType DEF LoseAnswer, Failed, TypeOK, store
<1> QED BY <1>1, <1>3, <1>4 DEF Server

LEMMA PageType == ASSUME TypeOK, Page PROVE TypeOK'
<1>1. CASE Open
  <2>1. requests' \subseteq Request
    BY <1>1, SentType, EmptyDoc DEF Open, Whats
  <2> QED BY <1>1, <2>1 DEF Open, TypeOK, server, store, history
<1>2. CASE Leave
  <2>1. requests' \subseteq Request
    BY <1>2, DeadFields DEF Leave, TypeOK
  <2> QED BY <1>2, <2>1, EmptyDoc DEF Leave, reset, TypeOK, server, history, Statuses
<1>3. ASSUME NEW o \in Observations, DeleteInsertion(o) PROVE TypeOK'
  <2>1. [doc EXCEPT !.notes = @ \ {o}] \in Doc
    BY DEF TypeOK, Doc
  <2> QED BY <1>3, <2>1 DEF DeleteInsertion, ChangeDoc, TypeOK, server, view
<1>4. CASE ListObservations
  BY <1>4 DEF ListObservations, TypeOK, server, store, history
<1>5. ASSUME NEW t \in Texts, Edit(t) \/ Hydrate(t) PROVE TypeOK'
  <2>1. [doc EXCEPT !.text = t] \in Doc
    BY DEF TypeOK, Doc
  <2> QED BY <1>5, <2>1 DEF Edit, Hydrate, ChangeDoc, TypeOK, server, view
<1> QED BY <1>1, <1>2, <1>3, <1>4, <1>5 DEF Page

LEMMA ClickType == ASSUME TypeOK, Click PROVE TypeOK'
<1>0. doc \in Doc /\ {} \in SUBSET Observations /\ EMPTY_STATE \in Doc
  BY EmptyDoc DEF TypeOK
<1>1. ASSUME NEW what \in Saves \cup Moves, NEW payload \in Doc, Ask(what, payload, {})
      PROVE  requests' \subseteq Request /\ moved' \in BOOLEAN
  <2>1. what \in Whats /\ Send(NewRequest(what, payload, {}))
    BY <1>1 DEF Ask, Whats, Storing
  <2>2. requests' \subseteq Request
    BY <1>0, <2>1, SentType
  <2>3. moved' \in BOOLEAN
    BY <1>1 DEF Ask, TypeOK, Crosses
  <2> QED BY <2>2, <2>3
<1>2. CASE SaveDraft
  <2>1. requests' \subseteq Request /\ moved' \in BOOLEAN
    BY <1>0, <1>1, <1>2 DEF SaveDraft, Saves
  <2> QED BY <1>2, <2>1 DEF SaveDraft, TypeOK, server, view, store
<1>3. CASE EnterEditMode \/ Publish
  <2>1. requests' \subseteq Request /\ moved' \in BOOLEAN
    BY <1>0, <1>1, <1>3, Names DEF EnterEditMode, Publish
  <2> QED BY <1>3, <2>1 DEF EnterEditMode, Publish, TypeOK, server, view, store
<1>4. ASSUME NEW what \in {"return", "cancel"}, Move(what) PROVE TypeOK'
  <2>1. requests' \subseteq Request /\ moved' \in BOOLEAN
    BY <1>0, <1>1, <1>4, Names DEF Move
  <2> QED BY <1>4, <2>1 DEF Move, TypeOK, server, view, store
<1>5. CASE RefreshReviewPdf
  <2>1. requests' \subseteq Request
    BY <1>0, <1>5, SentType DEF RefreshReviewPdf, Whats, Storing, ReviewSaves
  <2> QED BY <1>5, <2>1 DEF RefreshReviewPdf, TypeOK, server, view, store, history
<1>6. ASSUME NEW o \in Observations, Resolve(o) PROVE TypeOK'
  <2>1. requests' \subseteq Request
    BY <1>0, <1>6, SentType DEF Resolve, Whats, Verdicts
  <2> QED BY <1>6, <2>1 DEF Resolve, TypeOK, server, view, store, history
<1> QED BY <1>2, <1>3, <1>4, <1>5, <1>6 DEF Click

LEMMA DialogType == ASSUME TypeOK, Dialog PROVE TypeOK'
<1>1. ASSUME NEW what \in Dialogs, NEW on \in SUBSET Observations, Offer(what, on)
      PROVE  requests' \subseteq Request
  BY <1>1, SentType, EmptyDoc DEF Offer, Whats
<1>2. CASE OpenEntry \/ handleRollback \/ SaveAndReview
  <2>1. requests' \subseteq Request
    BY <1>1, <1>2 DEF OpenEntry, handleRollback, SaveAndReview, Dialogs
  <2>2. moved' \in BOOLEAN
    BY <1>2 DEF OpenEntry, handleRollback, SaveAndReview, Crosses, TypeOK, history
  <2> QED BY <1>2, <2>1, <2>2
          DEF OpenEntry, handleRollback, SaveAndReview, TypeOK, server, view, store, history
<1>3. ASSUME NEW o \in Observations, Insert(o) PROVE TypeOK'
  <2>1. requests' \subseteq Request
    BY <1>1, <1>3 DEF Insert, Dialogs
  <2> QED BY <1>3, <2>1 DEF Insert, TypeOK, server, view, store, history
<1> QED BY <1>2, <1>3 DEF Dialog

LEMMA InsertType ==
    ASSUME TypeOK, NEW r \in requests, NEW d \in insertObservationIntoScope(r)
    PROVE  d \in Doc /\ doc.notes \subseteq d.notes /\ (r.live => r.on \subseteq d.notes)
  BY DEF insertObservationIntoScope, TypeOK, Doc, Request

LEMMA ConfirmType == ASSUME TypeOK, NEW r \in requests, Confirm(r) PROVE TypeOK'
<1>0. r \in Request /\ doc \in Doc
  BY DEF TypeOK
<1>1. ASSUME NEW t \in Texts, LateEdit(r, t) PROVE TypeOK'
  <2>1. [doc EXCEPT !.text = t] \in Doc
    BY DEF TypeOK, Doc
  <2> QED BY <1>1, <2>1 DEF LateEdit, ChangeDoc, Forget, TypeOK, server, view
<1>2. CASE rollbackToSnapshot(r)
  BY <1>2 DEF rollbackToSnapshot, ChangeDoc, Forget, TypeOK, server, view
<1>3. CASE CloseDialog(r)
  BY <1>3 DEF CloseDialog, Forget, TypeOK, server, view, store, history
<1>4. CASE ConfirmReview(r)
  <2>1. requests' \subseteq Request
    BY <1>0, <1>4, SubmitFields DEF ConfirmReview, Replace, TypeOK
  <2>2. moved' \in BOOLEAN
    BY <1>0, <1>4 DEF ConfirmReview, TypeOK, Request
  <2> QED BY <1>4, <2>1, <2>2 DEF ConfirmReview, TypeOK, server, view, store
<1>5. CASE ConfirmInsert(r)
  <2>1. PICK d \in insertObservationIntoScope(r) :
           /\ doc' = d
           /\ SendFrom(r, [NewRequest("insertSave", d, r.on) EXCEPT !.live = r.live])
           /\ dropped' = (dropped \/ page # "open" \/ ~ r.on \subseteq d.notes)
    BY <1>5 DEF ConfirmInsert
  <2>2. d \in Doc
    BY InsertType
  <2>3. requests' \subseteq Request
    BY <1>0, <2>1, <2>2, InsertFields DEF SendFrom, Send, Replace, TypeOK
  <2> QED BY <1>5, <2>1, <2>2, <2>3 DEF ConfirmInsert, TypeOK, server, view
<1> QED BY <1>1, <1>2, <1>3, <1>4, <1>5 DEF Confirm

LEMMA ElsewhereType == ASSUME TypeOK, Elsewhere PROVE TypeOK'
<1>1. CASE OthersSave
  BY <1>1 DEF OthersSave, TypeOK, Doc, view, store
<1>2. ASSUME NEW target \in Statuses, OthersMove(target) PROVE TypeOK'
  BY <1>2 DEF OthersMove, TypeOK, view, store
<1>3. ASSUME NEW o \in Observations, GuestObserves(o) \/ GuestWithdraws(o) \/ OthersResolve(o)
      PROVE  TypeOK'
  BY <1>3 DEF GuestObserves, GuestWithdraws, OthersResolve, TypeOK, view, store, history, Verdicts
<1> QED BY <1>1, <1>2, <1>3 DEF Elsewhere

LEMMA TypeStep == TypeOK /\ [Next]_vars => TypeOK'
<1> SUFFICES ASSUME TypeOK, [Next]_vars PROVE TypeOK'
  OBVIOUS
<1>1. CASE UNCHANGED vars
  BY <1>1 DEF TypeOK, vars, server, view, store, history
<1> QED BY <1>1, AnswerType, ServerType, PageType, ClickType, DialogType, ConfirmType,
           ElsewhereType DEF Next

-----------------------------------------------------------------------------
(* What the actions do to the requests                                     *)

Adds(what, payload, on) ==
    \E n \in Request :
        /\ requests' = requests \cup {n}
        /\ n.what = what /\ n.at = "sent" /\ n.live
        /\ n.payload = payload /\ n.on = on

LEMMA SendAdds ==
    ASSUME NEW what \in Whats, NEW payload \in Doc, NEW on \in SUBSET Observations,
           Send(NewRequest(what, payload, on))
    PROVE  Adds(what, payload, on)
  BY NewFields DEF Send, Adds

Turns(r, what, at) ==
    \E s \in Request :
        /\ requests' = (requests \ {r}) \cup {s}
        /\ s.what = what /\ s.at = at /\ s.live = r.live /\ s.on = r.on
        /\ what \in Storing => s.payload = r.payload
        /\ what = "load" => s.payload = stored /\ s.got = status

LEMMA ServeTurns ==
    ASSUME TypeOK, NEW r \in requests, Serve(r), r.what # "refresh"
    PROVE  Turns(r, r.what, "ok")
<1>0. r \in Request /\ stored \in Doc /\ status \in Statuses
  BY DEF TypeOK
<1>1. CASE r.what = "load"
  <2>1. Replace(r, [r EXCEPT !.at = "ok", !.payload = stored, !.got = status])
    BY <1>1 DEF Serve
  <2> DEFINE s == [r EXCEPT !.at = "ok", !.payload = stored, !.got = status]
  <2>2. /\ s \in Request /\ s.what = r.what /\ s.at = "ok" /\ s.live = r.live
        /\ s.on = r.on /\ s.payload = stored /\ s.got = status
    BY <1>0, LoadFields
  <2>3. requests' = (requests \ {r}) \cup {s} /\ "load" \notin Storing
    BY <2>1 DEF Replace, Storing, Saves, ReviewSaves
  <2> HIDE DEF s
  <2> QED BY <1>1, <2>2, <2>3 DEF Turns
<1>2. CASE r.what # "load"
  <2>1. Replace(r, [r EXCEPT !.at = "ok"])
    BY <1>2 DEF Serve
  <2> QED BY <1>0, <1>2, <2>1, OkFields DEF Replace, Turns, Like
<1> QED BY <1>1, <1>2

LEMMA AnswerTurns ==
    ASSUME TypeOK, NEW r \in requests
    PROVE  /\ SubmitSaved(r) => Turns(r, "toPreview", "sent")
           /\ InsertSaved(r) => Turns(r, "inserted", "sent")
<1> USE DEF Storing, Saves, ReviewSaves
<1>0. r \in Request
  BY DEF TypeOK
<1>1. ASSUME SubmitSaved(r) PROVE Turns(r, "toPreview", "sent")
  <2>1. Replace(r, [r EXCEPT !.what = "toPreview", !.at = "sent"])
    BY <1>1 DEF SubmitSaved
  <2> QED BY <1>0, <2>1, ReviewFields DEF Replace, Turns, Like
<1>2. ASSUME InsertSaved(r) PROVE Turns(r, "inserted", "sent")
  <2>1. Replace(r, [r EXCEPT !.what = "inserted", !.at = "sent", !.payload = EMPTY_STATE])
    BY <1>2 DEF InsertSaved
  <2> QED BY <1>0, <2>1, ResolveFields DEF Replace, Turns
<1> QED BY <1>1, <1>2

LEMMA LeaveKills ==
    ASSUME TypeOK, Leave, NEW s \in requests'
    PROVE  /\ ~ s.live /\ s.what # "load"
           /\ \E r \in requests : s.what = r.what /\ s.at = r.at /\ Like(s, r)
<1>1. PICK r \in requests \ Unanswered({"load"}) : s = [r EXCEPT !.live = FALSE]
  BY DEF Leave
<1>2. r \in Request /\ r.what # "load"
  BY DEF TypeOK, Unanswered
<1> QED BY <1>1, <1>2, DeadFields

\* Clicks add a request of an open page.
LEMMA ClickAdds ==
    ASSUME TypeOK, Click
    PROVE  /\ page = "open" /\ page' = page /\ local' = local /\ status' = status
           /\ stored' = stored /\ obs' = obs /\ baseline' = baseline
           /\ \E n \in Request :
                /\ requests' = requests \cup {n}
                /\ n.what # "load" /\ n.at = "sent" /\ n.live
                /\ \/ SaveDraft /\ n.what = "saveDraft" /\ n.payload = doc
                   \/ EnterEditMode /\ n.what = "enter"
                   \/ Publish /\ n.what = "publish"
                   \/ RefreshReviewPdf /\ n.what = "refresh" /\ n.payload = doc
                   \/ \E what \in {"return", "cancel"} : Move(what) /\ n.what = what
                   \/ \E o \in Observations : Resolve(o) /\ n.what = "resolved"
<1>0. doc \in Doc /\ {} \in SUBSET Observations /\ EMPTY_STATE \in Doc
  BY EmptyDoc DEF TypeOK
<1> USE DEF Whats, Storing, Saves, ReviewSaves, Verdicts
<1>1. CASE SaveDraft
  <2>1. Adds("saveDraft", doc, {})
    BY <1>0, <1>1, SendAdds DEF SaveDraft, Ask
  <2> QED BY <1>1, <2>1 DEF SaveDraft, Adds, server, view, store
<1>3. CASE EnterEditMode
  <2>1. Adds("enter", EMPTY_STATE, {})
    BY <1>0, <1>3, SendAdds, Names DEF EnterEditMode, Ask
  <2> QED BY <1>3, <2>1 DEF EnterEditMode, Adds, server, view, store
<1>4. CASE Publish
  <2>1. Adds("publish", EMPTY_STATE, {})
    BY <1>0, <1>4, SendAdds, Names DEF Publish, Ask
  <2> QED BY <1>4, <2>1 DEF Publish, Adds, server, view, store
<1>5. CASE RefreshReviewPdf
  <2>1. Adds("refresh", doc, {})
    BY <1>0, <1>5, SendAdds DEF RefreshReviewPdf
  <2> QED BY <1>5, <2>1 DEF RefreshReviewPdf, Adds, server, view, store
<1>6. CASE \E what \in {"return", "cancel"} : Move(what)
  <2>1. PICK what \in {"return", "cancel"} : Move(what)
    BY <1>6
  <2>2. Adds(what, EMPTY_STATE, {})
    BY <1>0, <2>1, SendAdds, Names DEF Move, Ask
  <2> QED BY <2>1, <2>2 DEF Move, Adds, server, view, store
<1>8. CASE \E o \in Observations : Resolve(o)
  <2>1. PICK o \in Observations : Resolve(o)
    BY <1>8
  <2>2. Adds("resolved", EMPTY_STATE, {o})
    BY <1>0, <2>1, SendAdds DEF Resolve
  <2> QED BY <2>1, <2>2 DEF Resolve, Adds, server, view, store
<1> QED BY <1>1, <1>3, <1>4, <1>5, <1>6, <1>8 DEF Click

\* A dialog opens.
LEMMA DialogAdds ==
    ASSUME TypeOK, Dialog
    PROVE  /\ page = "open" /\ UNCHANGED <<server, view, store, diverged, dropped>>
           /\ \E n \in Request :
                /\ requests' = requests \cup {n}
                /\ n.what \in Dialogs /\ n.at = "sent" /\ n.live
                /\ \/ SaveAndReview /\ n.what = "reviewDialog"
                   \/ n.what # "reviewDialog" /\ moved' = moved
<1>1. ASSUME NEW what \in Dialogs, NEW on \in SUBSET Observations, Offer(what, on)
      PROVE  page = "open" /\ Adds(what, EMPTY_STATE, on)
  BY <1>1, SendAdds, EmptyDoc DEF Offer, Whats
<1>2. CASE SaveAndReview
  BY <1>1, <1>2 DEF SaveAndReview, Adds, Dialogs
<1>3. CASE OpenEntry
  BY <1>1, <1>3 DEF OpenEntry, Adds, Dialogs, history
<1>4. CASE handleRollback
  BY <1>1, <1>4 DEF handleRollback, Adds, Dialogs, history
<1>5. CASE \E o \in Observations : Insert(o)
  <2>1. PICK o \in Observations : Insert(o)
    BY <1>5
  <2>2. page = "open" /\ Adds("insertDialog", EMPTY_STATE, {o})
    BY <1>1, <2>1 DEF Insert, Dialogs
  <2> QED BY <2>1, <2>2 DEF Insert, Adds, Dialogs, history
<1> QED BY <1>2, <1>3, <1>4, <1>5 DEF Dialog

\* A dialog is closed, with or without a change of the document, or sends what it was for.
Closed(r) ==
    /\ requests' = requests \ {r} /\ moved' = moved
    /\ \/ UNCHANGED <<store, diverged, dropped>>
       \/ /\ ChangeDoc(doc')
          /\ doc' = baseline \/ isDirty' = TRUE
          /\ ~ dropped' => ~ dropped /\ doc.notes \subseteq doc'.notes

ReviewSent(r, s) ==
    /\ ConfirmReview(r) /\ r.what = "reviewDialog" /\ doc' = doc
    /\ requests' = (requests \ {r}) \cup {s}
    /\ s.what = "submitSave" /\ s.at = "sent" /\ s.live = r.live
    /\ s.payload = doc'

InsertSent(r, s) ==
    /\ ConfirmInsert(r) /\ r.what = "insertDialog" /\ moved' = moved
    /\ doc.notes \subseteq doc'.notes
    /\ requests' \in {requests \cup {s}, (requests \ {r}) \cup {s}}
    /\ s.what = "insertSave" /\ s.at = "sent" /\ s.live = r.live
    /\ s.payload = doc' /\ s.on = r.on

LEMMA ConfirmTurns ==
    ASSUME TypeOK, Mounted, NEW r \in requests, Confirm(r)
    PROVE  /\ r.what \in Dialogs /\ UNCHANGED <<server, view, baseline>>
           /\ Closed(r) \/ \E s \in Request : ReviewSent(r, s) \/ InsertSent(r, s)
<1>0. r \in Request /\ doc \in Doc
  BY DEF TypeOK
<1> USE DEF Dialogs
<1>1. ASSUME NEW t \in Texts, LateEdit(r, t) PROVE doc.notes \subseteq doc'.notes
  BY <1>1 DEF LateEdit, ChangeDoc, TypeOK, Doc
<1>2. CASE \/ \E t \in Texts : LateEdit(r, t)
           \/ rollbackToSnapshot(r) \/ CloseDialog(r)
  <2>1. requests' = requests \ {r} /\ moved' = moved /\ r.what \in Dialogs
        /\ UNCHANGED <<server, view, baseline>>
    BY <1>2 DEF LateEdit, rollbackToSnapshot, CloseDialog, Forget, history, store
  <2>2. \/ UNCHANGED <<store, diverged, dropped>>
        \/ /\ ChangeDoc(doc')
           /\ doc' = baseline \/ isDirty' = TRUE
           /\ ~ dropped' => ~ dropped /\ doc.notes \subseteq doc'.notes
    <3>1. CASE \E t \in Texts : LateEdit(r, t)
      BY <1>1, <3>1 DEF LateEdit, ChangeDoc
    <3>2. CASE rollbackToSnapshot(r)
      BY <3>2 DEF rollbackToSnapshot, ChangeDoc
    <3>3. CASE CloseDialog(r)
      BY <3>3 DEF CloseDialog, history
    <3> QED BY <1>2, <3>1, <3>2, <3>3
  <2> QED BY <2>1, <2>2 DEF Closed
<1>3. CASE ConfirmReview(r)
  <2> DEFINE s == [r EXCEPT !.what = "submitSave", !.payload = doc]
  <2>1. /\ s \in Request /\ s.what = "submitSave" /\ s.at = r.at /\ s.live = r.live
        /\ s.payload = doc
    BY <1>0, SubmitFields
  <2>2. /\ requests' = (requests \ {r}) \cup {s} /\ r.what = "reviewDialog"
        /\ UNCHANGED <<server, view, store>>
    BY <1>3 DEF ConfirmReview, Replace
  <2>3. r.at = "sent"
    BY <2>2 DEF Mounted
  <2> HIDE DEF s
  <2>4. ReviewSent(r, s)
    BY <1>3, <2>1, <2>2, <2>3 DEF store, ReviewSent
  <2> QED BY <2>1, <2>2, <2>4 DEF store
<1>4. CASE ConfirmInsert(r)
  <2>1. PICK d \in insertObservationIntoScope(r) :
           /\ doc' = d
           /\ SendFrom(r, [NewRequest("insertSave", d, r.on) EXCEPT !.live = r.live])
    BY <1>4 DEF ConfirmInsert
  <2> DEFINE s == [NewRequest("insertSave", d, r.on) EXCEPT !.live = r.live]
  <2>2. d \in Doc /\ doc.notes \subseteq d.notes
    BY InsertType
  <2>3. /\ s \in Request /\ s.what = "insertSave" /\ s.at = "sent" /\ s.live = r.live
        /\ s.payload = d /\ s.on = r.on
    BY <1>0, <2>2, InsertFields
  <2>4. requests' \in {requests \cup {s}, (requests \ {r}) \cup {s}}
    BY <2>1 DEF SendFrom, Send, Replace
  <2>5. r.what = "insertDialog" /\ moved' = moved /\ UNCHANGED <<server, view, baseline>>
    BY <1>4 DEF ConfirmInsert
  <2> HIDE DEF s
  <2>6. InsertSent(r, s)
    BY <1>4, <2>1, <2>2, <2>3, <2>4, <2>5 DEF InsertSent
  <2> QED BY <2>3, <2>5, <2>6
<1> QED BY <1>2, <1>3, <1>4 DEF Confirm

\* The answer of a move or of a verdict may close the dialog.
LEMMA AnswerCloses ==
    ASSUME NEW r \in requests, closeAll(r) \/ Forget(r)
    PROVE  /\ requests' \subseteq requests \ {r}
           /\ \A q \in requests \ {r} : q.what \notin Dialogs => q \in requests'
  BY DEF closeAll, Forget, Unanswered

\* A request fails; the dialog of a review is open again.
LEMMA FailureTurns ==
    ASSUME TypeOK, NEW r \in requests, Failed(r)
    PROVE  \/ requests' = requests \ {r} /\ r.what \notin Submission
           \/ /\ r.what \in Submission
              /\ \E s \in Request :
                   /\ requests' = (requests \ {r}) \cup {s}
                   /\ s.what = "reviewDialog" /\ s.at = "sent" /\ s.live = r.live
<1>1. r \in Request
  BY DEF TypeOK
<1>2. CASE r.what \notin Submission
  BY <1>2 DEF Failed, Forget
<1>3. CASE r.what \in Submission
  <2> DEFINE s == [r EXCEPT !.what = "reviewDialog", !.at = "sent", !.payload = EMPTY_STATE]
  <2>1. s \in Request /\ s.what = "reviewDialog" /\ s.at = "sent" /\ s.live = r.live
    BY <1>1, ReopenFields
  <2>2. requests' = (requests \ {r}) \cup {s}
    BY <1>3 DEF Failed, Replace
  <2> HIDE DEF s
  <2> QED BY <1>3, <2>1, <2>2
<1> QED BY <1>2, <1>3

LEMMA OpenAdds == ASSUME TypeOK, Open PROVE Adds("load", EMPTY_STATE, {})
<1>1. "load" \in Whats /\ EMPTY_STATE \in Doc /\ {} \in SUBSET Observations
  BY EmptyDoc DEF Whats
<1> QED BY <1>1, SendAdds DEF Open

LEMMA MountedStep == TypeOK /\ Mounted /\ [Next]_vars => Mounted'
<1> SUFFICES ASSUME TypeOK, Mounted, [Next]_vars PROVE Mounted'
  OBVIOUS
<1> USE DEF Dialogs, Verdicts, Submission
<1>1. CASE Page
  <2>1. CASE Open
    <3>1. PICK n \in Request : requests' = requests \cup {n} /\ n.what = "load" /\ n.live
      BY <2>1, OpenAdds DEF Adds
    <3> QED BY <2>1, <3>1 DEF Open, Mounted
  <2>2. CASE Leave
    BY <2>2, LeaveKills DEF Mounted
  <2>3. CASE UNCHANGED <<page, requests>>
    BY <2>3 DEF Mounted
  <2> QED BY <1>1, <2>1, <2>2, <2>3 DEF Page, ListObservations, Edit, Hydrate, DeleteInsertion, view
<1>2. CASE Click \/ Dialog
  <2>1. PICK n \in Request : requests' = requests \cup {n} /\ n.what # "load" /\ page' = "open"
                             /\ page = "open" /\ n.at = "sent"
    BY <1>2, ClickAdds, DialogAdds DEF view
  <2> QED BY <2>1 DEF Mounted
<1>6. ASSUME NEW r \in requests, Confirm(r) PROVE Mounted'
  <2>1. page' = page /\ r.what \in Dialogs
    BY <1>6, ConfirmTurns DEF view
  <2>2. CASE Closed(r)
    BY <2>1, <2>2 DEF Closed, Mounted
  <2>3. ASSUME NEW s, ReviewSent(r, s) \/ InsertSent(r, s) PROVE Mounted'
    <3>1. /\ requests' \in {requests \cup {s}, (requests \ {r}) \cup {s}}
          /\ s.what \in {"submitSave", "insertSave"} /\ s.live = r.live
      BY <2>3 DEF ReviewSent, InsertSent
    <3> QED BY <2>1, <3>1 DEF Mounted
  <2> QED BY <1>6, <2>2, <2>3, ConfirmTurns
<1>3. ASSUME NEW r \in requests, Answer(r) PROVE Mounted'
  <2>1. CASE SubmitSaved(r) \/ InsertSaved(r)
    <3>1. PICK s \in Request : /\ requests' = (requests \ {r}) \cup {s}
                               /\ s.what \in {"toPreview", "inserted"} /\ s.live = r.live
      BY <2>1, AnswerTurns DEF Turns
    <3>2. r.what # "load" /\ page' = page
      BY <2>1 DEF SubmitSaved, InsertSaved, view
    <3> QED BY <3>1, <3>2 DEF Mounted
  <2>2. CASE Loaded(r)
    BY <2>2 DEF Loaded, Forget, Mounted
  <2>3. CASE (closeAll(r) \/ Forget(r)) /\ page' = page
    BY <2>3, AnswerCloses DEF Mounted
  <2> QED BY <1>3, <2>1, <2>2, <2>3 DEF Answer, DraftSaved, Submitted, Moved, Resolved
<1>4. ASSUME NEW r \in requests, Server(r) PROVE Mounted'
  <2>1. CASE Serve(r) /\ r.what # "refresh"
    <3>1. PICK s \in Request : /\ requests' = (requests \ {r}) \cup {s}
                               /\ s.what = r.what /\ s.live = r.live
      BY <2>1, ServeTurns DEF Turns
    <3> QED BY <1>4, <2>1, <3>1 DEF Server, Serve, view, Mounted
  <2>2. CASE Serve(r) /\ r.what = "refresh"
    BY <2>2 DEF Serve, Forget, view, Mounted
  <2>3. CASE Refuse(r) \/ LoseAnswer(r)
    <3>1. Failed(r) /\ (r.what # "load" => page' = page)
      BY <2>3 DEF Refuse, LoseAnswer, Failed
    <3>2. CASE requests' = requests \ {r}
      BY <3>1, <3>2 DEF Mounted
    <3>3. ASSUME NEW s, r.what \in Submission, requests' = (requests \ {r}) \cup {s},
                 s.what = "reviewDialog", s.at = "sent", s.live = r.live
          PROVE  Mounted'
      BY <3>1, <3>3 DEF Mounted
    <3> QED BY <3>1, <3>2, <3>3, FailureTurns
  <2> QED BY <1>4, <2>1, <2>2, <2>3 DEF Server
<1>5. CASE Elsewhere \/ UNCHANGED vars
  BY <1>5 DEF Elsewhere, OthersSave, OthersMove, OthersResolve, GuestObserves, GuestWithdraws,
     vars, view, Mounted
<1> QED BY <1>1, <1>2, <1>3, <1>4, <1>5, <1>6 DEF Next

-----------------------------------------------------------------------------
(* The status the page shows                                               *)

LEMMA TableFacts ==
    /\ "pending" \in VALID_TRANSITIONS["ready-for-edit"]
    /\ "preview" \in VALID_TRANSITIONS["pending"]
    /\ "pending" \in VALID_TRANSITIONS["preview"]
    /\ "completed" \in VALID_TRANSITIONS["preview"]
    /\ \A s \in {"ready-for-edit", "pending", "preview", "in-progress"} :
          "cancelled" \in VALID_TRANSITIONS[s]
    /\ \A s \in Statuses : "preview" \in VALID_TRANSITIONS[s] => s = "pending"
  BY DEF VALID_TRANSITIONS, Statuses, Failures, Editable, WithContent, Terminal

\* Requests less, and maybe one more that moves nothing.
LEMMA MoveQuiet ==
    ASSUME Shown, UNCHANGED <<status, local>>, page' = "open" => page = "open",
           \A r \in requests' : \/ r \in requests
                                \/ r.what \in ReviewSaves \cup Verdicts \cup (Dialogs \ Submits),
           \A r \in requests : Arrived(r) /\ page' = "open" => r \in requests'
    PROVE  Shown'
<1> USE Names DEF Moving, Arrived, ServedLoad, Saves, ReviewSaves, Verdicts, Submits, Dialogs
<1>1. \A r \in requests' : ServedLoad(r) => r.got = status'
  BY DEF Shown
<1>2. \A q, r \in requests' : Moving(r) /\ q.what \in Saves \cup Moves \cup Submits => q = r
  BY DEF Shown
<1>3. \A r \in requests' : Arrived(r) => status' = Target[r.what]
  BY DEF Shown
<1>4. page' = "open" /\ (\A r \in requests' : ~ Arrived(r)) => local' = status'
  BY DEF Shown
<1>5. \A r \in requests' : r.live =>
         /\ r.what \in Submits \/ (r.what = "saveDraft" /\ r.at = "sent") => status' = "pending"
         /\ r.what \in Moves /\ r.at = "sent" => Target[r.what] \in VALID_TRANSITIONS[status']
  BY DEF Shown
<1> QED BY <1>1, <1>2, <1>3, <1>4, <1>5 DEF Shown

LEMMA MoveClick == ASSUME TypeOK, Mounted, MoveLine, Click \/ Dialog, ~ moved' PROVE Shown'
<1> USE Names, TableFacts DEF Saves, Submits, Dialogs
<1>1. PICK n \in Request :
         /\ requests' = requests \cup {n}
         /\ n.what # "load" /\ n.at = "sent" /\ n.live
         /\ \/ SaveDraft /\ n.what = "saveDraft"
            \/ SaveAndReview /\ n.what = "reviewDialog"
            \/ EnterEditMode /\ n.what = "enter"
            \/ Publish /\ n.what = "publish"
            \/ n.what \in ReviewSaves \cup Verdicts \cup (Dialogs \ Submits) /\ moved' = moved
            \/ \E what \in {"return", "cancel"} : Move(what) /\ n.what = what
  BY ClickAdds, DialogAdds DEF RefreshReviewPdf, Resolve, history, ReviewSaves, Verdicts
<1>2. page = "open" /\ page' = page /\ local' = local /\ status' = status
  BY ClickAdds, DialogAdds DEF view, server
<1>3. CASE n.what \in ReviewSaves \cup Verdicts \cup (Dialogs \ Submits)
  <2>1. moved' = moved
    BY <1>1, <1>3 DEF ReviewSaves, Verdicts
  <2> QED BY <1>1, <1>2, <1>3, <2>1, MoveQuiet DEF MoveLine
<1>4. CASE n.what \in {"saveDraft", "reviewDialog"} \cup Moves
  <2>1. /\ ~ moved /\ ~ Crosses(n.what)
        /\ n.what \in Saves \cup Submits => local = "pending"
        /\ n.what \in Moves => Target[n.what] \in VALID_TRANSITIONS[local]
    BY <1>1, <1>4 DEF SaveDraft, SaveAndReview, EnterEditMode, Publish, Move, Ask, ReviewSaves, Verdicts
  <2>2. \A q \in requests :
           ~ Arrived(q) /\ (Moving(n) \/ Moving(q) => q.what \notin Saves \cup Moves \cup Submits)
    BY <1>1, <1>4, <2>1 DEF Crosses, Arrived, Moving
  <2>3. Shown /\ local = status
    BY <1>2, <2>1, <2>2 DEF MoveLine, Shown
  <2>4. \A q, r \in requests' : Moving(r) /\ q.what \in Saves \cup Moves \cup Submits => q = r
    BY <1>1, <1>4, <2>2, <2>3 DEF Shown, Moving
  <2> QED BY <1>1, <1>2, <1>4, <2>1, <2>2, <2>3, <2>4 DEF Shown, Arrived, ServedLoad
<1> QED BY <1>1, <1>3, <1>4

LEMMA MoveAnswer ==
    ASSUME TypeOK, Mounted, MoveLine, NEW r \in requests, Answer(r), ~ moved'
    PROVE  Shown'
<1> USE Names DEF Saves, Submits, Dialogs
<1>0. Shown /\ status' = status
  BY DEF MoveLine, Answer, Loaded, DraftSaved, SubmitSaved, Submitted, Moved, InsertSaved,
         Resolved, history, server
<1>1. CASE Loaded(r)
  <2>1. r.got = status /\ local' = r.got /\ requests' = requests \ {r} /\ r.what = "load"
    BY <1>0, <1>1 DEF Shown, Loaded, ServedLoad, Forget
  <2>2. \A q \in requests' : ~ q.live /\ q.what # "load"
    BY <1>1, <2>1 DEF Mounted, Loaded
  <2> QED BY <1>0, <2>1, <2>2 DEF Shown, ServedLoad, Moving, Arrived
<1>2. CASE DraftSaved(r) \/ Resolved(r)
  <2>1. UNCHANGED <<status, local, page>> /\ ~ Arrived(r) /\ (closeAll(r) \/ Forget(r))
    BY <1>2 DEF DraftSaved, Resolved, Arrived, server, Verdicts
  <2> QED BY <1>0, <2>1, MoveQuiet, AnswerCloses DEF Arrived
<1>3. CASE InsertSaved(r)
  <2>1. PICK s \in Request : requests' = (requests \ {r}) \cup {s} /\ s.what = "inserted"
    BY <1>3, AnswerTurns DEF Turns
  <2>2. UNCHANGED <<status, local, page>> /\ ~ Arrived(r)
    BY <1>3 DEF InsertSaved, server, view, Arrived
  <2> QED BY <1>0, <2>1, <2>2, MoveQuiet DEF Verdicts
<1>4. CASE SubmitSaved(r)
  <2>1. PICK s \in Request : /\ requests' = (requests \ {r}) \cup {s}
                             /\ s.what = "toPreview" /\ s.at = "sent" /\ s.live = r.live
    BY <1>4, AnswerTurns DEF Turns
  <2>2. UNCHANGED <<status, local, page>> /\ r.what = "submitSave"
    BY <1>4 DEF SubmitSaved, server, view
  <2>3. r.live => /\ status = "pending"
                  /\ \A q \in requests \ {r} : q.what \notin Saves \cup Moves \cup Submits
    BY <1>0, <2>2 DEF Shown, Moving
  <2>4. \A p, q \in requests' : Moving(q) /\ p.what \in Saves \cup Moves \cup Submits => p = q
    <3> SUFFICES ASSUME NEW p \in requests', NEW q \in requests', Moving(q),
                        p.what \in Saves \cup Moves \cup Submits
                 PROVE  p = q
      OBVIOUS
    <3>1. CASE q = s
      BY <2>1, <2>3, <3>1 DEF Moving
    <3>2. CASE q # s
      <4>1. q \in requests /\ q # r
        BY <2>1, <3>2
      <4>2. r = q
        BY <1>0, <2>2, <4>1 DEF Shown, Moving
      <4> QED BY <4>1, <4>2
    <3> QED BY <3>1, <3>2
  <2> QED BY <1>0, <2>1, <2>2, <2>3, <2>4, TableFacts DEF Shown, ServedLoad, Arrived
<1>5. CASE Submitted(r) \/ Moved(r)
  <2>1. /\ page' = page /\ r.what \in Moves
        /\ local' = IF r.live THEN Target[r.what] ELSE local
        /\ requests' \subseteq requests \ {r}
        /\ \A q \in requests \ {r} : q.what \notin Dialogs => q \in requests'
    BY <1>5, AnswerCloses DEF Submitted, Moved
  <2>2. CASE r.live
    <3>1. status = Target[r.what] /\ Arrived(r)
      BY <1>0, <1>5, <2>1, <2>2 DEF Shown, Arrived, Submitted, Moved
    <3> QED BY <1>0, <2>1, <2>2, <3>1 DEF Shown, ServedLoad, Moving, Arrived
  <2>3. CASE ~ r.live
    <3>1. UNCHANGED <<status, local, page>> /\ ~ Arrived(r)
      BY <1>0, <2>1, <2>3 DEF Arrived
    <3> QED BY <1>0, <2>1, <3>1, MoveQuiet DEF Arrived
  <2> QED BY <2>2, <2>3
<1> QED BY <1>1, <1>2, <1>3, <1>4, <1>5 DEF Answer

LEMMA MoveServe ==
    ASSUME TypeOK, Mounted, MoveLine, NEW r \in requests, Serve(r), r.what \notin Dialogs, ~ moved'
    PROVE  Shown'
<1> USE Names DEF Saves, Submits, Dialogs
<1>0. /\ UNCHANGED <<page, local>> /\ r \in Request
      /\ status' = IF r.what \in Moves THEN Target[r.what] ELSE status
  BY DEF Serve, Effect, view, TypeOK
<1>1. CASE r.what = "load"
  <2>1. PICK s \in Request : /\ requests' = (requests \ {r}) \cup {s} /\ s.what = "load"
                             /\ s.at = "ok" /\ s.got = status
    BY <1>1, ServeTurns DEF Turns
  <2>2. page = "loading" /\ status' = status
    BY <1>0, <1>1 DEF Mounted
  <2>3. \A q \in requests' : q = s \/ (~ q.live /\ q.what # "load")
    BY <1>1, <2>1, <2>2 DEF Mounted
  <2> QED BY <1>0, <2>1, <2>2, <2>3 DEF Shown, ServedLoad, Moving, Arrived
<1>2. CASE r.what = "refresh"
  <2>1. requests' = requests \ {r} /\ status' = status /\ ~ moved /\ ~ Arrived(r)
    BY <1>0, <1>2 DEF Serve, Forget, Compare, Arrived
  <2> QED BY <1>0, <2>1, MoveQuiet DEF MoveLine
<1>3. CASE r.what \in Moves
  <2>1. PICK s \in Request : /\ requests' = (requests \ {r}) \cup {s} /\ s.what = r.what
                             /\ s.at = "ok" /\ s.live = r.live
    BY <1>3, ServeTurns DEF Turns
  <2>2. Shown /\ r.live
    BY <1>3 DEF Serve, Compare, MoveLine
  <2>3. /\ page = "open"
        /\ \A q \in requests \ {r} : q.what \notin Saves \cup Moves \cup Submits \cup {"load"}
    BY <1>3, <2>2 DEF Mounted, Shown, Moving
  <2> QED BY <1>0, <1>3, <2>1, <2>2, <2>3 DEF Shown, ServedLoad, Moving, Arrived
<1>4. CASE r.what \notin Moves \cup {"load", "refresh"}
  <2>1. PICK s \in Request : /\ requests' = (requests \ {r}) \cup {s} /\ s.what = r.what
                             /\ s.at = "ok" /\ s.live = r.live
    BY <1>4, ServeTurns DEF Turns
  <2>2. Shown /\ status' = status
    BY <1>0, <1>4 DEF Serve, Compare, MoveLine
  <2>3. \A p, q \in requests' : Moving(q) /\ p.what \in Saves \cup Moves \cup Submits => p = q
    <3> SUFFICES ASSUME NEW p \in requests', NEW q \in requests', Moving(q),
                        p.what \in Saves \cup Moves \cup Submits, p # q
                 PROVE  FALSE
      OBVIOUS
    <3>1. PICK p0 \in requests : p0.what = p.what /\ (p0 = p \/ (p0 = r /\ p = s))
      BY <2>1
    <3>2. PICK q0 \in requests : q0.what = q.what /\ q0.live = q.live /\ (q0 = q \/ (q0 = r /\ q = s))
      BY <2>1
    <3>3. p0 = q0
      BY <2>2, <3>1, <3>2 DEF Shown, Moving
    <3>4. p \in {r, s} /\ q \in {r, s}
      BY <3>1, <3>2, <3>3
    <3> QED BY <2>1, <3>4
  <2> QED BY <1>0, <1>4, <2>1, <2>2, <2>3 DEF Shown, ServedLoad, Arrived
<1> QED BY <1>1, <1>2, <1>3, <1>4

\* One request takes the place of another, and moves the record no more than it did.
LEMMA MoveTurn ==
    ASSUME Shown, UNCHANGED <<status, local, page>>, NEW r \in requests, NEW s,
           requests' = (requests \ {r}) \cup {s}, s.live = r.live, s.at = "sent",
           r.what \in Submits \cup Submission, s.what \in Submits, r.live => status = "pending",
           ~ Arrived(r)
    PROVE  Shown'
<1> USE Names DEF Saves, Submits, Submission
<1>1. \A p, q \in requests' : Moving(q) /\ p.what \in Saves \cup Moves \cup Submits => p = q
  <2> SUFFICES ASSUME NEW p \in requests', NEW q \in requests', Moving(q),
                      p.what \in Saves \cup Moves \cup Submits, p # q
               PROVE  FALSE
    OBVIOUS
  <2>1. CASE p # s /\ q # s
    BY <2>1 DEF Shown
  <2>2. CASE p = s
    <3>1. q \in requests /\ q # r /\ r = q
      BY <2>2 DEF Shown
    <3> QED BY <3>1
  <2>3. CASE q = s
    <3>1. p \in requests /\ p # r /\ Moving(r)
      BY <2>3 DEF Moving
    <3> QED BY <3>1 DEF Shown
  <2> QED BY <2>1, <2>2, <2>3
<1> QED BY <1>1 DEF Shown, ServedLoad, Arrived

LEMMA MoveConfirm ==
    ASSUME TypeOK, Mounted, MoveLine, NEW r \in requests, Confirm(r), ~ moved'
    PROVE  Shown'
<1> USE Names DEF Saves, Submits, Dialogs
<1>1. UNCHANGED <<status, local, page>> /\ r.what \in Dialogs /\ ~ Arrived(r)
  BY ConfirmTurns DEF server, view, Arrived
<1>2. CASE Closed(r)
  BY <1>1, <1>2, MoveQuiet DEF MoveLine, Closed
<1>3. ASSUME NEW s, ReviewSent(r, s) PROVE Shown'
  <2>1. Shown /\ r.live /\ r.what = "reviewDialog"
    BY <1>3 DEF ReviewSent, ConfirmReview, MoveLine
  <2>2. status = "pending"
    BY <2>1 DEF Shown
  <2> QED BY <1>1, <1>3, <2>1, <2>2, MoveTurn DEF ReviewSent
<1>4. ASSUME NEW s, InsertSent(r, s) PROVE Shown'
  BY <1>1, <1>4, MoveQuiet DEF MoveLine, ReviewSaves, InsertSent
<1> QED BY <1>2, <1>3, <1>4, ConfirmTurns

LEMMA MoveFailure ==
    ASSUME TypeOK, MoveLine, NEW r \in requests, r.what \notin Dialogs, Refuse(r) \/ LoseAnswer(r),
           ~ moved'
    PROVE  Shown'
<1> USE Names DEF Saves, Submits, Dialogs, Submission
<1>1. /\ UNCHANGED <<status, local>> /\ Shown /\ r.at = "sent" /\ Failed(r)
      /\ page' = page \/ (page' = "error" /\ r.what = "load")
  BY DEF Refuse, LoseAnswer, Failed, Effect, server, MoveLine
<1>2. CASE requests' = requests \ {r}
  BY <1>1, <1>2, MoveQuiet DEF Arrived
<1>3. ASSUME r.what \in Submission, NEW s, requests' = (requests \ {r}) \cup {s},
             s.what = "reviewDialog", s.at = "sent", s.live = r.live
      PROVE  Shown'
  <2>1. r.live => status = "pending"
    BY <1>1, <1>3, TableFacts DEF Shown, TypeOK
  <2>2. UNCHANGED <<status, local, page>> /\ ~ Arrived(r)
    BY <1>1, <1>3 DEF Arrived
  <2> QED BY <1>1, <1>3, <2>1, <2>2, MoveTurn
<1> QED BY <1>1, <1>2, <1>3, FailureTurns

LEMMA MoveStep == TypeOK /\ Mounted /\ MoveLine /\ [Next]_vars => MoveLine'
<1> SUFFICES ASSUME TypeOK, Mounted, MoveLine, [Next]_vars, ~ moved' PROVE Shown'
  BY DEF MoveLine
<1> USE Names DEF Saves, Submits
<1>1. CASE Page
  <2>0. Shown /\ status' = status
    BY <1>1 DEF Page, Open, Leave, ListObservations, Edit, Hydrate, DeleteInsertion, server, history, MoveLine
  <2>1. CASE Open
    <3>1. PICK n \in Request : requests' = requests \cup {n} /\ n.what = "load" /\ n.at = "sent"
      BY <2>1, OpenAdds DEF Adds
    <3>2. page = "closed" /\ page' = "loading" /\ local' = local
      BY <2>1 DEF Open
    <3> QED BY <2>0, <3>1, <3>2 DEF Shown, ServedLoad, Moving, Arrived, Mounted
  <2>2. CASE Leave
    BY <2>0, <2>2, LeaveKills DEF Leave, Shown, ServedLoad, Moving, Arrived
  <2>3. CASE UNCHANGED <<page, local, requests>>
    BY <2>0, <2>3, MoveQuiet
  <2> QED BY <1>1, <2>1, <2>2, <2>3 DEF Page, ListObservations, Edit, Hydrate, DeleteInsertion, view
<1>2. CASE Click \/ Dialog
  BY <1>2, MoveClick
<1>3. ASSUME NEW r \in requests, Answer(r) PROVE Shown'
  BY <1>3, MoveAnswer
<1>5. CASE Elsewhere \/ UNCHANGED vars
  <2>1. UNCHANGED <<status, local, page, requests>> /\ Shown
    BY <1>5 DEF Elsewhere, OthersSave, OthersMove, OthersResolve, GuestObserves, GuestWithdraws,
       vars, server, view, history, MoveLine
  <2> QED BY <2>1, MoveQuiet
<1> QED BY <1>1, <1>2, <1>3, <1>5, MoveServe, MoveConfirm, MoveFailure DEF Next, Server

-----------------------------------------------------------------------------
(* The insertions                                                          *)

\* Nothing is stored or sent to be stored, nothing is secured that was not.
LEMMA HeldQuiet ==
    ASSUME Held, stored' = stored,
           page' = "open" => page = "open" /\ doc.notes \subseteq doc'.notes,
           \A o \in Observations : Secured(o)' => Secured(o),
           \A r \in requests' : r \in requests \/ r.what \notin Storing \cup {"load"}
    PROVE  Held'
<1> USE DEF Store, ServedLoad, Storing, Saves, ReviewSaves
<1>1. ASSUME NEW o \in Observations, Secured(o)'
      PROVE  /\ o \in stored'.notes
             /\ page' = "open" => o \in doc'.notes
             /\ \A r \in requests' : Store(r) \/ ServedLoad(r) => o \in r.payload.notes
  BY <1>1 DEF Held
<1>2. \A r \in requests' : r.what = "insertSave" /\ page' = "open" => r.on \subseteq doc'.notes
  BY DEF Held
<1>3. \A q, r \in requests' : ServedLoad(q) => ~ Store(r)
  BY DEF Held
<1> QED BY <1>1, <1>2, <1>3 DEF Held

\* Fewer requests, and observations inserted as a request said: nothing more is secured.
LEMMA SecuredLess ==
    ASSUME requests' \subseteq requests,
           \A o \in Observations : obs'[o] = "inserted" => Secured(o)
    PROVE  \A o \in Observations : Secured(o)' => Secured(o)
  BY DEF Secured

\* An open page sends one request more, to store its document or nothing.
LEMMA NotesSent ==
    ASSUME Mounted, Held, page = "open", UNCHANGED <<page, stored, obs>>,
           doc.notes \subseteq doc'.notes, NEW n,
           requests' \subseteq requests \cup {n}, n.at = "sent", n.what \notin {"load", "inserted"},
           n.what \in Storing => n.payload = doc',
           n.what = "insertSave" => n.on \subseteq doc'.notes
    PROVE  Held'
<1> USE DEF Storing, Saves, ReviewSaves
<1>1. \A o \in Observations : Secured(o)' => Secured(o)
  BY DEF Secured
<1>2. \A q \in requests' : ~ ServedLoad(q)
  BY DEF Mounted, ServedLoad
<1>3. ASSUME NEW o \in Observations, Secured(o)'
      PROVE  /\ o \in stored'.notes /\ o \in doc'.notes
             /\ \A r \in requests' : Store(r) => o \in r.payload.notes
  BY <1>1, <1>3 DEF Held, Store
<1>4. \A r \in requests' : r.what = "insertSave" => r.on \subseteq doc'.notes
  BY DEF Held
<1> QED BY <1>2, <1>3, <1>4 DEF Held

LEMMA NotesClick == ASSUME TypeOK, Mounted, NotesLine, Click \/ Dialog PROVE NotesLine'
<1> USE DEF Storing, Saves, ReviewSaves, Verdicts, Dialogs
<1>1. PICK n \in Request :
         /\ requests' = requests \cup {n}
         /\ n.what \notin {"load", "inserted", "insertSave"} /\ n.at = "sent" /\ doc' = doc
         /\ n.what \in Storing => n.payload = doc
  BY ClickAdds, DialogAdds, Names
  DEF SaveDraft, EnterEditMode, Publish, RefreshReviewPdf, Move, Resolve, store
<1>2. page = "open" /\ UNCHANGED <<page, stored, obs, dropped>>
  BY ClickAdds, DialogAdds DEF Click, SaveDraft, EnterEditMode, Publish, RefreshReviewPdf,
     Move, Resolve, history, view, server
<1>3. Held => Held'
  BY <1>1, <1>2, NotesSent
<1> QED BY <1>1, <1>2, <1>3 DEF NotesLine

LEMMA NotesConfirm ==
    ASSUME TypeOK, Mounted, NotesLine, NEW r \in requests, Confirm(r)
    PROVE  NotesLine'
<1> USE DEF Storing, Saves, ReviewSaves, Verdicts, Dialogs
<1>1. UNCHANGED <<page, stored, obs>> /\ r.what \in Dialogs
  BY ConfirmTurns DEF view, server
<1>2. CASE Closed(r)
  <2>0. /\ requests' = requests \ {r}
        /\ ~ dropped' => ~ dropped /\ doc.notes \subseteq doc'.notes
    BY <1>2 DEF Closed, store
  <2>1. \A o \in Observations : Secured(o)' => Secured(o)
    BY <1>1, <2>0, SecuredLess DEF Secured
  <2> QED BY <1>1, <2>0, <2>1, HeldQuiet DEF NotesLine
<1>3. ASSUME NEW s, ReviewSent(r, s) PROVE NotesLine'
  <2>1. ~ dropped' => ~ dropped /\ page = "open"
    BY <1>3 DEF ReviewSent, ConfirmReview
  <2>2. Held /\ page = "open" => Held'
    BY <1>1, <1>3, NotesSent DEF ReviewSent
  <2> QED BY <2>1, <2>2 DEF NotesLine
<1>4. ASSUME NEW s, InsertSent(r, s) PROVE NotesLine'
  <2>1. ~ dropped' => ~ dropped /\ page = "open" /\ r.on \subseteq doc'.notes
    BY <1>4 DEF InsertSent, ConfirmInsert
  <2>2. Held /\ page = "open" /\ r.on \subseteq doc'.notes => Held'
    BY <1>1, <1>4, NotesSent DEF InsertSent
  <2> QED BY <2>1, <2>2 DEF NotesLine
<1> QED BY <1>2, <1>3, <1>4, ConfirmTurns

LEMMA NotesAnswer ==
    ASSUME TypeOK, Mounted, NotesLine, NEW r \in requests, Answer(r)
    PROVE  NotesLine'
<1> USE DEF Storing, Saves, ReviewSaves, Verdicts
<1>0. stored' = stored /\ obs' = obs /\ dropped' = dropped
  BY DEF Answer, Loaded, DraftSaved, SubmitSaved, Submitted, Moved, InsertSaved, Resolved,
         history, server
<1>1. CASE Loaded(r)
  <2>1. /\ requests' = requests \ {r} /\ ServedLoad(r)
        /\ page' = "open" => doc' = r.payload
    BY <1>1 DEF Loaded, Forget, ServedLoad, loadFrom
  <2>2. \A o \in Observations : Secured(o)' => Secured(o)
    BY <1>0, <2>1 DEF Secured
  <2>3. ASSUME Held PROVE Held'
    <3>1. \A q \in requests' : ~ Store(q) /\ ~ ServedLoad(q)
      BY <2>1, <2>3 DEF Held, Mounted, ServedLoad
    <3>2. ASSUME NEW q \in requests', q.what = "insertSave", NEW o \in q.on
          PROVE  Secured(o)
      <4>1. q.at = "ok" /\ q \in requests
        BY <2>1, <3>1, <3>2 DEF Store, TypeOK, Request
      <4> QED BY <3>2, <4>1 DEF Secured
    <3>3. \A q \in requests' : q.on \subseteq Observations
      BY <2>1 DEF TypeOK, Request
    <3> QED BY <1>0, <2>1, <2>2, <2>3, <3>1, <3>2, <3>3 DEF Held
  <2> QED BY <1>0, <2>1, <2>3 DEF NotesLine
<1>2. CASE DraftSaved(r) \/ Submitted(r) \/ Moved(r) \/ Resolved(r)
  <2>1. requests' \subseteq requests \ {r} /\ page' = page /\ doc' = doc
    BY <1>2, AnswerCloses DEF DraftSaved, Submitted, Moved, Resolved, TakeSnapshot, store
  <2>2. \A o \in Observations : Secured(o)' => Secured(o)
    BY <1>0, <2>1 DEF Secured
  <2> QED BY <1>0, <2>1, <2>2, HeldQuiet DEF NotesLine
<1>3. CASE SubmitSaved(r) \/ InsertSaved(r)
  <2>1. PICK s \in Request : /\ requests' = (requests \ {r}) \cup {s}
                             /\ s.on = r.on /\ s.what \in {"toPreview", "inserted"}
                             /\ s.what = "inserted" => r.what = "insertSave" /\ r.at = "ok"
    BY <1>3, AnswerTurns DEF Turns, InsertSaved
  <2>2. page' = page /\ doc' = doc
    BY <1>3 DEF SubmitSaved, InsertSaved, view, store
  <2>3. \A o \in Observations : Secured(o)' => Secured(o)
    BY <1>0, <2>1 DEF Secured
  <2> QED BY <1>0, <2>1, <2>2, <2>3, HeldQuiet DEF NotesLine
<1> QED BY <1>1, <1>2, <1>3 DEF Answer

LEMMA NotesServe ==
    ASSUME TypeOK, Mounted, NotesLine, NEW r \in requests, Serve(r)
    PROVE  NotesLine'
<1> USE DEF Storing, Saves, ReviewSaves, Verdicts
<1>0. /\ UNCHANGED <<page, doc>> /\ r \in Request /\ Effect(r) /\ r.at = "sent"
      /\ dropped' = (dropped \/ (r.what \in Storing \cup {"load"} /\ \E q \in requests \ {r} : Store(q)))
  BY DEF Serve, view, store, TypeOK, Compare, Store
<1>1. CASE r.what = "refresh"
  <2>1. requests' = requests \ {r} /\ stored' = r.payload /\ obs' = obs
    BY <1>0, <1>1 DEF Serve, Forget, Effect
  <2>2. \A o \in Observations : Secured(o)' => Secured(o)
    BY <2>1 DEF Secured
  <2>3. ASSUME Held PROVE Held'
    BY <1>0, <1>1, <2>1, <2>2, <2>3 DEF Held, Store
  <2> QED BY <1>0, <2>1, <2>3 DEF NotesLine
<1>2. CASE r.what # "refresh"
  <2>1. PICK s \in Request : /\ requests' = (requests \ {r}) \cup {s} /\ s.what = r.what
                             /\ s.at = "ok" /\ s.on = r.on
                             /\ r.what \in Storing => s.payload = r.payload
                             /\ r.what = "load" => s.payload = stored
    BY <1>2, ServeTurns DEF Turns
  <2>3. ASSUME NEW o \in Observations, Secured(o)'
        PROVE  Secured(o) \/ (r.what = "insertSave" /\ o \in r.on)
    BY <1>0, <2>1, <2>3 DEF Secured, Effect
  <2>4. ASSUME ~ dropped' PROVE Held'
    <3>0. Held
      BY <1>0, <2>4 DEF NotesLine
    <3>1. CASE r.what \in Storing
      <4>1. stored' = r.payload /\ \A q \in requests' : ~ Store(q)
        BY <1>0, <2>1, <2>4, <3>1 DEF Effect, Store
      <4>2. \A q \in requests' : ~ ServedLoad(q)
        BY <1>0, <2>1, <3>0, <3>1 DEF Held, Store, ServedLoad
      <4>3. ASSUME NEW o \in Observations, Secured(o)'
            PROVE  o \in stored'.notes /\ (page' = "open" => o \in doc'.notes)
        BY <1>0, <2>3, <3>0, <3>1, <4>1, <4>3 DEF Held, Store
      <4>4. \A q \in requests' : q.what = "insertSave" =>
               q.on \subseteq q.payload.notes /\ (page' = "open" => q.on \subseteq doc'.notes)
        BY <1>0, <2>1, <3>0 DEF Held
      <4> QED BY <4>1, <4>2, <4>3, <4>4 DEF Held
    <3>2. CASE r.what = "load"
      <4>1. stored' = stored /\ \A q \in requests' : ~ Store(q)
        BY <1>0, <2>1, <2>4, <3>2, Names DEF Effect, Store
      <4>2. page' # "open" /\ \A q \in requests' : ServedLoad(q) => q = s
        BY <1>0, <2>1, <3>2 DEF Mounted, ServedLoad
      <4> QED BY <2>1, <2>3, <3>0, <3>2, <4>1, <4>2 DEF Held
    <3>3. CASE r.what \notin Storing \cup {"load"}
      <4>1. stored' = stored
        BY <1>0, <3>3 DEF Effect
      <4>2. \A o \in Observations : Secured(o)' => Secured(o)
        BY <2>3, <3>3
      <4> QED BY <1>0, <2>1, <3>0, <3>3, <4>1, <4>2, HeldQuiet
    <3> QED BY <3>1, <3>2, <3>3
  <2> QED BY <2>4 DEF NotesLine
<1> QED BY <1>1, <1>2

LEMMA NotesLost ==
    ASSUME TypeOK, NotesLine, NEW r \in requests, Refuse(r) \/ LoseAnswer(r)
    PROVE  NotesLine'
<1> USE DEF Storing, Saves, ReviewSaves, Verdicts
<1>1. /\ \A q \in requests' : q \in requests \ {r} \/ q.what = "reviewDialog"
      /\ doc' = doc /\ r.at = "sent" /\ r \in Request
      /\ page' = page \/ page' = "error"
  <2>1. Failed(r) /\ doc' = doc /\ r.at = "sent" /\ (page' = page \/ page' = "error")
    BY DEF Refuse, LoseAnswer, Failed, store
  <2> QED BY <2>1, FailureTurns DEF TypeOK
<1>2. \A o \in Observations : obs'[o] = "inserted" => Secured(o)
  BY <1>1 DEF Refuse, LoseAnswer, Effect, server, Secured
<1>3. \A o \in Observations : Secured(o)' => Secured(o)
  BY <1>1, <1>2 DEF Secured
<1>4. ASSUME ~ dropped' PROVE Held'
  <2>1. Held
    BY <1>4 DEF NotesLine, Refuse, LoseAnswer
  <2>2. CASE stored' = stored
    BY <1>1, <1>3, <2>1, <2>2, HeldQuiet
  <2>3. CASE stored' # stored
    <3>1. stored' = r.payload /\ Store(r)
      BY <1>1, <2>3 DEF Refuse, LoseAnswer, Effect, server, Store
    <3>2. \A q \in requests' : (Store(q) \/ ServedLoad(q) \/ q.what = "insertSave") => q \in requests
      BY <1>1 DEF Store, ServedLoad
    <3> QED BY <1>1, <1>3, <2>1, <3>1, <3>2 DEF Held
  <2> QED BY <2>2, <2>3
<1> QED BY <1>1, <1>4 DEF NotesLine

LEMMA NotesStep == TypeOK /\ Mounted /\ NotesLine /\ [Next]_vars => NotesLine'
<1> SUFFICES ASSUME TypeOK, Mounted, NotesLine, [Next]_vars PROVE NotesLine'
  OBVIOUS
<1> USE DEF Storing, Saves, ReviewSaves, Verdicts
<1>1. CASE Page
  <2>0. stored' = stored /\ obs' = obs
    BY <1>1 DEF Page, Open, Leave, ListObservations, Edit, Hydrate, DeleteInsertion, server
  <2>1. CASE Open
    <3>1. PICK n \in Request : requests' = requests \cup {n} /\ n.what = "load" /\ n.at = "sent"
      BY <2>1, OpenAdds DEF Adds
    <3>2. page' # "open" /\ dropped' = dropped
      BY <2>1 DEF Open, history
    <3>3. \A o \in Observations : Secured(o)' => Secured(o)
      BY <2>0, <3>1 DEF Secured
    <3> QED BY <2>0, <3>1, <3>2, <3>3 DEF NotesLine, Held, Store, ServedLoad
  <2>2. CASE Leave
    <3>1. page' # "open" /\ dropped' = dropped
      BY <2>2 DEF Leave, history
    <3>2. \A s \in requests' : \E r \in requests : s.what = r.what /\ s.at = r.at /\ Like(s, r)
      BY <2>2, LeaveKills
    <3>3. \A o \in Observations : Secured(o)' => Secured(o)
      BY <2>0, <3>2 DEF Secured, Like
    <3>4. \A q \in requests' : ~ ServedLoad(q)
      BY <2>2, LeaveKills DEF ServedLoad
    <3>5. ASSUME Held PROVE \A s \in requests' : s.what = "insertSave" => s.on \subseteq s.payload.notes
      BY <3>2, <3>5 DEF Held, Like
    <3>6. ASSUME Held, NEW o \in Observations, Secured(o)', NEW s \in requests', Store(s)
          PROVE  o \in s.payload.notes
      BY <3>2, <3>3, <3>6 DEF Held, Store, Like
    <3>7. Held => Held'
      BY <2>0, <3>1, <3>3, <3>4, <3>5, <3>6 DEF Held
    <3> QED BY <3>1, <3>7 DEF NotesLine
  <2>3. CASE UNCHANGED <<page, requests>> /\ (~ dropped' => ~ dropped /\ doc.notes \subseteq doc'.notes)
    <3>1. \A o \in Observations : Secured(o)' => Secured(o)
      BY <2>0, <2>3 DEF Secured
    <3> QED BY <2>0, <2>3, <3>1, HeldQuiet DEF NotesLine
  <2>4. ASSUME NEW t \in Texts, Edit(t) \/ Hydrate(t)
        PROVE  UNCHANGED <<page, requests, dropped>> /\ doc.notes \subseteq doc'.notes
    BY <2>4 DEF Edit, Hydrate, ChangeDoc, view, TypeOK, Doc
  <2>5. ASSUME NEW o \in Observations, DeleteInsertion(o)
        PROVE  UNCHANGED <<page, requests>> /\ dropped'
    BY <2>5 DEF DeleteInsertion, view
  <2>6. ASSUME ListObservations PROVE UNCHANGED <<page, requests, dropped, doc>>
    BY <2>6 DEF ListObservations, history, store
  <2> QED BY <1>1, <2>1, <2>2, <2>3, <2>4, <2>5, <2>6 DEF Page
<1>2. CASE Click \/ Dialog
  BY <1>2, NotesClick
<1>3. ASSUME NEW r \in requests, Confirm(r) \/ Answer(r) \/ Server(r) PROVE NotesLine'
  BY <1>3, NotesConfirm, NotesAnswer, NotesServe, NotesLost DEF Server
<1>4. CASE Elsewhere \/ UNCHANGED vars
  <2>1. /\ UNCHANGED <<page, doc, requests>> /\ (dropped' \/ (dropped' = dropped /\ stored' = stored))
        /\ \A o \in Observations : obs'[o] = "inserted" => obs[o] = "inserted"
    BY <1>4 DEF Elsewhere, OthersSave, OthersMove, OthersResolve, GuestObserves, GuestWithdraws,
       vars, server, view, store, history, TypeOK
  <2>2. \A o \in Observations : Secured(o)' => Secured(o)
    BY <2>1 DEF Secured
  <2> QED BY <2>1, <2>2, HeldQuiet DEF NotesLine
<1> QED BY <1>1, <1>2, <1>3, <1>4 DEF Next

-----------------------------------------------------------------------------
(* The baseline                                                            *)

\* No document changes, and no request that a baseline or a load depends on.
LEMMA AgreedQuiet ==
    ASSUME Agreed, UNCHANGED <<stored, store>>, page' = "open" => page = "open",
           \A r \in requests' : r \in requests \/ r.what \notin Storing \cup Snapshots \cup {"load"},
           \A r \in requests : r.what \in Snapshots /\ page' = "open" => r \in requests'
    PROVE  Agreed'
<1> USE DEF Store, ServedLoad, Storing, Saves, ReviewSaves, Snapshots
<1>1. \A r \in requests' : ServedLoad(r) => r.payload = stored'
  BY DEF Agreed
<1>2. \A q, r \in requests' : ServedLoad(q) => ~ Store(r)
  BY DEF Agreed
<1>3. page' = "open" /\ OneSave => OneSave'
  BY DEF OneSave, Settled, store
<1>4. page' = "open" /\ StoredAlready => StoredAlready'
  BY DEF StoredAlready, store
<1> QED BY <1>1, <1>2, <1>3, <1>4 DEF Agreed

\* A save of the document as it is leaves an open page.
LEMMA BaseSent ==
    ASSUME Mounted, Agreed, page = "open", UNCHANGED <<page, stored, store>>,
           \A r \in requests : r.what \notin Snapshots,
           NEW n, requests' \subseteq requests \cup {n},
           n.what \in Saves, n.at = "sent", n.payload = doc
    PROVE  Agreed'
<1> USE DEF Saves, Snapshots
<1>1. OneSave
  BY DEF Agreed, StoredAlready
<1>2. \A q \in requests' : ~ ServedLoad(q)
  BY DEF Mounted, ServedLoad
<1> QED BY <1>1, <1>2 DEF Agreed, OneSave, Settled, store

\* The document changes, with no answer awaited that would enter the change in the baseline.
LEMMA BaseChanged ==
    ASSUME Agreed, UNCHANGED <<page, stored, baseline>>,
           isDirty' = TRUE \/ doc' = baseline,
           \A r \in requests : r.what \notin Snapshots,
           \A r \in requests' : r \in requests \/ (page = "open" /\ r.what = "insertSave"),
           Mounted
    PROVE  Agreed'
<1> USE DEF Storing, Saves, ReviewSaves, Snapshots
<1>1. page = "open" => OneSave
  BY DEF Agreed, StoredAlready
<1>2. page = "open" => \A q \in requests' : ~ ServedLoad(q)
  BY DEF Mounted, ServedLoad
<1>3. page' = "open" => OneSave'
  BY <1>1 DEF OneSave, Settled
<1>4. CASE page = "open"
  BY <1>2, <1>3, <1>4 DEF Agreed
<1>5. CASE page # "open"
  BY <1>5 DEF Agreed, ServedLoad, Store
<1> QED BY <1>4, <1>5

LEMMA BaseClick == ASSUME TypeOK, Mounted, BaseLine, Click \/ Dialog, ~ diverged' PROVE Agreed'
<1> USE DEF Storing, Saves, ReviewSaves, Verdicts, Snapshots, Unanswered, Dialogs
<1>1. PICK n \in Request :
         /\ requests' = requests \cup {n}
         /\ n.what # "load" /\ n.at = "sent"
         /\ \/ SaveDraft /\ n.what \in Saves /\ n.payload = doc
            \/ n.what \notin Snapshots /\ UNCHANGED <<store, diverged>>
  BY ClickAdds, DialogAdds, Names
  DEF EnterEditMode, Publish, RefreshReviewPdf, Move, Resolve, history
<1>2. page = "open" /\ page' = page /\ stored' = stored /\ baseline' = baseline
  BY ClickAdds, DialogAdds DEF view, server, store
<1>3. \A q \in requests' : ~ ServedLoad(q)
  BY <1>1, <1>2 DEF Mounted, ServedLoad
<1>4. CASE SaveDraft /\ n.what \in Saves /\ n.payload = doc
  <2>1. UNCHANGED store /\ ~ diverged /\ \A r \in requests : r.what \notin Snapshots
    BY <1>4 DEF SaveDraft
  <2> QED BY <1>1, <1>2, <1>4, <2>1, BaseSent DEF BaseLine
<1>5. CASE n.what \notin Snapshots /\ UNCHANGED <<store, diverged>>
  <2>1. Agreed
    BY <1>5 DEF BaseLine
  <2> QED BY <1>1, <1>2, <1>3, <1>5, <2>1 DEF Agreed, OneSave, StoredAlready, Settled, store
<1> QED BY <1>1, <1>4, <1>5

LEMMA BaseConfirm ==
    ASSUME TypeOK, Mounted, BaseLine, NEW r \in requests, Confirm(r), ~ diverged'
    PROVE  Agreed'
<1> USE DEF Storing, Saves, ReviewSaves, Verdicts, Snapshots, Unanswered, Dialogs
<1>1. UNCHANGED <<page, stored, baseline>> /\ r.what \in Dialogs
  BY ConfirmTurns DEF view, server
<1>2. CASE requests' = requests \ {r} /\ UNCHANGED <<store, diverged>>
  BY <1>1, <1>2, AgreedQuiet, Names DEF BaseLine
<1>3. CASE requests' = requests \ {r} /\ ChangeDoc(doc') /\ (doc' = baseline \/ isDirty' = TRUE)
  <2>1. ~ diverged /\ \A q \in requests : q.what \notin Snapshots
    BY <1>3 DEF ChangeDoc
  <2> QED BY <1>1, <1>3, <2>1, BaseChanged DEF BaseLine
<1>4. ASSUME NEW s, ReviewSent(r, s) PROVE Agreed'
  <2>1. /\ ~ diverged /\ page = "open" /\ UNCHANGED store
        /\ \A q \in requests : q.what \notin Snapshots
    BY <1>4 DEF ReviewSent, ConfirmReview
  <2> QED BY <1>1, <1>4, <2>1, BaseSent DEF BaseLine, ReviewSent
<1>5. ASSUME NEW s, InsertSent(r, s) PROVE Agreed'
  <2>1. /\ ~ diverged /\ page = "open" /\ isDirty' = TRUE
        /\ \A q \in requests : q.what \notin Snapshots
    BY <1>5 DEF InsertSent, ConfirmInsert
  <2> QED BY <1>1, <1>5, <2>1, BaseChanged DEF BaseLine, InsertSent
<1>6. CASE Closed(r)
  BY <1>2, <1>3, <1>6 DEF Closed
<1> QED BY <1>4, <1>5, <1>6, ConfirmTurns

LEMMA BaseAnswer ==
    ASSUME TypeOK, Mounted, BaseLine, NEW r \in requests, Answer(r), ~ diverged'
    PROVE  Agreed'
<1> USE Names DEF Storing, Saves, ReviewSaves, Verdicts, Snapshots
<1>0. stored' = stored /\ Agreed
  BY DEF BaseLine, Answer, Loaded, DraftSaved, SubmitSaved, Submitted, Moved, InsertSaved,
         Resolved, history, server
<1>1. CASE Loaded(r)
  <2>1. /\ requests' = requests \ {r} /\ ServedLoad(r)
        /\ page' = "open" => loadFrom(r.payload)
    BY <1>1 DEF Loaded, Forget, ServedLoad
  <2>2. r.payload = stored /\ \A q \in requests' : ~ Store(q) /\ ~ ServedLoad(q)
    BY <1>0, <2>1 DEF Agreed, Mounted, ServedLoad
  <2>3. \A q \in requests' : q.what \in Saves => q.at = "ok"
    BY <2>1, <2>2 DEF Store, TypeOK, Request
  <2>4. page' = "open" => Settled' /\ stored' = doc'
    BY <1>0, <2>1, <2>2 DEF loadFrom, Settled
  <2> QED BY <2>2, <2>3, <2>4 DEF Agreed, OneSave, StoredAlready
<1>2. CASE DraftSaved(r) \/ Submitted(r)
  <2>1. /\ requests' \subseteq requests \ {r} /\ page' = page /\ TakeSnapshot
        /\ r.what \in Snapshots /\ r.at = "ok"
        /\ \A q \in requests \ {r} : q.what \notin Dialogs => q \in requests'
    BY <1>2, AnswerCloses DEF DraftSaved, Submitted
  <2>2. page = "open" => StoredAlready
    BY <1>0, <2>1 DEF Agreed, OneSave
  <2>3. page' = "open" => /\ Settled' /\ stored' = doc'
                          /\ \A q \in requests' : q.what \in Saves => q.at = "ok"
    BY <1>0, <2>1, <2>2 DEF TakeSnapshot, StoredAlready, Settled
  <2>4. page' = "open" => OneSave' \/ StoredAlready'
    BY <2>3 DEF OneSave, StoredAlready
  <2> QED BY <1>0, <2>1, <2>4 DEF Agreed, ServedLoad, Store
<1>3. CASE Moved(r) \/ Resolved(r)
  <2>1. /\ requests' \subseteq requests \ {r} /\ page' = page /\ UNCHANGED store
        /\ r.what \notin Snapshots
        /\ \A q \in requests \ {r} : q.what \notin Dialogs => q \in requests'
    BY <1>3, AnswerCloses DEF Moved, Resolved
  <2> QED BY <1>0, <2>1, AgreedQuiet DEF Dialogs
<1>4. CASE InsertSaved(r)
  <2>1. PICK s \in Request : requests' = (requests \ {r}) \cup {s} /\ s.what = "inserted"
    BY <1>4, AnswerTurns DEF Turns
  <2>2. page' = page /\ UNCHANGED store /\ r.what \notin Snapshots
    BY <1>4 DEF InsertSaved, view
  <2> QED BY <1>0, <2>1, <2>2, AgreedQuiet
<1>5. CASE SubmitSaved(r)
  <2>1. PICK s \in Request : requests' = (requests \ {r}) \cup {s} /\ s.what = "toPreview"
    BY <1>5, AnswerTurns DEF Turns
  <2>2. page' = page /\ UNCHANGED store /\ r.what = "submitSave" /\ r.at = "ok"
    BY <1>5 DEF SubmitSaved, view
  <2>3. page = "open" => StoredAlready
    BY <1>0, <2>2 DEF Agreed, OneSave
  <2>4. page' = "open" => StoredAlready'
    BY <1>0, <2>1, <2>2, <2>3 DEF StoredAlready, store
  <2> QED BY <1>0, <2>1, <2>2, <2>4 DEF Agreed, ServedLoad, Store
<1> QED BY <1>1, <1>2, <1>3, <1>4, <1>5 DEF Answer

LEMMA BaseServe ==
    ASSUME TypeOK, Mounted, BaseLine, NEW r \in requests, Serve(r), ~ diverged'
    PROVE  Agreed'
<1> USE Names DEF Storing, Saves, ReviewSaves, Verdicts, Snapshots
<1>0. UNCHANGED <<page, store>> /\ Effect(r) /\ r.at = "sent" /\ r.what \notin ReviewSaves
  BY DEF Serve, view, Compare
<1>1. PICK s \in Request : /\ requests' = (requests \ {r}) \cup {s} /\ s.what = r.what
                           /\ s.at = "ok" /\ (r.what = "load" => s.payload = stored)
  BY <1>0, ServeTurns DEF Turns
<1>2. CASE r.what = "load"
  <2>1. stored' = stored /\ page' # "open" /\ \A q \in requests' : ~ Store(q)
    BY <1>0, <1>1, <1>2 DEF Effect, Mounted, Serve, Compare, Store
  <2>2. \A q \in requests' : ServedLoad(q) => q = s
    BY <1>1, <1>2 DEF Mounted, ServedLoad
  <2> QED BY <1>1, <1>2, <2>1, <2>2 DEF Agreed
<1>3. CASE r.what # "load"
  <2>0. Agreed
    BY <1>3, <1>0 DEF BaseLine, Serve, Compare
  <2>1. CASE r.what \in Saves
    <3>1. stored' = r.payload /\ \A q \in requests' : ~ ServedLoad(q)
      BY <1>0, <1>1, <2>0, <2>1 DEF Effect, Agreed, Store, ServedLoad
    <3>2. page = "open" => OneSave
      BY <1>0, <2>0, <2>1 DEF Agreed, StoredAlready
    <3>3. page' = "open" => StoredAlready'
      BY <1>0, <1>1, <2>1, <3>1, <3>2 DEF OneSave, StoredAlready, store
    <3> QED BY <3>1, <3>3 DEF Agreed
  <2>2. CASE r.what \notin Saves
    <3>1. stored' = stored
      BY <1>0, <2>2 DEF Effect
    <3>2. CASE r.what \notin Snapshots
      BY <1>0, <1>1, <1>3, <2>0, <2>2, <3>1, <3>2, AgreedQuiet
    <3>3. CASE r.what = "toPreview"
      <4>1. page = "open" => StoredAlready
        BY <2>0, <3>3 DEF Agreed, OneSave
      <4>2. page' = "open" => StoredAlready'
        BY <1>0, <1>1, <3>1, <3>3, <4>1 DEF StoredAlready, store
      <4> QED BY <1>1, <1>3, <2>0, <2>2, <3>1, <3>3, <4>2 DEF Agreed, ServedLoad, Store
    <3> QED BY <2>2, <3>2, <3>3
  <2> QED BY <2>1, <2>2
<1> QED BY <1>2, <1>3

LEMMA BaseLost ==
    ASSUME TypeOK, BaseLine, NEW r \in requests, Refuse(r) \/ LoseAnswer(r), ~ diverged'
    PROVE  Agreed'
<1> USE Names DEF Storing, Saves, ReviewSaves, Verdicts, Snapshots
<1>1. /\ \A q \in requests' : q \in requests \ {r} \/ q.what = "reviewDialog"
      /\ \A q \in requests \ {r} : q \in requests'
      /\ UNCHANGED <<stored, store>> /\ r.at = "sent"
      /\ page' = page \/ page' = "error"
      /\ r.what # "toPreview" /\ Agreed
  BY FailureTurns DEF Refuse, LoseAnswer, Failed, Effect, server, BaseLine
<1>2. CASE r.what \notin Snapshots
  BY <1>1, <1>2, AgreedQuiet
<1>3. CASE r.what \in Saves
  <2>1. page = "open" => OneSave
    BY <1>1, <1>3 DEF Agreed, StoredAlready
  <2>2. page' = "open" => OneSave'
    BY <1>1, <2>1 DEF OneSave, Settled, store
  <2> QED BY <1>1, <2>2 DEF Agreed, ServedLoad, Store
<1> QED BY <1>1, <1>2, <1>3

LEMMA BaseStep == TypeOK /\ Mounted /\ BaseLine /\ [Next]_vars => BaseLine'
<1> SUFFICES ASSUME TypeOK, Mounted, BaseLine, [Next]_vars, ~ diverged' PROVE Agreed'
  BY DEF BaseLine
<1>1. CASE Page
  <2>0. stored' = stored
    BY <1>1 DEF Page, Open, Leave, ListObservations, Edit, Hydrate, DeleteInsertion, server
  <2>1. CASE Open
    <3>1. PICK n \in Request : requests' = requests \cup {n} /\ n.what = "load" /\ n.at = "sent"
      BY <2>1, OpenAdds DEF Adds
    <3>2. page' # "open" /\ Agreed /\ page = "closed"
      BY <2>1 DEF Open, history, BaseLine
    <3> QED BY <2>0, <3>1, <3>2 DEF Agreed, ServedLoad, Store, Mounted
  <2>2. CASE Leave
    BY <2>2, LeaveKills DEF Leave, Agreed, ServedLoad
  <2>3. CASE ListObservations
    BY <2>0, <2>3, AgreedQuiet DEF ListObservations, BaseLine, history
  <2>4. CASE \/ \E t \in Texts : Edit(t) \/ Hydrate(t)
             \/ \E o \in Observations : DeleteInsertion(o)
    <3>1. /\ UNCHANGED <<page, baseline, requests>> /\ isDirty' = TRUE
          /\ Agreed /\ \A r \in requests : r.what \notin Snapshots
      BY <2>4 DEF Edit, Hydrate, DeleteInsertion, ChangeDoc, BaseLine, view, Unanswered
    <3> QED BY <2>0, <3>1, BaseChanged
  <2> QED BY <1>1, <2>1, <2>2, <2>3, <2>4 DEF Page
<1>2. CASE Click \/ Dialog
  BY <1>2, BaseClick
<1>3. ASSUME NEW r \in requests, Confirm(r) \/ Answer(r) \/ Server(r) PROVE Agreed'
  BY <1>3, BaseConfirm, BaseAnswer, BaseServe, BaseLost DEF Server
<1>4. CASE Elsewhere \/ UNCHANGED vars
  <2>1. UNCHANGED <<page, stored, store, requests>> /\ Agreed
    BY <1>4 DEF Elsewhere, OthersSave, OthersMove, OthersResolve, GuestObserves, GuestWithdraws,
       vars, server, view, store, history, BaseLine
  <2> QED BY <2>1, AgreedQuiet
<1> QED BY <1>1, <1>2, <1>3, <1>4 DEF Next

-----------------------------------------------------------------------------
(* Results                                                                 *)

EInv == TypeOK /\ Mounted /\ MoveLine /\ NotesLine /\ BaseLine

LEMMA Inductive == Spec => []EInv
<1>1. Init => EInv
  BY TypeInit
  DEF Init, EInv, Mounted, MoveLine, Shown, NotesLine, Held, Secured, BaseLine, Agreed, EMPTY_STATE
<1>2. EInv /\ [Next]_vars => EInv'
  BY TypeStep, MountedStep, MoveStep, NotesStep, BaseStep DEF EInv
<1> QED BY <1>1, <1>2, PTL DEF Spec

\* Type correctness of the window, its requests and the record.
THEOREM EditorTypes == Spec => []TypeOK
  BY Inductive, PTL DEF EInv

\* A rollback restores what the server has stored, and a document that counts as saved is
\* that one, however many requests of this and of earlier mounts are under way.
THEOREM BaselineStored == Spec => []BaselineIsStored
<1>1. EInv => BaselineIsStored
  BY DEF EInv, BaseLine, Agreed, OneSave, StoredAlready, Settled, BaselineIsStored, Unanswered
<1> QED BY <1>1, Inductive, PTL

\* The server accepts what the buttons of the window send, as long as nobody else moves the
\* record and no requests of the window cross.
THEOREM MovesFit == Spec => []OwnMovesFit
<1>1. EInv => OwnMovesFit
  <2> SUFFICES ASSUME TypeOK, MoveLine, ~ moved, NEW r \in requests, r.live, r.at = "sent",
                      r.what \in Saves \cup Moves, ~ Accepts(r)
               PROVE  r.what = "publish" /\ \E o \in Observations : obs[o] = "new"
    BY DEF EInv, OwnMovesFit
  <2> USE Names DEF Saves
  <2>1. /\ r.what \in Saves => status = "pending"
        /\ r.what \in Moves => Target[r.what] \in VALID_TRANSITIONS[status]
    BY DEF MoveLine, Shown, Submits
  <2>2. ASSUME r.what \in Saves PROVE Accepts(r)
    BY <2>1, <2>2 DEF Accepts, ReviewSaves, Verdicts
  <2>3. ASSUME r.what \in Moves
        PROVE  Accepts(r) <=> (r.what = "publish" => \A o \in Observations : obs[o] # "new")
    BY <2>1, <2>3 DEF Accepts, ReviewSaves, Verdicts
  <2> QED BY <2>2, <2>3
<1> QED BY <1>1, Inductive, PTL

\* What was resolved as inserted is in the stored content, in any order of stores, loads
\* and answers, unless another editor, crossing stores, an edit or a rollback may have taken
\* it out, or its dialog was confirmed over a store that was not that of its page.
THEOREM InsertionsStay == Spec => []InsertedStays
<1>1. EInv => InsertedStays
  BY DEF EInv, NotesLine, Held, Secured, InsertedStays
<1> QED BY <1>1, Inductive, PTL
=============================================================================
