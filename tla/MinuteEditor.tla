---------------------------- MODULE MinuteEditor ----------------------------
(***************************************************************************)
(* The browser's editor of one minute (pages/minuteEditor, the zustand     *)
(* store minuteEditorStore) beside the record it edits.                    *)
(*                                                                         *)
(* The store is one per browser window: it outlives the page, and whoever  *)
(* holds an answer writes into it.  The server's side is MinuteRecord's,   *)
(* reduced to its status, the content a reload would fetch, and the        *)
(* guests' observations.  Requests are served in any order; what another   *)
(* editor, or another window of the same one, does to the record arrives   *)
(* as a change of the server.                                              *)
(*                                                                         *)
(* So does the ModalManager: its dialogs cover whatever page there is, and *)
(* one that was opened on a page may be confirmed after the page was left, *)
(* over the empty store or the record loaded again.                        *)
(***************************************************************************)
EXTENDS MinuteStatus, Integers, FiniteSets

CONSTANTS
    Observations,  \* guest observations
    Texts,         \* contents of a document, its inserted observations left aside
    NoText,        \* the content of the empty store
    MaxInFlight    \* bound on the requests of this window under way and its open dialog

ASSUME EditorAssumption ==
    /\ Texts # {} /\ NoText \notin Texts
    /\ MaxInFlight \in Nat

VARIABLES
    status,    \* server: Record.status
    stored,    \* server: the content getMinuteDetail answers with
    obs,       \* server: RecordVersionObservation.status
    page,      \* "closed", "loading", "open" or "error"
    local,     \* recordMeta.status
    doc,       \* the document in the store
    baseline,  \* baselineSnapshot
    isDirty,
    listed,    \* the observations the panel shows as new
    requests,  \* the requests of this window under way, and its open dialog
    diverged,  \* since the last load something parted baseline and stored
    moved,     \* since the last load something parted local and status
    dropped    \* something may have taken an inserted observation out again, or a dialog
               \* inserted it into a store that was not the record's

server == <<status, stored, obs>>
store == <<doc, baseline, isDirty>>
view == <<page, local, listed>>
history == <<diverged, moved, dropped>>
vars == <<server, view, store, requests, history>>

\* What the properties tell apart in a document: its text, and the observations
\* inserted into its scope.
Doc == [text : Texts \cup {NoText}, notes : SUBSET Observations]
EMPTY_STATE == [text |-> NoText, notes |-> {}]

Saves == {"saveDraft", "submitSave"}                \* PUT /save
ReviewSaves == {"insertSave", "refresh"}            \* POST /review-content/save, /review-pdf/refresh
Storing == Saves \cup ReviewSaves
Target == [enter |-> "pending", toPreview |-> "preview", return |-> "pending",
           publish |-> "completed", cancel |-> "cancelled"]
Moves == DOMAIN Target
Verdicts == {"inserted", "resolved"}   \* resolved: approved or rejected
Dialogs == {"reviewDialog", "insertDialog", "rollbackDialog", "entryDialog"}
Whats == {"load"} \cup Storing \cup Moves \cup Verdicts \cup Dialogs

\* live: the component that sent it is still mounted.  got: the record a load was served.
\* A dialog is "sent" until it is confirmed or closed.
Request == [what : Whats, at : {"sent", "ok"}, live : BOOLEAN,
            payload : Doc, got : Statuses, on : SUBSET Observations]

NewRequest(what, payload, on) ==
    [what |-> what, at |-> "sent", live |-> TRUE, payload |-> payload,
     got |-> "in-progress", on |-> on]

Init ==
    /\ status = "ready-for-edit"
    /\ stored \in [text : Texts, notes : {{}}]
    /\ obs = [o \in Observations |-> "none"]
    /\ page = "closed"
    /\ local = "in-progress"
    /\ doc = EMPTY_STATE
    /\ baseline = EMPTY_STATE
    /\ isDirty = FALSE
    /\ listed = {}
    /\ requests = {}
    /\ diverged = FALSE
    /\ moved = FALSE
    /\ dropped = FALSE

Unanswered(kinds) == {r \in requests : r.what \in kinds}
Send(r) ==
    /\ Cardinality(requests) < MaxInFlight
    /\ requests' = requests \cup {r}
Replace(r, s) == requests' = (requests \ {r}) \cup {s}
Forget(r) == requests' = requests \ {r}

\* A dialog sends r: it stays open, or is closed before the answer.
SendFrom(dialog, r) == Send(r) \/ Replace(dialog, r)

\* The answer of what a dialog sent, and ModalManager.closeAll.
closeAll(r) == requests' = requests \ ({r} \cup Unanswered(Dialogs))

\* The review's dialog stays open until the transition is answered.
Submission == {"submitSave", "toPreview"}

\* A dialog covers the window: one at a time.
Offer(dialog, on) ==
    /\ page = "open"
    /\ Unanswered(Dialogs \cup Submission) = {}
    /\ Send(NewRequest(dialog, EMPTY_STATE, on))

\* Sent while another of this window's requests may still change what it relies on.
Submits == {"reviewDialog", "submitSave"}
Crosses(what) ==
    \E q \in requests :
        /\ q.what \in Saves \cup Moves \cup Submits
        /\ what \in Moves \cup Submits \/ q.what \in Moves \cup Submits
Ask(what, payload, on) ==
    /\ Send(NewRequest(what, payload, on))
    /\ moved' = (moved \/ Crosses(what))

IsReadOnly == local # "pending"
Saving == \E r \in requests : r.live /\ r.what \in {"saveDraft", "enter"}   \* the header's flag
Snapshots == Saves \cup {"toPreview"}   \* their answers end in takeSnapshot

\* Every change of the document while an answer that ends in takeSnapshot is awaited
\* enters the baseline without having been saved.
ChangeDoc(d) ==
    /\ doc' = d
    /\ diverged' = (diverged \/ Unanswered(Snapshots) # {})

-----------------------------------------------------------------------------
(* The page                                                                *)

Open ==
    /\ page = "closed"
    /\ Send(NewRequest("load", EMPTY_STATE, {}))
    /\ page' = "loading"
    /\ UNCHANGED <<server, local, listed, store, history>>

loadFrom(content) ==
    /\ doc' = content
    /\ baseline' = content
    /\ isDirty' = FALSE

\* The answer finds the page still mounted, with content or without.
Loaded(r) ==
    /\ r.what = "load" /\ r.at = "ok" /\ r.live
    /\ Forget(r)
    /\ local' = r.got
    /\ IF r.got \in WithContent
       THEN /\ page' = "open"
            /\ loadFrom(r.payload)
       ELSE /\ page' = "error"
            /\ UNCHANGED store
    /\ UNCHANGED <<server, listed, history>>

reset ==
    /\ doc' = EMPTY_STATE
    /\ baseline' = EMPTY_STATE
    /\ isDirty' = FALSE

\* The user leaves, or the observation stream gives up and sends the browser to the
\* list (handleRecordUnavailable, reconcileEditorRecord): reset(), with no question
\* asked about unsaved changes.  A load is cancelled, other requests under way run on.
Leave ==
    /\ page # "closed"
    /\ page' = "closed"
    /\ reset
    /\ local' = "in-progress"
    /\ listed' = {}
    /\ requests' = {[r EXCEPT !.live = FALSE] : r \in requests \ Unanswered({"load"})}
    /\ UNCHANGED <<server, history>>

-----------------------------------------------------------------------------
(* The document                                                            *)

\* A setter of the store, behind a section that is not read-only.
Edit(t) ==
    /\ page = "open"
    /\ ~ IsReadOnly
    /\ t # doc.text
    /\ ChangeDoc([doc EXCEPT !.text = t])
    /\ isDirty' = TRUE
    /\ UNCHANGED <<server, view, baseline, requests, moved, dropped>>

\* A detail of the scope is deleted, an observation inserted there with it.
DeleteInsertion(o) ==
    /\ page = "open"
    /\ ~ IsReadOnly
    /\ o \in doc.notes
    /\ ChangeDoc([doc EXCEPT !.notes = @ \ {o}])
    /\ isDirty' = TRUE
    /\ dropped' = TRUE
    /\ UNCHANGED <<server, view, baseline, requests, moved>>

\* The addresses of a participant (useParticipantEmailHydration), read-only or not.
Hydrate(t) ==
    /\ page = "open"
    /\ t # doc.text
    /\ ChangeDoc([doc EXCEPT !.text = t])
    /\ isDirty' = TRUE
    /\ UNCHANGED <<server, view, baseline, requests, moved, dropped>>

\* The dialog of an entry: an agreement, a requirement, a meeting, a participant.
OpenEntry ==
    /\ ~ IsReadOnly
    /\ Offer("entryDialog", {})
    /\ UNCHANGED <<server, view, store, history>>

\* It writes the store whatever page there is, and whatever that allows by then.
LateEdit(r, t) ==
    /\ r.what = "entryDialog"
    /\ Forget(r)
    /\ ChangeDoc([doc EXCEPT !.text = t])
    /\ isDirty' = TRUE
    /\ UNCHANGED <<server, view, baseline, moved, dropped>>

handleRollback ==
    /\ ~ IsReadOnly
    /\ isDirty
    /\ Offer("rollbackDialog", {})
    /\ UNCHANGED <<server, view, store, history>>

rollbackToSnapshot(r) ==
    /\ r.what = "rollbackDialog"
    /\ Forget(r)
    /\ ChangeDoc(baseline)
    /\ isDirty' = FALSE
    /\ dropped' = (dropped \/ ~ doc.notes \subseteq baseline.notes)
    /\ UNCHANGED <<server, view, baseline, moved>>

\* Cancel, Escape, the overlay.
CloseDialog(r) ==
    /\ r.what \in Dialogs
    /\ Forget(r)
    /\ UNCHANGED <<server, view, store, history>>

-----------------------------------------------------------------------------
(* Saving and moving the record                                            *)

SaveDraft ==
    /\ page = "open"
    /\ local = "pending"
    /\ ~ Saving
    /\ Ask("saveDraft", doc, {})
    /\ diverged' = (diverged \/ Unanswered(Snapshots) # {})
    /\ UNCHANGED <<server, view, store, dropped>>

\* Mutant: the flag is cleared and the baseline forgotten.
CleanOnly ==
    /\ isDirty' = FALSE
    /\ UNCHANGED <<doc, baseline>>

\* markClean and takeSnapshot, of whatever the store holds when the answer comes.
TakeSnapshot ==
    /\ isDirty' = FALSE
    /\ baseline' = doc
    /\ UNCHANGED doc

DraftSaved(r) ==
    /\ r.what = "saveDraft" /\ r.at = "ok"
    /\ Forget(r)
    /\ TakeSnapshot
    /\ UNCHANGED <<server, page, local, listed, history>>

\* Guardar y pasar a revision, the dialog.
SaveAndReview ==
    /\ local = "pending"
    /\ ~ Saving
    /\ Offer("reviewDialog", {})
    /\ moved' = (moved \/ Crosses("reviewDialog"))
    /\ UNCHANGED <<server, view, store, diverged, dropped>>

\* Its confirmation: the save of what the store holds by then, and the transition after it.
ConfirmReview(r) ==
    /\ r.what = "reviewDialog"
    /\ Replace(r, [r EXCEPT !.what = "submitSave", !.payload = doc])
    /\ diverged' = (diverged \/ Unanswered(Snapshots) # {} \/ page # "open")
    /\ moved' = (moved \/ ~ r.live)
    /\ dropped' = (dropped \/ page # "open")
    /\ UNCHANGED <<server, view, store>>

SubmitSaved(r) ==
    /\ r.what = "submitSave" /\ r.at = "ok"
    /\ Replace(r, [r EXCEPT !.what = "toPreview", !.at = "sent"])
    /\ UNCHANGED <<server, view, store, history>>

\* Mutant: the record's status stays as it was loaded.
SubmittedQuietly(r) ==
    /\ r.what = "toPreview" /\ r.at = "ok"
    /\ closeAll(r)
    /\ TakeSnapshot
    /\ UNCHANGED <<server, view, history>>

Submitted(r) ==
    /\ r.what = "toPreview" /\ r.at = "ok"
    /\ closeAll(r)
    /\ TakeSnapshot
    /\ local' = IF r.live THEN "preview" ELSE local
    /\ UNCHANGED <<server, page, listed, history>>

EnterEditMode ==
    /\ page = "open"
    /\ local = "ready-for-edit"
    /\ ~ Saving
    /\ Ask("enter", EMPTY_STATE, {})
    /\ UNCHANGED <<server, view, store, diverged, dropped>>

\* The buttons of a review, and the menu behind the three dots: their dialogs send nothing
\* of the page, so the time one is open, over whatever page, counts as its request's.
Move(what) ==
    /\ page = "open"
    /\ \/ what = "return" /\ local = "preview"
       \/ what = "cancel" /\ local \in {"ready-for-edit", "pending", "preview", "in-progress"}
    /\ Ask(what, EMPTY_STATE, {})
    /\ UNCHANGED <<server, view, store, diverged, dropped>>

\* Publishing asks for the open observations before its dialog opens, not after.
Publish ==
    /\ page = "open"
    /\ local = "preview"
    /\ \A o \in Observations : obs[o] # "new"
    /\ Ask("publish", EMPTY_STATE, {})
    /\ UNCHANGED <<server, view, store, diverged, dropped>>

\* Mutant: the action's name for the status it leads to.
MovedByName(r) ==
    /\ r.what \in Moves \ {"toPreview"} /\ r.at = "ok"
    /\ IF r.what = "enter" THEN Forget(r) ELSE closeAll(r)
    /\ local' = IF r.live THEN r.what ELSE local
    /\ UNCHANGED <<server, page, listed, store, history>>

\* handleTransitionSuccess: the status changes here, the content is not loaded again.
Moved(r) ==
    /\ r.what \in Moves \ {"toPreview"} /\ r.at = "ok"
    /\ IF r.what = "enter" THEN Forget(r) ELSE closeAll(r)
    /\ local' = IF r.live THEN Target[r.what] ELSE local
    /\ UNCHANGED <<server, page, listed, store, history>>

-----------------------------------------------------------------------------
(* The panel of observations                                               *)

\* The list is fetched when the panel opens and when the stream says so.
ListObservations ==
    /\ page = "open"
    /\ listed' = {o \in Observations : obs[o] = "new"}
    /\ UNCHANGED <<server, page, local, store, requests, history>>

\* The panel does not look at the record's status.
Insert(o) ==
    /\ o \in listed
    /\ Offer("insertDialog", {o})
    /\ UNCHANGED <<server, view, store, history>>

\* Into a new section of the scope, or into one the dialog offered: the store has it as long
\* as the page is the one that opened the dialog.
insertObservationIntoScope(r) ==
    {[doc EXCEPT !.notes = @ \cup r.on]} \cup (IF r.live THEN {} ELSE {doc})

\* Mutant: resolved first, stored afterwards.
ConfirmResolvesFirst(r) ==
    /\ r.what = "insertDialog"
    /\ \E d \in insertObservationIntoScope(r) :
          /\ ChangeDoc(d)
          /\ SendFrom(r, [NewRequest("inserted", EMPTY_STATE, r.on) EXCEPT !.live = r.live])
          /\ dropped' = (dropped \/ page # "open" \/ ~ r.on \subseteq d.notes)
    /\ isDirty' = TRUE
    /\ UNCHANGED <<server, view, baseline, moved>>

\* Insertar y resolver: into the document, then stored, then resolved, all the same when
\* nothing was inserted.  The button of the dialog stays enabled.
ConfirmInsert(r) ==
    /\ r.what = "insertDialog"
    /\ \E d \in insertObservationIntoScope(r) :
          /\ doc' = d
          /\ SendFrom(r, [NewRequest("insertSave", d, r.on) EXCEPT !.live = r.live])
          /\ dropped' = (dropped \/ page # "open" \/ ~ r.on \subseteq d.notes)
    /\ diverged' = (diverged \/ Unanswered(Snapshots) # {} \/ page # "open")
    /\ isDirty' = TRUE
    /\ UNCHANGED <<server, view, baseline, moved>>

InsertSaved(r) ==
    /\ r.what = "insertSave" /\ r.at = "ok"
    /\ Replace(r, [r EXCEPT !.what = "inserted", !.at = "sent", !.payload = EMPTY_STATE])
    /\ UNCHANGED <<server, view, store, history>>

\* As for Move: approved or rejected in a dialog that sends nothing of the page.
Resolve(o) ==
    /\ page = "open"
    /\ o \in listed
    /\ Send(NewRequest("resolved", EMPTY_STATE, {o}))
    /\ UNCHANGED <<server, view, store, history>>

Resolved(r) ==
    /\ r.what \in Verdicts /\ r.at = "ok"
    /\ closeAll(r)
    /\ listed' = IF r.live THEN listed \ r.on ELSE listed
    /\ UNCHANGED <<server, page, local, store, history>>

\* Scope tab: the document goes to the server for a new PDF of the review; the answer
\* changes nothing here.
RefreshReviewPdf ==
    /\ page = "open"
    /\ local = "preview"
    /\ \E o \in Observations : obs[o] \in Verdicts
    /\ Send(NewRequest("refresh", doc, {}))
    /\ UNCHANGED <<server, view, store, history>>

-----------------------------------------------------------------------------
(* The server                                                              *)

Accepts(r) ==
    /\ r.what = "load" => status # "deleted"
    /\ r.what \in Saves => status = "pending"
    /\ r.what \in ReviewSaves => status = "preview"
    /\ r.what \in Moves => Target[r.what] \in VALID_TRANSITIONS[status]
    /\ r.what = "publish" => \A o \in Observations : obs[o] # "new"
    /\ r.what \in Verdicts => \A o \in r.on : obs[o] = "new"

Effect(r) ==
    /\ status' = IF r.what \in Moves THEN Target[r.what] ELSE status
    /\ stored' = IF r.what \in Storing THEN r.payload ELSE stored
    /\ obs' = IF r.what \in Verdicts THEN [o \in Observations |-> IF o \in r.on THEN r.what ELSE obs[o]] ELSE obs

\* A load starts a new comparison of the window with the server; what the old mount still
\* has under way parts them again.  The content stored for a review changes under the
\* baseline, and stores that cross may be served in either order.
Compare(r) ==
    LET rest == {q \in requests \ {r} : q.at = "sent"}
        storing == \E q \in rest : q.what \in Storing
        moving == \E q \in rest : q.what \in Moves \cup {"submitSave"}
    IN  /\ diverged' = CASE r.what = "load" -> storing
                         [] r.what \in ReviewSaves -> TRUE
                         [] OTHER -> diverged
        /\ moved' = CASE r.what = "load" -> moving \/ Unanswered({"submitSave"}) # {}
                      [] r.what \in Moves -> moved \/ ~ r.live
                      [] OTHER -> moved
        /\ dropped' = (dropped \/ (r.what \in Storing \cup {"load"} /\ storing))

Serve(r) ==
    /\ r.at = "sent"
    /\ Accepts(r)
    /\ Effect(r)
    /\ CASE r.what = "load" -> Replace(r, [r EXCEPT !.at = "ok", !.payload = stored, !.got = status])
         [] r.what = "refresh" -> Forget(r)
         [] OTHER -> Replace(r, [r EXCEPT !.at = "ok"])
    /\ Compare(r)
    /\ UNCHANGED <<view, store>>

\* What an error does to this window: a load that fails leaves the error page; a
\* submission whose save was accepted leaves the baseline behind what is stored, and its
\* dialog may be confirmed again; the others show a dialog.
Failed(r) ==
    /\ IF r.what \in Submission
       THEN Replace(r, [r EXCEPT !.what = "reviewDialog", !.at = "sent", !.payload = EMPTY_STATE])
       ELSE Forget(r)
    /\ page' = IF r.what = "load" THEN "error" ELSE page
    /\ UNCHANGED <<local, listed, store>>

\* Refused, or lost before the server has done anything.
Refuse(r) ==
    /\ r.at = "sent"
    /\ Failed(r)
    /\ diverged' = (diverged \/ r.what = "toPreview")
    /\ UNCHANGED <<server, moved, dropped>>

\* The request is served; the answer is an error all the same, or never comes.
LoseAnswer(r) ==
    /\ r.at = "sent"
    /\ r.what # "load"
    /\ Accepts(r)
    /\ Effect(r)
    /\ Failed(r)
    /\ diverged' = (diverged \/ r.what \in Storing \cup {"toPreview"})
    /\ moved' = (moved \/ r.what \in Moves)
    /\ dropped' = (dropped \/ (r.what \in Storing /\ Unanswered(Storing) # {r}))

GuestObserves(o) ==
    /\ obs[o] = "none"
    /\ status = "preview"
    /\ obs' = [obs EXCEPT ![o] = "new"]
    /\ UNCHANGED <<status, stored, view, store, requests, history>>

GuestWithdraws(o) ==
    /\ obs[o] = "new"
    /\ obs' = [obs EXCEPT ![o] = "withdrawn"]
    /\ UNCHANGED <<status, stored, view, store, requests, history>>

-----------------------------------------------------------------------------
(* Other editors                                                           *)

\* With the copies of observations the other window has loaded: these, or none.
OthersSave ==
    /\ status \in {"pending", "preview"}
    /\ \E t \in Texts, n \in {stored.notes, {}} : stored' = [text |-> t, notes |-> n]
    /\ diverged' = TRUE
    /\ dropped' = TRUE
    /\ UNCHANGED <<status, obs, view, store, requests, moved>>

OthersMove(target) ==
    /\ target \in VALID_TRANSITIONS[status]
    /\ target = "completed" => \A o \in Observations : obs[o] # "new"
    /\ status' = target
    /\ moved' = TRUE
    /\ UNCHANGED <<stored, obs, view, store, requests, diverged, dropped>>

OthersResolve(o) ==
    /\ obs[o] = "new"
    /\ obs' = [obs EXCEPT ![o] = "resolved"]
    /\ UNCHANGED <<status, stored, view, store, requests, history>>

-----------------------------------------------------------------------------
Page ==
    \/ Open \/ Leave \/ ListObservations
    \/ \E t \in Texts : Edit(t) \/ Hydrate(t)
    \/ \E o \in Observations : DeleteInsertion(o)

Click ==
    \/ SaveDraft \/ EnterEditMode \/ Publish \/ RefreshReviewPdf
    \/ \E what \in {"return", "cancel"} : Move(what)
    \/ \E o \in Observations : Resolve(o)

Dialog ==
    \/ OpenEntry \/ handleRollback \/ SaveAndReview
    \/ \E o \in Observations : Insert(o)

Confirm(r) ==
    \/ \E t \in Texts : LateEdit(r, t)
    \/ rollbackToSnapshot(r) \/ ConfirmReview(r) \/ ConfirmInsert(r) \/ CloseDialog(r)

Answer(r) ==
    \/ Loaded(r)
    \/ DraftSaved(r) \/ SubmitSaved(r) \/ Submitted(r)
    \/ Moved(r)
    \/ InsertSaved(r) \/ Resolved(r)

Server(r) == r.what \notin Dialogs /\ (Serve(r) \/ Refuse(r) \/ LoseAnswer(r))

Elsewhere ==
    \/ OthersSave
    \/ \E target \in Statuses : OthersMove(target)
    \/ \E o \in Observations : GuestObserves(o) \/ GuestWithdraws(o) \/ OthersResolve(o)

Next ==
    \/ Page \/ Click \/ Dialog \/ Elsewhere
    \/ \E r \in requests : Confirm(r) \/ Answer(r) \/ Server(r)

Spec == Init /\ [][Next]_vars

-----------------------------------------------------------------------------
TypeOK ==
    /\ status \in Statuses
    /\ stored \in Doc
    /\ obs \in [Observations -> {"none", "new", "withdrawn"} \cup Verdicts]
    /\ page \in {"closed", "loading", "open", "error"}
    /\ local \in Statuses
    /\ doc \in Doc
    /\ baseline \in Doc
    /\ isDirty \in BOOLEAN
    /\ listed \subseteq Observations
    /\ requests \subseteq Request
    /\ diverged \in BOOLEAN
    /\ moved \in BOOLEAN
    /\ dropped \in BOOLEAN

\* What a rollback would restore is what the server has stored, and a document that counts
\* as saved is that document (MinuteEditorHeader: "volver al ultimo estado guardado";
\* takeSnapshot).  Not while an own save is unanswered, nor once the document changed
\* during one, an answer was lost, a review's content was stored, another editor stored, or
\* a dialog stored what it found when the page had been left.
BaselineIsStored ==
    page = "open" /\ ~ diverged /\ Unanswered(Snapshots) = {} =>
        /\ baseline = stored
        /\ ~ isDirty => doc = baseline

\* The server accepts every save and transition the buttons of this window send, unless
\* someone else moved the record or this window's requests cross; publishing may meet an
\* observation that came after the count (MinuteEditor.jsx, on the 409).
OwnMovesFit ==
    ~ moved =>
        \A r \in requests :
            r.live /\ r.at = "sent" /\ r.what \in Saves \cup Moves /\ ~ Accepts(r) =>
                r.what = "publish" /\ \E o \in Observations : obs[o] = "new"

\* An observation resolved as inserted is in the stored content, unless another editor
\* stored, stores of this window crossed, an edit or a rollback took the insertion out, or
\* it was never there: a dialog was confirmed when its page had been left, over a store
\* without the record or without the section it offered.
InsertedStays ==
    \A o \in Observations : obs[o] = "inserted" /\ o \notin stored.notes => dropped
=============================================================================
