---------------------------- MODULE MinuteRecord ----------------------------
(***************************************************************************)
(* The editorial life of a record once its AI output is committed:         *)
(* transition_minute, the two ways of saving the editor's content, and the *)
(* observations of the guests who review a version.                        *)
(*                                                                         *)
(* MariaDB holds the record, its versions, the reporting items projected   *)
(* from a version and the observations; MinIO holds draft_current.json and *)
(* one schema_output_vN.json per version.  Handlers interleave only at     *)
(* their awaits: the one of pending -> preview, with its SQL transaction   *)
(* open, and the one between the check and the insert of an observation.   *)
(***************************************************************************)
EXTENDS MinuteStatus, Integers, Sequences

CONSTANTS
    Contents,      \* what the draft can hold
    AiContent,     \* the output the AI left in version 0, in the AI's format
    Observations,  \* guest observations
    MaxVersions,   \* bound on visible versions
    MaxMishaps,    \* bound on MinIO and MariaDB failures
    MaxOverlaps    \* bound on requests that meet a transition at its await

NoContent == "none"

ASSUME RecordAssumption ==
    /\ AiContent \in Contents
    /\ NoContent \notin Contents
    /\ MaxVersions \in Nat
    /\ MaxMishaps \in Nat
    /\ MaxOverlaps \in Nat

VARIABLES
    status,     \* Record.status
    latest,     \* Record.latest_version_num
    active,     \* version_num of Record.active_version_id
    version,    \* RecordVersion rows by version_num: "none", "snapshot" or "final"
    object,     \* MinIO: schema_output_vN.json
    draft,      \* MinIO: draft_current.json
    items,      \* record_version_commitment_items, the reporting projection
    opening,    \* the draft a suspended pending -> preview has read, or NoContent
    obs,        \* guest observations
    mishaps,    \* storage failures so far
    overlaps    \* requests that met a suspended transition so far

docVars == <<latest, active, version, object, draft, items>>
bounds == <<mishaps, overlaps>>
vars == <<status, latest, active, version, object, draft, items, opening, obs, mishaps, overlaps>>

\* What an editor saves, in the editor's format.
Edited == Contents \ {AiContent}

Versions == 0..MaxVersions
Resolved == {"inserted", "approved", "rejected"}
ObsStates == {"none", "checked", "new", "withdrawn"} \cup Resolved
Observation == [state : ObsStates, version : Versions]

Init ==
    /\ status = "ready-for-edit"
    /\ latest = 0
    /\ active = 0
    /\ version = [v \in Versions |-> IF v = 0 THEN "snapshot" ELSE "none"]
    /\ object = [v \in Versions |-> IF v = 0 THEN AiContent ELSE NoContent]
    /\ draft = NoContent
    /\ items = [v \in Versions |-> NoContent]
    /\ opening = NoContent
    /\ obs = [o \in Observations |-> [state |-> "none", version |-> 0]]
    /\ mishaps = 0
    /\ overlaps = 0

Mishap ==
    /\ mishaps < MaxMishaps
    /\ mishaps' = mishaps + 1

Suspended == opening # NoContent

-----------------------------------------------------------------------------
(* transition_minute                                                       *)

CanMove(target) == target \in VALID_TRANSITIONS[status]

\* ready-for-edit -> pending: the AI snapshot becomes the draft.
OpenEditor ==
    /\ status = "ready-for-edit"
    /\ draft' = object[0]
    /\ status' = "pending"
    /\ active' = 0
    /\ latest' = 0
    /\ UNCHANGED <<version, object, items, opening, obs, bounds>>

\* The draft is in MinIO, the commit fails.
OpenEditorFails ==
    /\ status = "ready-for-edit"
    /\ Mishap
    /\ draft' = object[0]
    /\ UNCHANGED <<status, latest, active, version, object, items, opening, obs, overlaps>>

\* Mutant: the draft is copied over the last version.
SubmitOverLast ==
    /\ status = "pending"
    /\ ~ Suspended
    /\ latest < MaxVersions
    /\ object' = [object EXCEPT ![latest] = draft]
    /\ opening' = draft
    /\ UNCHANGED <<status, latest, active, version, draft, items, obs, bounds>>

\* pending -> preview up to its await: the draft is copied to the next snapshot object;
\* the version rows are flushed and not committed.
SubmitBegin ==
    /\ status = "pending"
    /\ ~ Suspended
    /\ latest < MaxVersions
    /\ object' = [object EXCEPT ![latest + 1] = draft]
    /\ opening' = draft
    /\ UNCHANGED <<status, latest, active, version, draft, items, obs, bounds>>

\* Mutant: the record keeps its former active version.
SubmitKeepsActive ==
    /\ Suspended
    /\ version' = [version EXCEPT ![latest + 1] = "snapshot"]
    /\ items' = [items EXCEPT ![latest + 1] = opening]
    /\ latest' = latest + 1
    /\ status' = "preview"
    /\ opening' = NoContent
    /\ UNCHANGED <<active, object, draft, obs, bounds>>

SubmitCommit ==
    /\ Suspended
    /\ version' = [version EXCEPT ![latest + 1] = "snapshot"]
    /\ items' = [items EXCEPT ![latest + 1] = opening]
    /\ latest' = latest + 1
    /\ active' = latest + 1
    /\ status' = "preview"
    /\ opening' = NoContent
    /\ UNCHANGED <<object, draft, obs, bounds>>

\* The commit fails or the process dies: the rows roll back, the object stays.
SubmitFails ==
    /\ Suspended
    /\ Mishap
    /\ opening' = NoContent
    /\ UNCHANGED <<status, docVars, obs, overlaps>>

\* A second pending -> preview meets the first: it has rewritten the object when its
\* insert waits for the first one's unique keys, until the read timeout.
SubmitCollides ==
    /\ Suspended
    /\ overlaps < MaxOverlaps
    /\ overlaps' = overlaps + 1
    /\ object' = [object EXCEPT ![latest + 1] = draft]
    /\ UNCHANGED <<status, latest, active, version, draft, items, opening, obs, mishaps>>

\* preview -> pending: the draft stays, the snapshot stays.
ReturnToEdit ==
    /\ status = "preview"
    /\ status' = "pending"
    /\ UNCHANGED <<docVars, opening, obs, bounds>>

Pending(o) == obs[o].state = "new"

\* Mutant: the version is given the status code of the record.
PublishRecordCode ==
    /\ status = "preview"
    /\ \A o \in Observations : ~ Pending(o)
    /\ version' = [version EXCEPT ![active] = "completed"]
    /\ status' = "completed"
    /\ UNCHANGED <<latest, active, object, draft, items, opening, obs, bounds>>

\* preview -> completed
Publish ==
    /\ status = "preview"
    /\ \A o \in Observations : ~ Pending(o)
    /\ version' = [version EXCEPT ![active] = "final"]
    /\ status' = "completed"
    /\ UNCHANGED <<latest, active, object, draft, items, opening, obs, bounds>>

\* * -> cancelled, * -> deleted.  Behind a suspended transition the update of the record
\* waits for its lock and times out.
Close(target) ==
    /\ target \in {"cancelled", "deleted"}
    /\ CanMove(target)
    /\ ~ Suspended
    /\ status' = target
    /\ UNCHANGED <<docVars, opening, obs, bounds>>

-----------------------------------------------------------------------------
(* save_minute_draft and save_minute_review_content                        *)

CountOverlap ==
    IF Suspended
    THEN overlaps < MaxOverlaps /\ overlaps' = overlaps + 1
    ELSE UNCHANGED overlaps

\* A visible version has its reporting items kept up to date, version 0 has none.
Project(v, c) == items' = IF v > 0 THEN [items EXCEPT ![v] = c] ELSE items

SaveDraft(c) ==
    /\ status = "pending"
    /\ CountOverlap
    /\ draft' = c
    /\ Project(active, c)
    /\ UNCHANGED <<status, latest, active, version, object, opening, obs, mishaps>>

\* Mutant: the review content is saved in the draft alone.
SaveReviewDraftOnly(c) ==
    /\ status = "preview"
    /\ draft' = c
    /\ items' = [items EXCEPT ![active] = c]
    /\ UNCHANGED <<status, latest, active, version, object, opening, obs, bounds>>

SaveReviewContent(c) ==
    /\ status = "preview"
    /\ draft' = c
    /\ object' = [object EXCEPT ![IF latest = 0 THEN 1 ELSE latest] = c]
    /\ items' = [items EXCEPT ![active] = c]
    /\ UNCHANGED <<status, latest, active, version, opening, obs, bounds>>

\* MinIO refuses the second object, or the projection fails after both.
SaveFails(c) ==
    /\ Mishap
    /\ CountOverlap
    /\ \/ /\ status = "pending"
          /\ UNCHANGED object
       \/ /\ status = "preview"
          /\ object' \in {object, [object EXCEPT ![latest] = c]}
    /\ draft' = c
    /\ UNCHANGED <<status, latest, active, version, items, opening, obs>>

-----------------------------------------------------------------------------
(* Observations                                                            *)

\* Mutant: guests may also comment what is being edited.
CheckWhileEditing(o) ==
    /\ obs[o].state = "none"
    /\ status \in {"pending", "preview"}
    /\ obs' = [obs EXCEPT ![o] = [state |-> "checked", version |-> active]]
    /\ UNCHANGED <<status, docVars, opening, bounds>>

\* create_minute_view_observation up to the await of the rate limiter.
CheckObservation(o) ==
    /\ obs[o].state = "none"
    /\ status = "preview"
    /\ obs' = [obs EXCEPT ![o] = [state |-> "checked", version |-> active]]
    /\ UNCHANGED <<status, docVars, opening, bounds>>

\* After it: the insert uses the record as it was read, and looks at nothing again.
InsertObservation(o) ==
    /\ obs[o].state = "checked"
    /\ obs' = [obs EXCEPT ![o].state = "new"]
    /\ UNCHANGED <<status, docVars, opening, bounds>>

\* The rate limiter refuses.
RefuseObservation(o) ==
    /\ obs[o].state = "checked"
    /\ obs' = [obs EXCEPT ![o] = [state |-> "none", version |-> 0]]
    /\ UNCHANGED <<status, docVars, opening, bounds>>

\* _ensure_public_observation_mutable
Mutable(o) ==
    /\ status = "preview"
    /\ obs[o].version = active
    /\ Pending(o)

\* delete_minute_view_observation
WithdrawObservation(o) ==
    /\ Mutable(o)
    /\ obs' = [obs EXCEPT ![o].state = "withdrawn"]
    /\ UNCHANGED <<status, docVars, opening, bounds>>

\* resolve_editor_minute_observation does not ask for the record's status.
ResolveObservation(o, resolution) ==
    /\ Pending(o)
    /\ obs' = [obs EXCEPT ![o].state = resolution]
    /\ UNCHANGED <<status, docVars, opening, bounds>>

-----------------------------------------------------------------------------
TransitionStep ==
    \/ OpenEditor \/ OpenEditorFails
    \/ SubmitBegin \/ SubmitCommit \/ SubmitFails \/ SubmitCollides
    \/ ReturnToEdit \/ Publish
    \/ \E target \in Statuses : Close(target)

SaveStep == \E c \in Edited : SaveDraft(c) \/ SaveReviewContent(c) \/ SaveFails(c)

ObservationStep ==
    \E o \in Observations :
        \/ CheckObservation(o) \/ InsertObservation(o) \/ RefuseObservation(o)
        \/ WithdrawObservation(o)
        \/ \E r \in Resolved : ResolveObservation(o, r)

Next == TransitionStep \/ SaveStep \/ ObservationStep

Spec == Init /\ [][Next]_vars

-----------------------------------------------------------------------------
(* Properties                                                              *)

\* Every variable keeps its type.
TypeOK ==
    /\ status \in WithContent \cup {"cancelled", "deleted"}
    /\ latest \in Versions
    /\ active \in Versions
    /\ version \in [Versions -> {"none", "snapshot", "final"}]
    /\ object \in [Versions -> Contents \cup {NoContent}]
    /\ draft \in Contents \cup {NoContent}
    /\ items \in [Versions -> Contents \cup {NoContent}]
    /\ opening \in Contents \cup {NoContent}
    /\ obs \in [Observations -> Observation]
    /\ mishaps \in 0..MaxMishaps
    /\ overlaps \in 0..MaxOverlaps

\* The versions are 0..latest without a gap, the active one is the last, under review
\* or published it is a visible one with content, and a version is final exactly when
\* the record is published with it.
VersionLine ==
    /\ active = latest
    /\ \A v \in Versions : version[v] # "none" <=> v <= latest
    /\ \A v \in Versions : version[v] = "final" <=> (status = "completed" /\ v = active)
    /\ \A v \in 0..latest : object[v] # NoContent
    /\ status \in {"preview", "completed"} => active > 0

\* Under review and once published, the snapshot, the draft and the reporting items of
\* the active version are one content - unless a storage call failed half-way or a
\* request met the transition at its await.
ReviewIsConsistent ==
    (mishaps = 0 /\ overlaps = 0 /\ status \in {"preview", "completed"})
        => object[active] = draft /\ items[active] = draft

\* An observation belongs to a visible version that exists, even when the record moved
\* on between the check and the insert.
ObservationsOnVersions ==
    \A o \in Observations :
        obs[o].state # "none" => obs[o].version \in 1..latest

\* What MinuteRecord promises: see VersionedDocument.
PhaseOf ==
    CASE status \in {"ready-for-edit", "pending"} -> "editing"
      [] status = "preview" -> "review"
      [] status = "completed" -> "published"
      [] OTHER -> "closed"

Doc == INSTANCE VersionedDocument WITH
    phase <- PhaseOf,
    versions <- [n \in 1..(latest + 1) |-> object[n - 1]]

\* Only the version under review changes; earlier ones, one returned to editing and a
\* published one never do, and versions are only added by a submission.
ImplementsDocument == Doc!Spec

\* minutes_service.py:1471-1474: the observations must be resolved before publishing.
PublishedIsSettled == status = "completed" => \A o \in Observations : ~ Pending(o)

\* minutes_service.py:1240-1241: the draft is what the review snapshot holds.
SnapshotHoldsDraft == (mishaps = 0 /\ status = "preview") => object[active] = draft
=============================================================================
