------------------------- MODULE MinuteRecordProofs -------------------------
(***************************************************************************)
(* For every number of versions, observations and contents: the versions   *)
(* of a record form a line, its review is consistent, and the record is a  *)
(* VersionedDocument.                                                      *)
(***************************************************************************)
EXTENDS MinuteRecord, TLAPS

Closed == {"cancelled", "deleted"}

\* What the table offers to the transitions of this module.
LEMMA CloseFacts ==
    ASSUME NEW target \in Closed, status \in WithContent \cup Closed, CanMove(target)
    PROVE  status \in Editable \cup {"cancelled"}
  BY DEF CanMove, VALID_TRANSITIONS, Statuses, WithContent, Editable, Closed, Failures,
     Terminal

LEMMA StatusFacts ==
    /\ WithContent = {"ready-for-edit", "pending", "preview", "completed"}
    /\ Editable = {"ready-for-edit", "pending", "preview"}
  BY DEF WithContent, Editable

\* A suspended submission is one of a record in editing, and its object is written; the
\* editor's record has a draft; before the editor opens it there is only version 0.
Progress ==
    /\ Suspended => /\ status = "pending"
                    /\ latest < MaxVersions
                    /\ opening \in Contents
                    /\ object[latest + 1] \in Contents
    /\ status \in {"pending", "preview"} => draft \in Contents
    /\ status = "ready-for-edit" => latest = 0

\* As long as nothing failed and nothing overlapped, the suspended submission holds the
\* draft it has read.
Undisturbed ==
    (mishaps = 0 /\ overlaps = 0 /\ Suspended)
        => object[latest + 1] = opening /\ draft = opening

IInv ==
    /\ TypeOK
    /\ VersionLine
    /\ Progress
    /\ Undisturbed
    /\ ReviewIsConsistent
    /\ ObservationsOnVersions

LEMMA InitInv == Init => IInv
<1> SUFFICES ASSUME Init PROVE IInv
  OBVIOUS
<1> USE RecordAssumption, StatusFacts DEF Init, Versions, NoContent
<1>1. TypeOK
  BY DEF TypeOK, Observation, ObsStates
<1>2. VersionLine
  BY DEF VersionLine
<1>3. Progress /\ Undisturbed /\ ReviewIsConsistent
  BY DEF Progress, Undisturbed, ReviewIsConsistent, Suspended
<1>4. ObservationsOnVersions
  BY DEF ObservationsOnVersions
<1> QED BY <1>1, <1>2, <1>3, <1>4 DEF IInv

-----------------------------------------------------------------------------
(* The record and its versions                                             *)

LEMMA MishapType ==
    ASSUME mishaps \in 0..MaxMishaps, Mishap
    PROVE  mishaps' \in 0..MaxMishaps /\ mishaps' # 0
  BY RecordAssumption DEF Mishap

LEMMA TransitionInv ==
    ASSUME IInv, TransitionStep
    PROVE  TypeOK' /\ VersionLine' /\ Progress' /\ Undisturbed' /\ ReviewIsConsistent'
<1> USE RecordAssumption, StatusFacts
    DEF IInv, TypeOK, Versions, Suspended
<1>1. CASE OpenEditor
  BY <1>1 DEF OpenEditor, VersionLine, Progress, Undisturbed, ReviewIsConsistent, bounds
<1>2. CASE OpenEditorFails
  BY <1>2, MishapType
     DEF OpenEditorFails, VersionLine, Progress, Undisturbed, ReviewIsConsistent
<1>3. CASE SubmitBegin
  BY <1>3 DEF SubmitBegin, VersionLine, Progress, Undisturbed, ReviewIsConsistent, bounds
<1>4. CASE SubmitCommit
  BY <1>4 DEF SubmitCommit, VersionLine, Progress, Undisturbed, ReviewIsConsistent, bounds
<1>5. CASE SubmitFails
  BY <1>5, MishapType
     DEF SubmitFails, VersionLine, Progress, Undisturbed, ReviewIsConsistent, docVars
<1>6. CASE SubmitCollides
  BY <1>6 DEF SubmitCollides, VersionLine, Progress, Undisturbed, ReviewIsConsistent
<1>7. CASE ReturnToEdit
  BY <1>7
     DEF ReturnToEdit, VersionLine, Progress, Undisturbed, ReviewIsConsistent, docVars, bounds
<1>8. CASE Publish
  BY <1>8 DEF Publish, VersionLine, Progress, Undisturbed, ReviewIsConsistent, bounds
<1>9. ASSUME NEW target \in Statuses, Close(target)
      PROVE  TypeOK' /\ VersionLine' /\ Progress' /\ Undisturbed' /\ ReviewIsConsistent'
  <2>1. status \in Editable \cup {"cancelled"}
    BY <1>9, CloseFacts DEF Close, Closed
  <2> QED BY <1>9, <2>1
          DEF Close, VersionLine, Progress, Undisturbed, ReviewIsConsistent, docVars, bounds
<1> QED BY <1>1, <1>2, <1>3, <1>4, <1>5, <1>6, <1>7, <1>8, <1>9 DEF TransitionStep

LEMMA SaveInv ==
    ASSUME IInv, SaveStep
    PROVE  TypeOK' /\ VersionLine' /\ Progress' /\ Undisturbed' /\ ReviewIsConsistent'
<1> USE RecordAssumption, StatusFacts
    DEF IInv, TypeOK, Versions, Suspended
<1>1. PICK c \in Contents : SaveDraft(c) \/ SaveReviewContent(c) \/ SaveFails(c)
  BY DEF SaveStep, Edited
<1>2. CASE SaveDraft(c)
  BY <1>2
     DEF SaveDraft, Project, CountOverlap, VersionLine, Progress, Undisturbed,
         ReviewIsConsistent
<1>3. CASE SaveReviewContent(c)
  BY <1>3
     DEF SaveReviewContent, VersionLine, Progress, Undisturbed, ReviewIsConsistent, bounds
<1>4. CASE SaveFails(c)
  BY <1>4, MishapType
     DEF SaveFails, CountOverlap, VersionLine, Progress, Undisturbed, ReviewIsConsistent
<1> QED BY <1>1, <1>2, <1>3, <1>4

-----------------------------------------------------------------------------
(* The observations                                                        *)

LEMMA ObservationInv == ASSUME IInv, ObservationStep PROVE IInv'
<1>1. PICK o \in Observations :
          \/ CheckObservation(o) \/ InsertObservation(o) \/ RefuseObservation(o)
          \/ WithdrawObservation(o)
          \/ \E r \in Resolved : ResolveObservation(o, r)
  BY DEF ObservationStep
<1>2. UNCHANGED <<status, docVars, opening, bounds>>
  BY <1>1 DEF CheckObservation, InsertObservation, RefuseObservation, WithdrawObservation,
     ResolveObservation
<1>3. /\ VersionLine' /\ Progress' /\ Undisturbed' /\ ReviewIsConsistent'
  BY <1>2 DEF IInv, VersionLine, Progress, Undisturbed, ReviewIsConsistent, docVars,
     bounds, Suspended
<1>4. obs' \in [Observations -> Observation]
  <2> USE DEF IInv, TypeOK, Observation, ObsStates, Resolved
  <2>1. CASE CheckObservation(o)
    BY <2>1 DEF CheckObservation
  <2>2. CASE InsertObservation(o)
    BY <2>2 DEF InsertObservation
  <2>3. CASE RefuseObservation(o)
    <3>1. 0 \in Versions
      BY RecordAssumption DEF Versions
    <3> QED BY <2>3, <3>1 DEF RefuseObservation
  <2>4. CASE WithdrawObservation(o)
    BY <2>4 DEF WithdrawObservation
  <2>5. CASE \E r \in Resolved : ResolveObservation(o, r)
    BY <2>5 DEF ResolveObservation
  <2> QED BY <1>1, <2>1, <2>2, <2>3, <2>4, <2>5
<1>5. TypeOK'
  BY <1>2, <1>4 DEF IInv, TypeOK, Observation, docVars, bounds
<1>6. ObservationsOnVersions'
  <2>1. latest' = latest /\ active \in 0..latest /\ (status = "preview" => active > 0)
    BY <1>2, RecordAssumption DEF docVars, IInv, TypeOK, Versions, VersionLine
  <2>2. \A q \in Observations \ {o} : obs'[q] = obs[q]
    BY <1>1 DEF CheckObservation, InsertObservation, RefuseObservation,
       WithdrawObservation, ResolveObservation, IInv, TypeOK
  <2>3. obs'[o].state # "none" => obs'[o].version \in 1..latest
    <3> USE DEF IInv, TypeOK, Observation, ObservationsOnVersions
    <3>1. CASE CheckObservation(o)
      BY <2>1, <3>1 DEF CheckObservation
    <3>2. CASE InsertObservation(o)
      BY <3>2 DEF InsertObservation
    <3>3. CASE RefuseObservation(o)
      BY <3>3 DEF RefuseObservation
    <3>4. CASE WithdrawObservation(o)
      BY <3>4 DEF WithdrawObservation, Mutable, Pending
    <3>5. CASE \E r \in Resolved : ResolveObservation(o, r)
      BY <3>5 DEF ResolveObservation, Pending
    <3> QED BY <1>1, <3>1, <3>2, <3>3, <3>4, <3>5
  <2> QED BY <2>1, <2>2, <2>3 DEF ObservationsOnVersions, IInv
<1> QED BY <1>3, <1>5, <1>6 DEF IInv

\* Versions are never taken back, so an observation keeps its version.
LEMMA ObservationsKept ==
    ASSUME IInv, TransitionStep \/ SaveStep
    PROVE  ObservationsOnVersions'
<1>1. obs' = obs
  BY DEF TransitionStep, OpenEditor, OpenEditorFails, SubmitBegin, SubmitCommit, SubmitFails,
     SubmitCollides, ReturnToEdit, Publish, Close, SaveStep, SaveDraft, SaveReviewContent,
     SaveFails
<1>2. latest' \in Nat /\ latest <= latest'
  BY RecordAssumption
     DEF TransitionStep, OpenEditor, OpenEditorFails, SubmitBegin, SubmitCommit, SubmitFails,
     SubmitCollides, ReturnToEdit, Publish, Close, SaveStep, SaveDraft, SaveReviewContent,
     SaveFails, docVars, IInv, TypeOK, Versions, Progress
<1> QED BY <1>1, <1>2
        DEF IInv, TypeOK, ObservationsOnVersions, Versions, Observation

LEMMA NextInv == IInv /\ [Next]_vars => IInv'
<1> SUFFICES ASSUME IInv, [Next]_vars PROVE IInv'
  OBVIOUS
<1>1. CASE TransitionStep
  BY <1>1, TransitionInv, ObservationsKept DEF IInv
<1>2. CASE SaveStep
  BY <1>2, SaveInv, ObservationsKept DEF IInv
<1>3. CASE ObservationStep
  BY <1>3, ObservationInv
<1>4. CASE UNCHANGED vars
  BY <1>4 DEF vars, IInv, TypeOK, VersionLine, Progress, Undisturbed, ReviewIsConsistent,
     ObservationsOnVersions, Suspended
<1> QED BY <1>1, <1>2, <1>3, <1>4 DEF Next

LEMMA Inductive == Spec => []IInv
  BY InitInv, NextInv, PTL DEF Spec

\* Every variable keeps its type, whatever the number of versions.
THEOREM TypeCorrect == Spec => []TypeOK
  BY Inductive, PTL DEF IInv

\* The versions are a line without gaps whose end is the active one, and a version is
\* final exactly when the record is published with it.
THEOREM LineCorrect == Spec => []VersionLine
  BY Inductive, PTL DEF IInv

\* Snapshot, draft and reporting items agree under review and after publication.
THEOREM ReviewCorrect == Spec => []ReviewIsConsistent
  BY Inductive, PTL DEF IInv

\* An observation always belongs to a visible version that exists.
THEOREM ObservationsCorrect == Spec => []ObservationsOnVersions
  BY Inductive, PTL DEF IInv

-----------------------------------------------------------------------------
(* The record implements VersionedDocument                                 *)

PhaseTable ==
    /\ status \in {"ready-for-edit", "pending"} => PhaseOf = "editing"
    /\ status = "preview" => PhaseOf = "review"
    /\ status = "completed" => PhaseOf = "published"
    /\ status \in Closed => PhaseOf = "closed"

LEMMA PhaseFacts == PhaseTable /\ PhaseTable'
  BY DEF PhaseTable, PhaseOf, Closed

\* The versions the abstract document sees.
Seen == [n \in 1..(latest + 1) |-> object[n - 1]]

LEMMA SeenType ==
    ASSUME IInv
    PROVE  Seen \in Seq(Contents \cup {NoContent}) /\ Len(Seen) = latest + 1
  BY RecordAssumption DEF IInv, TypeOK, Versions, Seen

LEMMA InitRefines == Init => Doc!Init
<1> SUFFICES ASSUME Init PROVE Doc!Init
  OBVIOUS
<1>1. PhaseOf = "editing"
  BY PhaseFacts DEF Init, PhaseTable
<1>2. Seen = <<AiContent>>
  BY RecordAssumption DEF Init, Seen, Versions
<1> QED BY <1>1, <1>2, RecordAssumption DEF Doc!Init, Seen

\* An object beyond the last version is not seen.
LEMMA UnseenObject ==
    ASSUME IInv, UNCHANGED latest, NEW c, latest < MaxVersions,
           object' = [object EXCEPT ![latest + 1] = c]
    PROVE  Seen' = Seen
  BY RecordAssumption DEF IInv, TypeOK, Versions, Seen

\* Writing the object of the last version amends it, or changes nothing.
LEMMA AmendedObject ==
    ASSUME IInv, UNCHANGED <<latest, status>>, status = "preview", NEW c \in Contents,
           object' = [object EXCEPT ![latest] = c]
    PROVE  [Doc!Next]_<<PhaseOf, Seen>>
<1>1. PhaseOf = "review" /\ PhaseOf' = "review"
  BY PhaseFacts DEF PhaseTable
<1>2. Seen' = [Seen EXCEPT ![Len(Seen)] = c]
  <2>1. latest \in Nat /\ latest \in Versions
    BY RecordAssumption DEF IInv, TypeOK, Versions
  <2>2. \A n \in 1..(latest + 1) :
            object'[n - 1] = IF n = latest + 1 THEN c ELSE object[n - 1]
    BY <2>1, RecordAssumption DEF IInv, TypeOK, Versions
  <2>3. Seen' = [Seen EXCEPT ![latest + 1] = c]
    BY <2>1, <2>2 DEF Seen
  <2> QED BY <2>3, SeenType
<1> QED BY <1>1, <1>2 DEF Doc!Next, Doc!Amend, Seen

LEMMA StepRefines ==
    ASSUME IInv, [Next]_vars
    PROVE  [Doc!Next]_<<PhaseOf, Seen>>
<1> USE RecordAssumption
<1>1. ASSUME status' = status, Seen' = Seen PROVE [Doc!Next]_<<PhaseOf, Seen>>
  <2>1. PhaseOf' = PhaseOf
    BY <1>1 DEF PhaseOf
  <2> QED BY <1>1, <2>1
<1>2. ASSUME UNCHANGED <<latest, object>> PROVE Seen' = Seen
  BY <1>2 DEF Seen
<1>3. CASE OpenEditor
  <2>1. PhaseOf' = PhaseOf
    BY <1>3, PhaseFacts DEF OpenEditor, PhaseTable
  <2>2. Seen' = Seen
    BY <1>3, <1>2 DEF OpenEditor, IInv, Progress
  <2> QED BY <2>1, <2>2
<1>4. CASE SubmitBegin
  BY <1>1, <1>4, UnseenObject DEF SubmitBegin
<1>5. CASE SubmitCommit
  <2>1. PhaseOf = "editing" /\ PhaseOf' = "review"
    BY <1>5, PhaseFacts DEF SubmitCommit, PhaseTable, IInv, Progress
  <2>2. object[latest + 1] \in Contents
    BY <1>5 DEF SubmitCommit, IInv, Progress
  <2>3. Seen' = Append(Seen, object[latest + 1])
    BY <1>5, SeenType DEF SubmitCommit, IInv, TypeOK, Versions, Seen
  <2> QED BY <2>1, <2>2, <2>3 DEF Doc!Next, Doc!Submit, Seen
<1>6. CASE SubmitCollides
  BY <1>1, <1>6, UnseenObject DEF SubmitCollides, IInv, Progress
<1>7. CASE ReturnToEdit
  <2>1. PhaseOf = "review" /\ PhaseOf' = "editing" /\ Seen' = Seen
    BY <1>2, <1>7, PhaseFacts DEF ReturnToEdit, PhaseTable, docVars
  <2> QED BY <2>1 DEF Doc!Next, Doc!Return, Seen
<1>8. CASE Publish
  <2>1. PhaseOf = "review" /\ PhaseOf' = "published" /\ Seen' = Seen
    BY <1>2, <1>8, PhaseFacts DEF Publish, PhaseTable
  <2> QED BY <2>1 DEF Doc!Next, Doc!Publish, Seen
<1>9. ASSUME NEW target \in Statuses, Close(target) PROVE [Doc!Next]_<<PhaseOf, Seen>>
  <2>1. status \in Editable \cup {"cancelled"} /\ PhaseOf' = "closed" /\ Seen' = Seen
    BY <1>2, <1>9, CloseFacts, PhaseFacts DEF Close, Closed, PhaseTable, docVars, IInv, TypeOK
  <2>2. PhaseOf \in {"editing", "review", "closed"}
    BY <2>1, PhaseFacts, StatusFacts DEF PhaseTable, Closed
  <2> QED BY <2>1, <2>2 DEF Doc!Next, Doc!Close, Seen
<1>10. CASE SaveStep
  <2>1. PICK c \in Contents : SaveDraft(c) \/ SaveReviewContent(c) \/ SaveFails(c)
    BY <1>10 DEF SaveStep, Edited
  <2>2. UNCHANGED <<latest, status>>
    BY <2>1 DEF SaveDraft, SaveReviewContent, SaveFails
  <2>3. CASE object' = object
    BY <1>1, <1>2, <2>2, <2>3
  <2>4. CASE object' # object
    <3>1. status = "preview" /\ object' = [object EXCEPT ![latest] = c]
      BY <2>1, <2>4 DEF SaveDraft, SaveReviewContent, SaveFails, IInv, VersionLine
    <3> QED BY <2>2, <3>1, AmendedObject
  <2> QED BY <2>3, <2>4
<1>11. CASE OpenEditorFails \/ SubmitFails \/ ObservationStep \/ UNCHANGED vars
  <2>1. UNCHANGED <<latest, object, status>>
    BY <1>11 DEF OpenEditorFails, SubmitFails, ObservationStep, CheckObservation,
       InsertObservation, RefuseObservation, WithdrawObservation, ResolveObservation,
       docVars, vars
  <2> QED BY <1>1, <1>2, <2>1
<1> QED BY <1>3, <1>4, <1>5, <1>6, <1>7, <1>8, <1>9, <1>10, <1>11
        DEF Next, TransitionStep

\* A record behaves as a VersionedDocument: versions are only added by a submission, and
\* only the one under review is ever amended.
THEOREM Refinement == Spec => ImplementsDocument
<1>1. Init => Doc!Init
  BY InitRefines
<1>2. IInv /\ [Next]_vars => [Doc!Next]_<<PhaseOf, Seen>>
  BY StepRefines
<1> QED BY <1>1, <1>2, Inductive, PTL DEF Spec, ImplementsDocument, Doc!Spec, Seen
=============================================================================
