--------------------------- MODULE MinutePdfProofs ---------------------------
(***************************************************************************)
(* For every number of jobs, versions and contents: the PDFs leave the     *)
(* editorial life as MinuteRecord describes it, the final PDF shows what   *)
(* was published, and the draft PDF the content of the record.             *)
(***************************************************************************)
EXTENDS MinutePdf, MinuteRecordProofs

-----------------------------------------------------------------------------
(* The record is a MinuteRecord                                            *)

LEMMA PdfStepIsRecordStep == [PdfNext]_allVars => [Next]_vars
<1> SUFFICES ASSUME [PdfNext]_allVars PROVE [Next]_vars
  OBVIOUS
<1>1. CASE \/ OpenWithPdf \/ SubmitWithPdf \/ ReturnWithPdf \/ PublishWithPdf
  BY <1>1 DEF OpenWithPdf, SubmitWithPdf, ReturnWithPdf, PublishWithPdf, Next, TransitionStep
<1>2. CASE WithoutPdf
  BY <1>2 DEF WithoutPdf, Next, TransitionStep, SaveStep
<1>3. ASSUME NEW c \in Edited, SaveWithPdf(c) \/ AmendReview(c) \/ RefreshReviewPdf(c)
      PROVE  [Next]_vars
  BY <1>3 DEF SaveWithPdf, AmendReview, RefreshReviewPdf, Next, SaveStep
<1>4. CASE \/ ReturnAborts \/ PublishAborts
           \/ \E j \in jobs : RenderDraft(j) \/ RenderFinal(j) \/ GiveUp(j)
  BY <1>4 DEF ReturnAborts, PublishAborts, RenderDraft, RenderFinal, GiveUp
<1>5. CASE UNCHANGED allVars
  BY <1>5 DEF allVars
<1> QED BY <1>1, <1>2, <1>3, <1>4, <1>5 DEF PdfNext

\* The composition adds nothing to the record: what MinuteRecordProofs proves of a record,
\* its refinement of VersionedDocument included, holds of a record with its PDFs.
THEOREM RecordImplemented == PdfSpec => Spec
<1>1. PdfInit => Init
  BY DEF PdfInit
<1> QED BY <1>1, PdfStepIsRecordStep, PTL DEF PdfSpec, Spec

-----------------------------------------------------------------------------
(* The invariant                                                           *)

\* c is what the draft PDF should show by now.
Current(c) ==
    /\ status = "pending" => c = IF drift = "returned" THEN object[0] ELSE draft
    /\ status = "preview" /\ drift # "amended" => c = object[active]

Calm == drift # "overtaken" /\ fault = "none" /\ mishaps = 0 /\ overlaps = 0

\* The newest draft job carries the current content; once it is gone, the PDF shows it.
DraftLine ==
    Calm => /\ \A j \in DraftJobs : j.newest => Current(j.content)
            /\ (\A j \in DraftJobs : ~ j.newest) => Current(draftPdf)

\* When the PDF may differ: an amended review is not being edited, a submission in
\* progress has asked for its own.
DriftFits ==
    /\ drift = "amended" => status # "pending"
    /\ Suspended => drift # "returned"

PdfIInv ==
    /\ IInv /\ PdfTypeOK /\ FinalIsPublished /\ DraftLine /\ DriftFits
    /\ object[0] = AiContent

LEMMA PdfInitInv == PdfInit => PdfIInv
<1> SUFFICES ASSUME PdfInit PROVE PdfIInv
  OBVIOUS
<1>1. IInv
  BY InitInv DEF PdfInit
<1>2. jobs = {[key |-> "draft", content |-> AiContent, newest |-> TRUE]} /\ FinalJobs = {}
  BY DEF PdfInit, FinalJobs
<1>3. PdfTypeOK
  BY <1>1, <1>2, RecordAssumption DEF PdfInit, PdfTypeOK, IInv, Job
<1>4. FinalIsPublished
  BY <1>2 DEF PdfInit, Init, FinalIsPublished, NoContent
<1>5. DraftLine /\ DriftFits
  BY <1>2 DEF PdfInit, Init, DraftLine, DriftFits, Current, Suspended, DraftJobs
<1>6. object[0] = AiContent
  BY RecordAssumption DEF PdfInit, Init, Versions
<1> QED BY <1>1, <1>3, <1>4, <1>5, <1>6 DEF PdfIInv

\* The output of the AI stays what it was: a submission and an amendment write the object of
\* a visible version.
LEMMA AiOutputStays ==
    ASSUME PdfIInv, [Next]_vars
    PROVE  object'[0] = AiContent
<1> USE RecordAssumption
<1>1. object \in [Versions -> Contents \cup {NoContent}] /\ latest \in Nat
  BY DEF PdfIInv, IInv, TypeOK, Versions
<1>2. object' = object \/ \E v, c : v # 0 /\ object' = [object EXCEPT ![v] = c]
  BY <1>1 DEF Next, vars, TransitionStep, SaveStep, ObservationStep, OpenEditor, OpenEditorFails,
     SubmitBegin, SubmitCommit, SubmitFails, SubmitCollides, ReturnToEdit, Publish, Close,
     SaveDraft, SaveReviewContent, SaveFails, CheckObservation, InsertObservation,
     RefuseObservation, WithdrawObservation, ResolveObservation, docVars, PdfIInv, IInv, VersionLine
<1> QED BY <1>1, <1>2 DEF PdfIInv, Versions

\* What the content of a job can be.
LEMMA ContentFacts ==
    ASSUME PdfIInv
    PROVE  /\ object[0] \in Contents
           /\ object[active] \in Contents
           /\ status \in {"pending", "preview"} => draft \in Contents
           /\ status \in {"preview", "completed"} => active > 0
           /\ active = latest /\ latest \in Versions
  BY RecordAssumption DEF PdfIInv, IInv, TypeOK, VersionLine, Progress, Versions

LEMMA EnqueueDraft ==
    ASSUME PdfIInv, NEW c \in Contents, Enqueue("draft", c)
    PROVE  /\ jobs' \subseteq Job /\ FinalJobs' = FinalJobs
           /\ fault' = fault \/ (fault' = "lost" /\ fault = "none")
           /\ fault' = "none" => /\ \A j \in DraftJobs' : j.newest => j.content = c
                                 /\ \E j \in DraftJobs' : j.newest
<1> DEFINE new == [key |-> "draft", content |-> c, newest |-> TRUE]
<1>1. CASE fault' = "lost" /\ fault = "none" /\ jobs' = jobs
  BY <1>1 DEF PdfIInv, PdfTypeOK, FinalJobs
<1>2. CASE fault' = fault /\ jobs' = FinalJobs \cup Older(DraftJobs) \cup {new}
  <2>1. \A j \in Older(DraftJobs) : j \in Job /\ j.key = "draft" /\ ~ j.newest
    BY DEF PdfIInv, PdfTypeOK, Older, DraftJobs, Job
  <2>2. new \in Job /\ new.key = "draft" /\ new.newest /\ new.content = c
    BY DEF Job
  <2>3. FinalJobs' = FinalJobs
    BY <1>2, <2>1, <2>2 DEF FinalJobs
  <2>4. DraftJobs' = Older(DraftJobs) \cup {new}
    BY <1>2, <2>1, <2>2 DEF FinalJobs, DraftJobs
  <2> HIDE DEF new
  <2> QED BY <1>2, <2>1, <2>2, <2>3, <2>4 DEF PdfIInv, PdfTypeOK, FinalJobs
<1> QED BY <1>1, <1>2 DEF Enqueue, Fault

-----------------------------------------------------------------------------
(* The final PDF                                                           *)

\* A step that leaves the final jobs and their PDF alone, and does not publish.
LEMMA FinalKept ==
    ASSUME PdfIInv, FinalJobs' = FinalJobs, finalPdf' = finalPdf,
           fault = "aborted" => fault' = "aborted",
           fault # "none" => fault' # "none",
           status' = "completed" => status = "completed",
           status = "completed" => /\ UNCHANGED <<status, object, active, draft>>
                                   /\ UNCHANGED <<mishaps, overlaps>>
    PROVE  FinalIsPublished'
<1>1. CASE fault' = "aborted"
  BY <1>1 DEF FinalIsPublished
<1>2. CASE fault' # "aborted" /\ status = "completed"
  BY <1>2 DEF PdfIInv, FinalIsPublished, FinalContent
<1>3. CASE fault' # "aborted" /\ status # "completed"
  <2>1. FinalJobs = {} /\ finalPdf = NoContent
    BY <1>3 DEF PdfIInv, FinalIsPublished
  <2> QED BY <1>3, <2>1 DEF FinalIsPublished
<1> QED BY <1>1, <1>2, <1>3

\* A publication, from the content of the version or the draft.
LEMMA PublishFinal ==
    ASSUME PdfIInv, IInv', PublishWithPdf
    PROVE  jobs' \subseteq Job /\ DraftJobs' = DraftJobs /\ FinalIsPublished'
<1> USE DEF PublishWithPdf
<1>1. PICK c \in FinalContent : EnqueueEdited("final", c)
  OBVIOUS
<1>2. /\ status = "preview" /\ status' = "completed"
      /\ UNCHANGED <<object, active, draft, mishaps, overlaps, pdfs>>
  BY DEF Publish, bounds
<1>3. c \in Contents
  BY <1>1, <1>2, ContentFacts DEF FinalContent
<1>4. mishaps = 0 /\ overlaps = 0 => c = object[active]
  BY <1>1, <1>2 DEF FinalContent, PdfIInv, IInv, ReviewIsConsistent
<1>5. CASE fault' = "lost" /\ fault = "none" /\ jobs' = jobs
  <2>1. FinalJobs' = {} /\ finalPdf' = NoContent
    BY <1>2, <1>5 DEF PdfIInv, FinalIsPublished, FinalJobs, pdfs
  <2> QED BY <1>2, <1>5, <2>1 DEF FinalIsPublished, PdfIInv, PdfTypeOK, DraftJobs
<1>7. CASE c = AiContent /\ fault' = fault /\ jobs' = jobs
  <2>1. fault # "aborted" => FinalJobs' = {} /\ finalPdf' = NoContent
    BY <1>2, <1>7 DEF PdfIInv, FinalIsPublished, FinalJobs, pdfs
  <2>2. FinalIsPublished'
    BY <1>1, <1>2, <1>4, <1>7, <2>1 DEF FinalIsPublished, FinalContent
  <2> QED BY <1>7, <2>2 DEF PdfIInv, PdfTypeOK, DraftJobs
<1>6. CASE /\ c # AiContent /\ fault' = fault
           /\ jobs' = jobs \cup {[key |-> "final", content |-> c, newest |-> TRUE]}
  <2> DEFINE new == [key |-> "final", content |-> c, newest |-> TRUE]
  <2>1. new \in Job /\ new.key = "final" /\ new.content = c
    BY <1>3 DEF Job
  <2> HIDE DEF new
  <2>2. jobs' = jobs \cup {new}
    BY <1>6 DEF new
  <2>3. FinalJobs' = FinalJobs \cup {new} /\ DraftJobs' = DraftJobs
    BY <2>1, <2>2 DEF FinalJobs, DraftJobs
  <2>4. fault # "aborted" => FinalJobs = {} /\ finalPdf = NoContent
    BY <1>2 DEF PdfIInv, FinalIsPublished
  <2>5. FinalIsPublished'
    BY <1>1, <1>2, <1>4, <1>6, <2>1, <2>3, <2>4 DEF FinalIsPublished, FinalContent, pdfs
  <2> QED BY <2>1, <2>2, <2>3, <2>5 DEF PdfIInv, PdfTypeOK
<1> QED BY <1>1, <1>5, <1>6, <1>7 DEF EnqueueEdited, Enqueue, Fault

LEMMA RenderedFinal ==
    ASSUME PdfIInv, NEW j \in jobs, RenderFinal(j)
    PROVE  FinalIsPublished'
<1>1. j \in FinalJobs /\ j.content \in Contents /\ finalPdf' = j.content
  BY DEF RenderFinal, FinalJobs, PdfIInv, PdfTypeOK, Job
<1>2. FinalJobs' \subseteq FinalJobs
  BY DEF RenderFinal, FinalJobs
<1>3. UNCHANGED <<status, object, active, draft, mishaps, overlaps, fault>>
  BY DEF RenderFinal, vars
<1> QED BY <1>1, <1>2, <1>3, RecordAssumption DEF PdfIInv, FinalIsPublished, FinalContent

LEMMA GivenUp ==
    ASSUME PdfIInv, NEW j \in jobs, GiveUp(j)
    PROVE  FinalIsPublished' /\ DraftLine'
<1>1. FinalJobs' \subseteq FinalJobs
  BY DEF GiveUp, FinalJobs
<1>2. UNCHANGED <<status, object, active, draft, mishaps, overlaps, pdfs>>
  BY DEF GiveUp, vars
<1>3. fault = "none" /\ fault' = "lost"
  BY DEF GiveUp, Fault
<1>4. FinalIsPublished'
  BY <1>1, <1>2, <1>3 DEF PdfIInv, FinalIsPublished, FinalContent, pdfs
<1> QED BY <1>3, <1>4 DEF DraftLine, Calm

-----------------------------------------------------------------------------
(* The draft PDF                                                           *)

\* A step that asks for a PDF of what is by then the content.
LEMMA DraftAsked ==
    ASSUME PdfIInv, NEW c \in Contents, Enqueue("draft", c), Calm' => Current(c)'
    PROVE  DraftLine'
<1>1. fault' = "none" => /\ \A j \in DraftJobs' : j.newest => j.content = c
                         /\ \E j \in DraftJobs' : j.newest
  BY EnqueueDraft
<1> QED BY <1>1 DEF DraftLine, Calm, Current

\* A step that asks for none, and leaves what the PDF should show as it is.
LEMMA DraftKept ==
    ASSUME PdfIInv, DraftJobs' = DraftJobs, draftPdf' = draftPdf, Calm' => Calm,
           Calm' => \A c \in Contents \cup {NoContent} : Current(c) => Current(c)'
    PROVE  DraftLine'
<1>1. draftPdf \in Contents \cup {NoContent} /\ \A j \in DraftJobs : j.content \in Contents
  BY DEF PdfIInv, PdfTypeOK, Job, DraftJobs
<1> QED BY <1>1 DEF PdfIInv, DraftLine, Current

LEMMA RenderedDraft ==
    ASSUME PdfIInv, NEW j \in jobs, RenderDraft(j)
    PROVE  DraftLine' /\ DriftFits'
<1>1. /\ j \in DraftJobs /\ j.content \in Contents /\ draftPdf' = j.content
      /\ DraftJobs' = DraftJobs \/ DraftJobs' = DraftJobs \ {j}
  BY DEF RenderDraft, DraftJobs, PdfIInv, PdfTypeOK, Job
<1>2. UNCHANGED <<status, object, active, draft, opening, mishaps, overlaps, fault>>
  BY DEF RenderDraft, vars
<1>3. drift' = "overtaken" \/ (drift' = drift /\ \E i \in DraftJobs : i.newest)
  BY DEF RenderDraft
<1>4. DriftFits'
  BY <1>2, <1>3 DEF DriftFits, PdfIInv, Suspended
<1>5. CASE drift' = drift /\ Calm
  <2>1. \A i \in DraftJobs : i.newest => Current(i.content)
    BY <1>5 DEF PdfIInv, DraftLine
  <2>2. (\A i \in DraftJobs' : ~ i.newest) => j.newest
    BY <1>1, <1>3, <1>5 DEF Calm
  <2>3. \A c \in Contents : Current(c) => Current(c)'
    BY <1>2, <1>5 DEF Current
  <2>4. \A i \in DraftJobs : i.content \in Contents
    BY DEF PdfIInv, PdfTypeOK, Job, DraftJobs
  <2> QED BY <1>1, <1>4, <2>1, <2>2, <2>3, <2>4 DEF DraftLine, Current
<1>6. CASE ~ Calm \/ drift' = "overtaken"
  BY <1>2, <1>3, <1>4, <1>6 DEF DraftLine, Calm
<1> QED BY <1>3, <1>5, <1>6

-----------------------------------------------------------------------------
(* The steps                                                               *)

LEMMA AskingStep ==
    ASSUME PdfIInv, IInv', object'[0] = AiContent,
           \/ OpenWithPdf \/ SubmitWithPdf \/ ReturnWithPdf
           \/ \E c \in Edited : SaveWithPdf(c) \/ RefreshReviewPdf(c)
    PROVE  PdfIInv'
<1> USE RecordAssumption
<1>1. TypeOK /\ TypeOK' /\ Progress /\ PdfTypeOK
  BY DEF PdfIInv, IInv
<1>2. ASSUME NEW c \in Contents, Enqueue("draft", c), Calm' => Current(c)',
             drift' \in {"none", "returned"}, UNCHANGED pdfs,
             status # "completed", status' # "completed", DriftFits'
      PROVE  PdfIInv'
  <2>1. FinalIsPublished'
    BY <1>2, EnqueueDraft, FinalKept DEF pdfs, Fault
  <2>2. PdfTypeOK'
    BY <1>1, <1>2, EnqueueDraft DEF PdfTypeOK, pdfs
  <2> QED BY <1>2, <2>1, <2>2, DraftAsked DEF PdfIInv
<1>3. CASE OpenWithPdf
  <2>1. PICK c \in Contents : c = object[0]
    BY ContentFacts
  <2>2. CASE OpenEditor
    BY <1>2, <1>3, <2>1, <2>2
       DEF OpenWithPdf, OpenEditor, Current, DriftFits, PdfIInv, IInv, Suspended, Progress
  <2>3. CASE OpenEditorFails
    BY <1>1, <1>2, <1>3, <2>1, <2>3, MishapType
       DEF OpenWithPdf, OpenEditorFails, Calm, DriftFits, TypeOK
  <2> QED BY <1>3, <2>2, <2>3 DEF OpenWithPdf
<1>4. CASE SubmitWithPdf
  <2>1. PICK c \in Contents : c = draft
    BY <1>4, ContentFacts DEF SubmitWithPdf, SubmitBegin
  <2>2. /\ status = "pending" /\ UNCHANGED <<status, active, draft, mishaps, overlaps, pdfs>>
        /\ drift' # "returned" /\ drift' \in {"none", "overtaken"}
    BY <1>4 DEF SubmitWithPdf, SubmitBegin, bounds
  <2>3. CASE draft # AiContent
    BY <1>2, <1>4, <2>1, <2>2, <2>3 DEF SubmitWithPdf, EnqueueEdited, Current, DriftFits
  <2>4. CASE draft = AiContent
    <3>1. /\ UNCHANGED <<jobs, fault>>
          /\ drift = "overtaken" => drift' = "overtaken"
          /\ FinalJobs' = FinalJobs /\ DraftJobs' = DraftJobs
      BY <1>4, <2>4 DEF SubmitWithPdf, EnqueueEdited, FinalJobs, DraftJobs
    <3>2. status' = "pending" /\ object[0] = AiContent /\ draft' = AiContent
      BY <2>2, <2>4 DEF PdfIInv
    <3>3. \A d : Current(d) => Current(d)'
      BY <2>2, <2>4, <3>2 DEF Current
    <3>4. Calm' => Calm
      BY <2>2, <3>1 DEF Calm
    <3>5. FinalIsPublished'
      BY <2>2, <3>1, <3>2, FinalKept DEF pdfs
    <3>6. DraftLine'
      BY <2>2, <3>1, <3>3, <3>4, DraftKept DEF pdfs
    <3>7. DriftFits'
      BY <2>2 DEF DriftFits
    <3>8. PdfTypeOK'
      BY <1>1, <2>2, <3>1 DEF PdfTypeOK, pdfs
    <3> QED BY <3>5, <3>6, <3>7, <3>8 DEF PdfIInv
  <2> QED BY <2>3, <2>4
<1>5. CASE ReturnWithPdf
  <2>1. PICK c \in Contents : c = object[0]
    BY ContentFacts
  <2>2. ~ Suspended'
    BY <1>5 DEF ReturnWithPdf, ReturnToEdit, Suspended, PdfIInv, IInv, Progress
  <2> QED BY <1>2, <1>5, <2>1, <2>2
          DEF ReturnWithPdf, ReturnToEdit, docVars, Current, DriftFits
<1>6. ASSUME NEW c \in Edited, SaveWithPdf(c) PROVE PdfIInv'
  BY <1>2, <1>6 DEF Edited, SaveWithPdf, SaveDraft, Current, DriftFits
<1>7. ASSUME NEW c \in Edited, RefreshReviewPdf(c) PROVE PdfIInv'
  <2>1. object'[active'] = c
    BY <1>1, <1>7, ContentFacts DEF RefreshReviewPdf, SaveReviewContent, TypeOK
  <2> QED BY <1>2, <1>7, <2>1 DEF Edited, RefreshReviewPdf, SaveReviewContent, Current, DriftFits
<1> QED BY <1>3, <1>4, <1>5, <1>6, <1>7

\* The other steps of MinuteRecord: none asks for a draft PDF.
LEMMA QuietPdfStep ==
    ASSUME PdfIInv, IInv', object'[0] = AiContent,
           PublishWithPdf \/ WithoutPdf \/ \E c \in Edited : AmendReview(c)
    PROVE  PdfIInv'
<1> USE RecordAssumption
<1>1. TypeOK /\ TypeOK' /\ Progress /\ PdfTypeOK /\ DriftFits
  BY DEF PdfIInv, IInv
<1>2. CASE PublishWithPdf
  <2>1. status' = "completed" /\ ~ Suspended'
    BY <1>2 DEF PublishWithPdf, Publish, Suspended, PdfIInv, IInv, Progress
  <2>2. PdfTypeOK'
    BY <1>1, <1>2, PublishFinal DEF PublishWithPdf, PdfTypeOK, pdfs, EnqueueEdited, Enqueue, Fault
  <2>3. DraftLine' /\ DriftFits'
    BY <2>1 DEF DraftLine, Current, DriftFits
  <2> QED BY <1>2, <2>2, <2>3, PublishFinal DEF PdfIInv
<1>3. ASSUME NEW c \in Edited, AmendReview(c) PROVE PdfIInv'
  <2>1. status = "preview" /\ status' = "preview" /\ ~ Suspended'
    BY <1>3 DEF AmendReview, SaveReviewContent, Suspended, PdfIInv, IInv, Progress
  <2>2. PdfTypeOK'
    BY <1>1, <1>3 DEF AmendReview, PdfTypeOK, pdfs
  <2>3. FinalIsPublished'
    BY <1>3, <2>1, FinalKept DEF AmendReview, pdfs, FinalJobs
  <2>4. DraftLine' /\ DriftFits'
    BY <1>3, <2>1 DEF AmendReview, DraftLine, Current, DriftFits
  <2> QED BY <2>2, <2>3, <2>4 DEF PdfIInv
<1>4. CASE WithoutPdf
  <2>1. PdfTypeOK' /\ DraftJobs' = DraftJobs /\ FinalJobs' = FinalJobs
    BY <1>1, <1>4 DEF WithoutPdf, PdfTypeOK, pdfVars, pdfs, DraftJobs, FinalJobs
  <2>2. UNCHANGED pdfVars
    BY <1>4 DEF WithoutPdf
  <2>3. ASSUME status = "completed" =>
                   UNCHANGED <<status, object, active, draft, mishaps, overlaps>>,
               status' = "completed" => status = "completed",
               Suspended' => Suspended,
               status' = "pending" => status = "pending",
               Calm' => /\ Calm
                        /\ \A c \in Contents \cup {NoContent} : Current(c) => Current(c)'
        PROVE  PdfIInv'
    <3>1. FinalIsPublished'
      BY <2>1, <2>2, <2>3, FinalKept DEF pdfVars, pdfs
    <3>2. DraftLine' /\ DriftFits'
      BY <1>1, <2>1, <2>2, <2>3, DraftKept DEF pdfVars, pdfs, DriftFits
    <3> QED BY <2>1, <3>1, <3>2 DEF PdfIInv
  <2>4. CASE SubmitCommit
    <3>1. /\ status = "pending" /\ status' = "preview" /\ ~ Suspended'
          /\ UNCHANGED <<object, mishaps, overlaps>>
      BY <1>1, <2>4 DEF SubmitCommit, Progress, Suspended, bounds
    <3>2. Calm' => /\ Calm
                   /\ \A c \in Contents \cup {NoContent} : Current(c) => Current(c)'
      BY <1>1, <2>2, <2>4, <3>1
         DEF SubmitCommit, Calm, Current, pdfVars, PdfIInv, IInv, Undisturbed, DriftFits
    <3> QED BY <2>3, <3>1, <3>2
  <2>5. CASE SubmitFails \/ \E c \in Edited : SaveFails(c)
    <3>1. ~ Calm'
      BY <1>1, <2>5, MishapType DEF SubmitFails, SaveFails, Calm, TypeOK
    <3> QED BY <1>1, <2>3, <2>5, <3>1 DEF SubmitFails, SaveFails, Suspended, docVars, Progress
  <2>6. CASE SubmitCollides
    <3>1. ~ Calm'
      BY <1>1, <2>6 DEF SubmitCollides, Calm, TypeOK
    <3> QED BY <1>1, <2>3, <2>6, <3>1 DEF SubmitCollides, Suspended, Progress
  <2>7. ASSUME NEW target \in Statuses, Close(target) PROVE PdfIInv'
    <3>1. status \in Editable \cup {"cancelled"} /\ status' \in Closed
      BY <1>1, <2>7, CloseFacts DEF Close, Closed, TypeOK
    <3> QED BY <2>2, <2>3, <2>7, <3>1, StatusFacts
            DEF Close, Closed, Suspended, Calm, Current, pdfVars, bounds
  <2>8. CASE ObservationStep
    <3>1. UNCHANGED <<status, docVars, opening, bounds>>
      BY <2>8 DEF ObservationStep, CheckObservation, InsertObservation, RefuseObservation,
         WithdrawObservation, ResolveObservation
    <3> QED BY <2>2, <2>3, <3>1 DEF docVars, bounds, Suspended, Calm, Current, pdfVars
  <2> QED BY <1>4, <2>4, <2>5, <2>6, <2>7, <2>8 DEF WithoutPdf
<1> QED BY <1>2, <1>3, <1>4

\* Steps that leave the record alone.
LEMMA WorkerStep ==
    ASSUME PdfIInv, IInv', object'[0] = AiContent,
           \/ ReturnAborts \/ PublishAborts
           \/ \E j \in jobs : RenderDraft(j) \/ RenderFinal(j) \/ GiveUp(j)
           \/ UNCHANGED allVars
    PROVE  PdfIInv'
<1> USE RecordAssumption
<1>1. UNCHANGED vars
  BY DEF ReturnAborts, PublishAborts, RenderDraft, RenderFinal, GiveUp, allVars
<1>2. UNCHANGED <<status, object, active, draft, opening, mishaps, overlaps>>
  BY <1>1 DEF vars
<1>3. TypeOK' /\ PdfTypeOK /\ DriftFits
  BY DEF PdfIInv, IInv
<1>4. CASE ReturnAborts \/ PublishAborts
  <2>1. fault' = "aborted" /\ UNCHANGED <<pdfs, drift>>
    BY <1>4 DEF ReturnAborts, PublishAborts, Fault
  <2>2. jobs' \subseteq Job
    <3>1. PICK key \in {"draft", "final"}, c \in Contents :
              jobs' = jobs \cup {[key |-> key, content |-> c, newest |-> TRUE]}
      BY <1>4, ContentFacts DEF ReturnAborts, PublishAborts, FinalContent
    <3>2. [key |-> key, content |-> c, newest |-> TRUE] \in Job
      BY DEF Job
    <3> QED BY <1>3, <3>1, <3>2 DEF PdfTypeOK
  <2> QED BY <1>2, <1>3, <2>1, <2>2
          DEF PdfIInv, PdfTypeOK, FinalIsPublished, DraftLine, Calm, DriftFits, Suspended, pdfs
<1>5. ASSUME NEW j \in jobs, RenderDraft(j) PROVE PdfIInv'
  <2>1. PdfTypeOK'
    BY <1>3, <1>5 DEF RenderDraft, PdfTypeOK, Job
  <2>2. FinalIsPublished'
    BY <1>2, <1>5, FinalKept DEF RenderDraft, FinalJobs
  <2> QED BY <1>5, <2>1, <2>2, RenderedDraft DEF PdfIInv
<1>6. ASSUME NEW j \in jobs, RenderFinal(j) PROVE PdfIInv'
  <2>1. PdfTypeOK'
    BY <1>3, <1>6 DEF RenderFinal, PdfTypeOK, Job
  <2>2. DraftJobs' = DraftJobs
    BY <1>6 DEF RenderFinal, DraftJobs
  <2>3. DraftLine' /\ DriftFits'
    BY <1>2, <1>3, <1>6, <2>2, DraftKept DEF RenderFinal, Calm, Current, DriftFits, Suspended
  <2> QED BY <1>6, <2>1, <2>3, RenderedFinal DEF PdfIInv
<1>7. ASSUME NEW j \in jobs, GiveUp(j) PROVE PdfIInv'
  BY <1>2, <1>3, <1>7, GivenUp DEF GiveUp, Fault, PdfIInv, PdfTypeOK, DriftFits, Suspended, pdfs
<1>8. CASE UNCHANGED allVars
  <2>1. UNCHANGED pdfVars /\ FinalJobs' = FinalJobs /\ DraftJobs' = DraftJobs
    BY <1>8 DEF allVars, pdfVars, FinalJobs, DraftJobs
  <2>2. PdfTypeOK' /\ DriftFits'
    BY <1>2, <1>3, <2>1 DEF pdfVars, pdfs, PdfTypeOK, DriftFits, Suspended
  <2>3. FinalIsPublished'
    BY <1>2, <2>1, FinalKept DEF pdfVars, pdfs
  <2>4. DraftLine'
    BY <1>2, <2>1, DraftKept DEF pdfVars, pdfs, Calm, Current
  <2> QED BY <2>2, <2>3, <2>4 DEF PdfIInv
<1> QED BY <1>4, <1>5, <1>6, <1>7, <1>8

LEMMA PdfInductive == PdfSpec => []PdfIInv
<1>1. PdfIInv /\ [PdfNext]_allVars => PdfIInv'
  <2> SUFFICES ASSUME PdfIInv, [PdfNext]_allVars PROVE PdfIInv'
    OBVIOUS
  <2>1. IInv' /\ object'[0] = AiContent
    BY PdfStepIsRecordStep, NextInv, AiOutputStays DEF PdfIInv
  <2> QED BY <2>1, AskingStep, QuietPdfStep, WorkerStep DEF PdfNext
<1> QED BY <1>1, PdfInitInv, PTL DEF PdfSpec

\* Record and PDFs keep their types.
THEOREM PdfTypeCorrect == PdfSpec => []PdfTypeOK
  BY PdfInductive, PTL DEF PdfIInv

\* A final PDF, or a job for one, exists for a published minute only and is of what was
\* published; a published minute has one or the other, unless a push was lost or it is the
\* AI's output as no editor saved it.
THEOREM FinalPdfCorrect == PdfSpec => []FinalIsPublished
  BY PdfInductive, PTL DEF PdfIInv

\* When the draft jobs are through, the draft PDF shows the content of the record.
THEOREM DraftPdfCorrect == PdfSpec => []DraftPdfIsCurrent
<1>1. PdfIInv => DraftPdfIsCurrent
  BY DEF PdfIInv, DraftLine, Calm, Current, DraftPdfIsCurrent
<1> QED BY <1>1, PdfInductive, PTL
=============================================================================
