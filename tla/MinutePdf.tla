----------------------------- MODULE MinutePdf -----------------------------
(***************************************************************************)
(* The PDFs of a record beside its editorial life: the jobs that saves and *)
(* transitions ask pdf-worker for (services/pdf_job_builder, the listener  *)
(* of events/pdf_dispatch), the one draft object they all overwrite, and   *)
(* the published one.                                                      *)
(*                                                                         *)
(* A job carries its content.  pdf-worker runs several at once, retries    *)
(* after a delay and may fail after its upload, and the RPUSHes of two     *)
(* handlers may cross: jobs are rendered in any order and a job may be     *)
(* rendered again (JobWorker models how).  Every step of MinuteRecord is   *)
(* here with the job it asks for.                                          *)
(***************************************************************************)
EXTENDS MinuteRecord, FiniteSets

CONSTANT MaxJobs  \* bound on the jobs under way at a time

ASSUME PdfAssumption == MaxJobs \in Nat \ {0}

VARIABLES
    jobs,      \* the PDF jobs under way
    draftPdf,  \* MinIO: drafts/{record_id}/draft_current.pdf
    finalPdf,  \* MinIO: published/{record_id}/final.pdf
    drift,     \* history: why the draft PDF may not be of the content by now
    fault      \* history: "lost", a job was not pushed or was given up; "aborted", a
               \* transition asked for its job and did not commit

pdfs == <<draftPdf, finalPdf>>
pdfVars == <<jobs, pdfs, drift, fault>>
allVars == <<vars, pdfVars>>

\* newest: asked for last.
Job == [key : {"draft", "final"}, content : Contents, newest : BOOLEAN]
DraftJobs == {j \in jobs : j.key = "draft"}
FinalJobs == {j \in jobs : j.key = "final"}

\* The commit of the AI's output has asked for the first draft PDF.
PdfInit ==
    /\ Init
    /\ jobs = {[key |-> "draft", content |-> AiContent, newest |-> TRUE]}
    /\ draftPdf = NoContent
    /\ finalPdf = NoContent
    /\ drift = "none"
    /\ fault = "none"

\* At most one fault, and none beside MaxMishaps failures of the storage.
Fault(kind) ==
    /\ fault = "none"
    /\ mishaps < MaxMishaps
    /\ fault' = kind

Older(js) == {[j EXCEPT !.newest = FALSE] : j \in js}

\* Every caller logs an error of the push, or of the content's reading, and goes on.
Enqueue(key, c) ==
    \/ /\ Cardinality(jobs) < MaxJobs
       /\ jobs' = IF key = "draft"
                  THEN FinalJobs \cup Older(DraftJobs) \cup {[key |-> key, content |-> c, newest |-> TRUE]}
                  ELSE jobs \cup {[key |-> key, content |-> c, newest |-> TRUE]}
       /\ UNCHANGED fault
    \/ /\ Fault("lost")
       /\ UNCHANGED jobs

\* build_pdf_job_from_draft takes the AI's format for the editor's ("agreements" is a key of
\* both), its mappers raise on it, and every caller logs that and goes on.
EnqueueEdited(key, c) ==
    IF c = AiContent THEN UNCHANGED <<jobs, fault>> ELSE Enqueue(key, c)

-----------------------------------------------------------------------------
(* The editorial life and its jobs                                         *)

\* _on_status_change, at the flush: on "pending" it renders the AI's output, which the
\* draft is a copy of.
OpenWithPdf ==
    /\ OpenEditor \/ OpenEditorFails
    /\ Enqueue("draft", object[0])
    /\ drift' = "none"
    /\ UNCHANGED pdfs

\* Mutant: the autosave leaves the PDF alone.
SaveWithoutPdf(c) ==
    /\ SaveDraft(c)
    /\ UNCHANGED pdfVars

SaveWithPdf(c) ==
    /\ SaveDraft(c)
    /\ Enqueue("draft", c)
    /\ drift' = "none"
    /\ UNCHANGED pdfs

\* The push is what the suspended transition awaits.  A draft nobody saved has none: the PDF
\* of the AI's output, asked for when it was opened or returned, is of it.
SubmitWithPdf ==
    /\ SubmitBegin
    /\ EnqueueEdited("draft", draft)
    /\ drift' = IF draft = AiContent /\ drift = "overtaken" THEN drift ELSE "none"
    /\ UNCHANGED pdfs

\* The listener again: the record is "pending", and the AI's output is rendered over the
\* draft PDF of what has been edited since.
ReturnWithPdf ==
    /\ ReturnToEdit
    /\ Enqueue("draft", object[0])
    /\ drift' = "returned"
    /\ UNCHANGED pdfs

\* What a failed commit of the same leaves.
ReturnAborts ==
    /\ status = "preview"
    /\ Fault("aborted")
    /\ Cardinality(jobs) < MaxJobs
    /\ jobs' = jobs \cup {[key |-> "draft", content |-> object[0], newest |-> TRUE]}
    /\ UNCHANGED <<vars, pdfs, drift>>

\* build_pdf_job_from_active_editor_content: the version's object, or the draft when
\* that cannot be read.
FinalContent == {object[active], draft}

\* Mutants: the snapshot of the AI; the object of the version to come.
PublishInitial ==
    /\ Publish
    /\ Enqueue("final", object[0])
    /\ UNCHANGED <<pdfs, drift>>

PublishNextVersion ==
    /\ Publish
    /\ Enqueue("final", object[latest + 1])
    /\ UNCHANGED <<pdfs, drift>>

PublishWithPdf ==
    /\ Publish
    /\ \E c \in FinalContent : EnqueueEdited("final", c)
    /\ UNCHANGED <<pdfs, drift>>

PublishAborts ==
    /\ status = "preview"
    /\ \A o \in Observations : ~ Pending(o)
    /\ Fault("aborted")
    /\ Cardinality(jobs) < MaxJobs
    /\ \E c \in FinalContent \ {AiContent} : jobs' = jobs \cup {[key |-> "final", content |-> c, newest |-> TRUE]}
    /\ UNCHANGED <<vars, pdfs, drift>>

\* save_minute_review_content: no PDF.
AmendReview(c) ==
    /\ SaveReviewContent(c)
    /\ drift' = "amended"
    /\ UNCHANGED <<jobs, pdfs, fault>>

\* regenerate_minute_review_pdf: the same, and a job.
RefreshReviewPdf(c) ==
    /\ SaveReviewContent(c)
    /\ Enqueue("draft", c)
    /\ drift' = "none"
    /\ UNCHANGED pdfs

WithoutPdf ==
    /\ \/ SubmitCommit \/ SubmitFails \/ SubmitCollides
       \/ \E target \in Statuses : Close(target)
       \/ \E c \in Edited : SaveFails(c)
       \/ ObservationStep
    /\ fault = "none" \/ mishaps' = mishaps
    /\ UNCHANGED pdfVars

-----------------------------------------------------------------------------
(* pdf-worker                                                              *)

RenderDraft(j) ==
    /\ j.key = "draft"
    /\ draftPdf' = j.content
    /\ drift' = IF \A i \in DraftJobs : ~ i.newest THEN "overtaken" ELSE drift
    /\ jobs' \in {jobs, jobs \ {j}}
    /\ UNCHANGED <<vars, finalPdf, fault>>

RenderFinal(j) ==
    /\ j.key = "final"
    /\ finalPdf' = j.content
    /\ jobs' \in {jobs, jobs \ {j}}
    /\ UNCHANGED <<vars, draftPdf, drift, fault>>

\* To the dead-letter list, or lost with the process: the queue is popped before the work.
GiveUp(j) ==
    /\ jobs' = jobs \ {j}
    /\ Fault("lost")
    /\ UNCHANGED <<vars, pdfs, drift>>

-----------------------------------------------------------------------------
PdfNext ==
    \/ OpenWithPdf \/ SubmitWithPdf \/ ReturnWithPdf \/ ReturnAborts
    \/ PublishWithPdf \/ PublishAborts \/ WithoutPdf
    \/ \E c \in Edited : SaveWithPdf(c) \/ AmendReview(c) \/ RefreshReviewPdf(c)
    \/ \E j \in jobs : RenderDraft(j) \/ RenderFinal(j) \/ GiveUp(j)

PdfSpec == PdfInit /\ [][PdfNext]_allVars

-----------------------------------------------------------------------------
(* Properties                                                              *)

PdfTypeOK ==
    /\ TypeOK
    /\ jobs \subseteq Job
    /\ draftPdf \in Contents \cup {NoContent}
    /\ finalPdf \in Contents \cup {NoContent}
    /\ drift \in {"none", "amended", "returned", "overtaken"}
    /\ fault \in {"none", "lost", "aborted"}

\* The final PDF exists for a published minute only and shows what was published; once it
\* is published and its job not lost, that PDF exists or is on its way - unless what was
\* published is the AI's output as no editor ever saved it: such a minute has no final PDF,
\* and nobody is told.  Not when a publication failed after its job was pushed.  The snapshot
\* may be replaced by the draft, the same unless a storage call failed or a request met the
\* transition.
FinalIsPublished ==
    fault # "aborted" =>
        LET published == IF mishaps = 0 /\ overlaps = 0 THEN {object[active]} ELSE FinalContent
        IN  /\ finalPdf # NoContent => status = "completed" /\ finalPdf \in published \ {AiContent}
            /\ \A j \in FinalJobs : status = "completed" /\ j.content \in published \ {AiContent}
            /\ status = "completed" /\ fault = "none" /\ AiContent \notin published =>
                  finalPdf # NoContent \/ FinalJobs # {}

\* When no draft job is under way the draft PDF is of the content: the draft being edited
\* (the AI's output after a return, until the next save), or the version under review, if it
\* was not amended since without a new PDF.  Unless a job overtook another, or a fault.
DraftPdfIsCurrent ==
    DraftJobs = {} /\ drift # "overtaken" /\ fault = "none" /\ mishaps = 0 /\ overlaps = 0 =>
        /\ status = "pending" =>
              draftPdf = IF drift = "returned" THEN object[0] ELSE draft
        /\ status = "preview" /\ drift # "amended" => draftPdf = object[active]
=============================================================================
