---------------------------- MODULE MCJobWorker ----------------------------
(***************************************************************************)
(* Instances of JobWorker: worker.py on two lists and, in the DLQ run,     *)
(* pdf-worker/app/main.py on a third that shares its dead-letter list.     *)
(***************************************************************************)
EXTENDS JobWorker

MCQueues == {"minutes", "email", "pdf"}
MCPriority == [w \in Workers |-> IF w = "main" THEN <<"minutes", "email">> ELSE <<"pdf">>]

MCQueueOf == [j \in Jobs |-> IF j = "gen" \/ j = "gen2" THEN "minutes"
                             ELSE IF j = "doc" \/ j = "doc2" THEN "pdf" ELSE "email"]
MCKindOf == [j \in Jobs |-> IF j = "legacy" THEN "unhandled"
                            ELSE IF j = "junk" THEN "unreadable" ELSE "handled"]
=============================================================================
