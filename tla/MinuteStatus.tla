---------------------------- MODULE MinuteStatus ----------------------------
(***************************************************************************)
(* The statuses of a minute's record (record_statuses) and the table of    *)
(* transitions a user may ask for, shared by the modules about minutes.    *)
(***************************************************************************)

Failures == {"llm-failed", "processing-error"}
Editable == {"ready-for-edit", "pending", "preview"}

\* Statuses whose content comes from a committed AI output.
WithContent == Editable \cup {"completed"}

Statuses == {"in-progress", "cancelled", "deleted"} \cup Failures \cup WithContent

\* "terminal" in the seeds of record_statuses and in _VALID_TRANSITIONS.
Terminal == {"completed", "deleted"}

VALID_TRANSITIONS == [s \in Statuses |->
    CASE s = "in-progress"    -> {"cancelled"}
      [] s = "ready-for-edit" -> {"pending", "cancelled", "deleted"}
      [] s = "pending"        -> {"preview", "cancelled", "deleted"}
      [] s = "preview"        -> {"pending", "completed", "cancelled", "deleted"}
      [] s = "cancelled"      -> {"deleted"}
      [] s \in Failures       -> {"cancelled", "deleted"}
      [] s \in Terminal       -> {}]

\* How the status of a transaction may change: a commit tried again may complete what
\* failed, and an error after the commit fail what was completed.
OutcomeMoves ==
    {"none"} \X {"processing"} \cup {"processing"} \X {"completed", "failed"}
    \cup {<<"completed", "failed">>, <<"failed", "completed">>}
=============================================================================
