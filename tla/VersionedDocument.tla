------------------------- MODULE VersionedDocument -------------------------
(***************************************************************************)
(* What the editors and the guests of a minute may rely on: the document   *)
(* is a line of versions that only grows at its end; a version can be      *)
(* amended while it is under review and never again, and publication       *)
(* freezes everything.  MinuteRecord implements this.                      *)
(***************************************************************************)
EXTENDS Integers, Sequences

CONSTANT Contents

VARIABLES
    phase,     \* "editing", "review", "published" or "closed"
    versions   \* the contents of versions 0, 1, ... in order

Phases == {"editing", "review", "published", "closed"}

Init ==
    /\ phase = "editing"
    /\ versions \in {<<c>> : c \in Contents}

\* Submitting for review appends a version.
Submit ==
    /\ phase = "editing"
    /\ phase' = "review"
    /\ \E c \in Contents : versions' = Append(versions, c)

\* The version under review may be amended in place.
Amend ==
    /\ phase = "review"
    /\ \E c \in Contents : versions' = [versions EXCEPT ![Len(versions)] = c]
    /\ UNCHANGED phase

Return ==
    /\ phase = "review"
    /\ phase' = "editing"
    /\ UNCHANGED versions

Publish ==
    /\ phase = "review"
    /\ phase' = "published"
    /\ UNCHANGED versions

Close ==
    /\ phase \in {"editing", "review"}
    /\ phase' = "closed"
    /\ UNCHANGED versions

Next == Submit \/ Amend \/ Return \/ Publish \/ Close

Spec == Init /\ [][Next]_<<phase, versions>>
=============================================================================
