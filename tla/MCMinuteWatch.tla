---------------------------- MODULE MCMinuteWatch ----------------------------
EXTENDS MinuteWatch

\* Two pages of all the minutes, and the first of one client's.
FirstPages == [g \in Filters |-> IF g = "all2" THEN "all" ELSE g]
=============================================================================
