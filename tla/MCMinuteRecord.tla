--------------------------- MODULE MCMinuteRecord ---------------------------
(***************************************************************************)
(* Instances of MinuteRecord: the AI's content and two edits, two guest    *)
(* observations, two visible versions.                                     *)
(***************************************************************************)
EXTENDS MinuteRecord, TLC

CONSTANTS o1, o2

MCContents == {"ai", "edit", "again"}
MCObservations == {o1, o2}
ObservationSymmetry == Permutations(MCObservations)
=============================================================================
