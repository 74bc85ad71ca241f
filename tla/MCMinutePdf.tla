---------------------------- MODULE MCMinutePdf ----------------------------
(***************************************************************************)
(* An instance of MinutePdf: the AI's content and two edits, a guest       *)
(* observation, two visible versions, jobs that overtake each other.       *)
(***************************************************************************)
EXTENDS MinutePdf, TLC

CONSTANTS edit, again

MCContents == {"ai", edit, again}
EditSymmetry == Permutations({edit, again})
=============================================================================
