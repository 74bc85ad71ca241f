--------------------------- MODULE MCClientSession ---------------------------
EXTENDS ClientSession, TLC

Symmetry == Permutations(Users) \cup Permutations(Calls)
=============================================================================
