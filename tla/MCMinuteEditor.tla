--------------------------- MODULE MCMinuteEditor ---------------------------
EXTENDS MinuteEditor, TLC

\* No property but the type looks at a state whose history excuses everything.
SomethingToCheck == ~ (diverged /\ moved /\ dropped)

Symmetry == Permutations(Texts)
=============================================================================
