--------------------------- MODULE MC_SubtaskResume ---------------------------
(* Model-checking instance of SubtaskResume: two or three sibling tasks.  *)
EXTENDS SubtaskResume, TLC

CONSTANTS c1, c2, c3, c4

MCChildren2 == {c1, c2}
MCChildren3 == {c1, c2, c3}
MCChildren4 == {c1, c2, c3, c4}

\* Children are interchangeable for the safety properties.
ChildSymmetry == Permutations(Children)
=============================================================================
