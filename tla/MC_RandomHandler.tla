--------------------------- MODULE MC_RandomHandler ---------------------------
EXTENDS RandomHandler, TLC

CONSTANTS c1, c2

\* Two concurrent calls.
MC_Calls == {c1, c2}

\* Calls are interchangeable.
MC_Symmetry == Permutations(MC_Calls)
=============================================================================
