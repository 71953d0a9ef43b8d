------------------------ MODULE MC_RoundRobinHandler ------------------------
(* Model-checking instance of RoundRobinHandler.                           *)
EXTENDS RoundRobinHandler, TLC

CONSTANTS c1, c2

\* Two concurrent flows calling the same handler.
MC_Calls == {c1, c2}

\* The calls are interchangeable.
MC_Symmetry == Permutations(MC_Calls)
=============================================================================
