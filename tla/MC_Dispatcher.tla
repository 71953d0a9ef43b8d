--------------------------- MODULE MC_Dispatcher ---------------------------
(* Model-checking instance of Dispatcher.                                  *)
EXTENDS Dispatcher, TLC

CONSTANTS f1, f2, t1, t2

\* Two concurrent flows.
MC_Flows == {f1, f2}

\* Two outbound tags.
MC_Tags == {t1, t2}

\* Flows and tags are interchangeable.
MC_Symmetry == Permutations(MC_Flows) \cup Permutations(MC_Tags)
=============================================================================
