---------------------------- MODULE MCInterview -----------------------------
(* Interview.tla on small instances; the cfg files give the sizes. *)
EXTENDS Interview, TLC

\* Handlers of one kind run the same code, and a report is named only by the
\* viewer that wrote it.
Symmetry ==
    Permutations(Answerers) \cup Permutations(Hinters) \cup Permutations(Viewers)
=============================================================================
