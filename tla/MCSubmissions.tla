---------------------------- MODULE MCSubmissions ---------------------------
(* Submissions.tla on small instances; the cfg files give the sizes. *)
EXTENDS Submissions, TLC

\* Submits run the same code, and users and problems are told apart by nothing.
Symmetry == Permutations(Submits) \cup Permutations(Users) \cup Permutations(Problems)

\* Bound: days pass, and the queue and the hints change by hand, only while everything
\* has been about one user and problem; several are followed through one day.
ManyWithinOneDay ==
    Cardinality({pair \in Pairs : clock[pair] > 0}) > 1 => day = 0 /\ edits = 0
=============================================================================
