---------------------------- MODULE MCSharedCode ----------------------------
(* SharedCode with the two pages on two instances. *)
EXTENDS SharedCode, TLC

CONSTANTS a, b, i1, i2

MCSaverOf == a :> i1 @@ b :> i2

\* The pages and their instances change places together.
MCSwap ==
    {p \in Permutations(Editors \cup Savers) :
        \A e \in Editors : p[e] \in Editors /\ SaverOf[p[e]] = p[SaverOf[e]]}
=============================================================================
