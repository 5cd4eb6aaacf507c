--------------------------- MODULE MCContextViews ---------------------------
(* Instances of ContextViews for TLC: two artifacts of one owner, one of    *)
(* another.                                                                 *)
EXTENDS ContextViews, TLC

CONSTANTS a1, a2, b1, o1, o2, r1, r2

MCArtifacts == {a1, a2, b1}
MCOwners    == {o1, o2}
MCEarlier   == {a1, b1}
MCRequests  == {r1, r2}
MCAsks      == [r \in MCRequests |-> o1]
MCOwnerOf   == (a1 :> o1) @@ (a2 :> o1) @@ (b1 :> o2)
Symmetry    == Permutations(MCRequests)
=============================================================================
