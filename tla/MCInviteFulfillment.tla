------------------------- MODULE MCInviteFulfillment -------------------------
(* Instances of InviteFulfillment for TLC. *)
EXTENDS InviteFulfillment, TLC

Symmetry == Permutations(Requests) \union Permutations(Operators)
=============================================================================
