----------------------------- MODULE MCSipEngine -----------------------------
(* Instances of SipEngine for TLC. *)
EXTENDS SipEngine, TLC

Symmetry == Permutations(CallIds) \union Permutations(Setups)
=============================================================================
