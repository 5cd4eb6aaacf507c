---------------------------- MODULE MCSmsThread ----------------------------
(* Instances of SmsThread for TLC. *)
EXTENDS SmsThread, TLC

Symmetry == Permutations(Runs) \union Permutations(Messages)
=============================================================================
