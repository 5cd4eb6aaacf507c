------------------------- MODULE MCTransferControl -------------------------
(* Instances of TransferControl for TLC. *)
EXTENDS TransferControl, TLC

Symmetry == Permutations(Transfers) \union Permutations(Sessions)
=============================================================================
