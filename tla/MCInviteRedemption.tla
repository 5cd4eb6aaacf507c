------------------------- MODULE MCInviteRedemption -------------------------
(* Instances of InviteRedemption for TLC: one limited and one unlimited code. *)
EXTENDS InviteRedemption, TLC

CONSTANTS limited, open

MCMaxUses == limited :> 2 @@ open :> Unlimited

Symmetry == Permutations(Redeems)
=============================================================================
