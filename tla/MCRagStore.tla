---------------------------- MODULE MCRagStore ----------------------------
(* Instances of RagStore for TLC. *)
EXTENDS RagStore, TLC

\* No definition tells the members of these sets apart.
Symmetry ==
  Permutations(Personas) \union Permutations(Names) \union Permutations(Calls)
    \union Permutations(Uploads) \union Permutations(Turns)
=============================================================================
