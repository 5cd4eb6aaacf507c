------------------------------- MODULE Lists --------------------------------
(***************************************************************************)
(* What comprehensions and loops over lists give, as recursive functions:  *)
(* what these are for every list can be proved.                            *)
(***************************************************************************)
EXTENDS Naturals, Sequences

\* The elements of s at some places, in their order.
At(s, places) ==
  LET upTo[n \in 0 .. Len(s)] ==
        IF n = 0 THEN <<>>
        ELSE IF n \in places THEN Append(upTo[n - 1], s[n]) ELSE upTo[n - 1]
  IN upTo[Len(s)]

Where(s, Test(_)) == At(s, {i \in DOMAIN s : Test(s[i])})

\* Each element where it comes first.
Distinct(s) == At(s, {i \in DOMAIN s : \A j \in 1 .. i - 1 : s[j] # s[i]})

\* The elements of several sequences, one sequence after the other.
Flat(seqs) ==
  LET upTo[n \in 0 .. Len(seqs)] ==
        IF n = 0 THEN <<>> ELSE upTo[n - 1] \o seqs[n]
  IN upTo[Len(seqs)]

Take(s, n) == [i \in 1 .. (IF n < Len(s) THEN n ELSE Len(s)) |-> s[i]]
=============================================================================
