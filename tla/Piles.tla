-------------------------------- MODULE Piles --------------------------------
(***************************************************************************)
(* Sums of natural numbers over a finite set, as cardinalities.  The pile  *)
(* of f over S holds f[x] tokens for every x in S; its size is the sum of  *)
(* f over S, and facts about sums follow from facts about finite sets.     *)
(***************************************************************************)
EXTENDS Integers, FiniteSets

Pile(S, f) == UNION {{x} \X (1..f[x]) : x \in S}

Total(S, f) == Cardinality(Pile(S, f))
=============================================================================
