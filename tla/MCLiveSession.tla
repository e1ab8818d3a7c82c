--------------------------- MODULE MCLiveSession ---------------------------
(* LiveSession for TLC: accounts and control goroutines are only compared. *)
EXTENDS LiveSession, TLC

Symmetry == Permutations(Accounts) \cup Permutations(Agents)
=============================================================================
