----------------------------- MODULE MCKeyQueue -----------------------------
(* KeyQueue for TLC: request identifiers are only ever compared. *)
EXTENDS KeyQueue, TLC

Symmetry == Permutations(Requests \ Queueless)
=============================================================================
