--------------------------- MODULE MCPaymentOrder ---------------------------
(* PaymentOrder for TLC: processes are only compared. *)
EXTENDS PaymentOrder, TLC

Symmetry == Permutations(Workers) \cup Permutations(Admins)
=============================================================================
