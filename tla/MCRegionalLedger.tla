--------------------------- MODULE MCRegionalLedger ---------------------------
(* RegionalLedger for TLC: identifiers are only ever compared. *)
EXTENDS RegionalLedger, TLC

Symmetry == Permutations(RegionRequests) \cup Permutations(PrimaryRequests)
              \cup Permutations(Regions) \cup Permutations(Leases)
=============================================================================
