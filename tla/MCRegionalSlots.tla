--------------------------- MODULE MCRegionalSlots ---------------------------
(* RegionalSlots for TLC: identifiers are only ever compared. *)
EXTENDS RegionalSlots, TLC

Symmetry == Permutations(RegionRequests) \cup Permutations(PrimaryRequests)
              \cup Permutations(Regions) \cup Permutations(Leases)
=============================================================================
