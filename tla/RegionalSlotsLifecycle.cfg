SPECIFICATION Spec
CONSTANTS
  Regions = {r1}
  Leases = {l1, l2}
  PrimaryRequests = {p1}
  RegionRequests = {q1, q2}
  Capacities = {1}
  Limits = {0, 2}
  Lifetime = 2
  MaxAge = 1
  PrimaryHorizon = 2
  RegionHorizon = 2
SYMMETRY Symmetry
INVARIANTS
  CapacityAccounted
  CancelledHoldsNothing
  OneOpenGrant
  NoOrphanGrant
PROPERTIES
  IdentitiesPermanent
  GrowthWithinLimit
