SPECIFICATION Spec
CONSTANTS
  Regions = {r1}
  Leases = {l1, l2}
  RegionRequests = {q1, q2}
  PrimaryRequests = {}
  Amounts = {2}
  Maxima = {1, 2}
  Deposit = 4
  Quotas = {0}
  Kinds = {"balance"}
  Lifetime = 1
  MaxAge = 0
  Crashes = TRUE
  PrimaryHorizon = 2
  RegionHorizon = 2
SYMMETRY Symmetry
INVARIANTS
  LedgersExact
  UpstreamCovered
  DeliveryNeverRefused
  NoOrphanLease
  OneLeasePerTarget
