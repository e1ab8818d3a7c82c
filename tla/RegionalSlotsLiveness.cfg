SPECIFICATION FairSpec
CONSTANTS
  Regions = {r1}
  Leases = {l1}
  PrimaryRequests = {}
  RegionRequests = {q1}
  Capacities = {1}
  Limits = {0, 1}
  Lifetime = 2
  MaxAge = 1
  PrimaryHorizon = 3
  RegionHorizon = 1
PROPERTIES
  IssueDecided
  DrainReturnsSlots
