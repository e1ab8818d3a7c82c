SPECIFICATION FairSpec
CONSTANTS
  Regions = {r1}
  Leases = {l1}
  RegionRequests = {q1}
  PrimaryRequests = {}
  Amounts = {2}
  Maxima = {1}
  Deposit = 2
  Quotas = {0}
  Kinds = {"balance"}
  Lifetime = 1
  MaxAge = 0
  Crashes = TRUE
  PrimaryHorizon = 2
  RegionHorizon = 1
PROPERTIES
  UsageDelivered
  LeaseReturned
