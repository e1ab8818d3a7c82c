SPECIFICATION Spec
CONSTANTS
  Regions = {r1}
  Leases = {l1}
  RegionRequests = {q1}
  PrimaryRequests = {p1}
  Amounts = {2}
  Maxima = {1}
  Deposit = 3
  Quotas = {0, 2}
  Kinds = {"balance", "subscription"}
  Lifetime = 1
  MaxAge = 0
  Crashes = FALSE
  PrimaryHorizon = 1
  RegionHorizon = 1
SYMMETRY Symmetry
PROPERTIES
  QuotaGrowth
  ImplementsWallet
