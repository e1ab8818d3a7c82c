SPECIFICATION FairSpec
CONSTANTS
  Publishers = {p1, p2}
  MaxData = 1
  Horizon = 2
  RegionHorizon = 1
  MaxDoubts = 1
  Lifetime = 1
  MaxAge = 1
  Skew = 1
  None = none
INVARIANTS
  RevisionsFaithful
  ServedInTime
PROPERTIES
  ViewNeverRegresses
  CatchesUp
CHECK_DEADLOCK FALSE
