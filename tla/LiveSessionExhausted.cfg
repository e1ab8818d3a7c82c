SPECIFICATION Spec
CONSTANTS
  Accounts = {a1, a2}
  Key = key
  User = user
  Limited = {a1, a2, key, user}
  Attempts = 2
  Agents = {g1}
  Faults = {}
  None = none
INVARIANTS
  ExhaustedReleasesJoint
CHECK_DEADLOCK FALSE
