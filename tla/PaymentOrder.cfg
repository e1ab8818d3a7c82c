SPECIFICATION Spec
CONSTANTS
  Workers = {w1, w2}
  Admins = {d1, d2}
  Amount = 1
  Deposit = 1
  MaxOverdraft = 1
  MaxFaults = 1
  MaxLeft = 1
SYMMETRY Symmetry
INVARIANTS
  CreditedOnce
  DeductedOnce
  HoldOnRecord
  AckedIsCredited
PROPERTIES
  NeverUndone
CHECK_DEADLOCK FALSE
