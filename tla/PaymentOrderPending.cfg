SPECIFICATION Spec
CONSTANTS
  Workers = {w1}
  Admins = {d1}
  Amount = 1
  Deposit = 0
  MaxOverdraft = 1
  MaxFaults = 0
  MaxLeft = 1
INVARIANTS
  PendingOnRecord
CHECK_DEADLOCK FALSE
