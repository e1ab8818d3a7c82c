SPECIFICATION Spec
CONSTANTS
  Requests = {q1, q2, q3}
  Queueless = {q3}
  Limits = {0, 1}
  Shares = {0}
  MaxWaiting = 1
  Timeout = 1
  OnPrimary = TRUE
  Failures = TRUE
  Horizon = 1
SYMMETRY Symmetry
INVARIANTS
  TypeOK
  NoLeakedSlot
  ForwardHoldsSlot
  UnlimitedLeavesLine
CHECK_DEADLOCK FALSE
