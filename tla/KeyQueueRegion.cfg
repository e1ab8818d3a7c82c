SPECIFICATION FairSpec
CONSTANTS
  Requests = {q1, q2}
  Queueless = {}
  Limits = {1, 2}
  Shares = {0, 1}
  MaxWaiting = 2
  Timeout = 1
  OnPrimary = FALSE
  Failures = FALSE
  Horizon = 1
PROPERTIES
  NoOvertaking
  AttemptEnds
CHECK_DEADLOCK FALSE
