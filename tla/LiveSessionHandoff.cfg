SPECIFICATION FairSpec
CONSTANTS
  Accounts = {a1, a2}
  Key = key
  User = user
  Limited = {a1, a2, key, user}
  Attempts = 2
  Agents = {g1, g2, g3}
  Faults = {"renew", "transfer", "abort", "account", "joint", "save", "claim", "get",
            "handback", "mark", "close"}
  None = none
INVARIANTS
  SessionKeepsSlots
  OneSlotPerDimension
  FencedHoldsNothing
  TransferredNeverLost
  FinalizedOnce
  FailedLeavesNoAccount
PROPERTIES
  CreationEnds
  SessionReleased
CHECK_DEADLOCK FALSE
