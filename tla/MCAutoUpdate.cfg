CONSTANTS
  Versions = {1, 2, 3}
  Allowed = {1, 2, 3}
  Good = {0, 1}
  Replicas = 2
  MaxRollbacks = 2
  MaxTicks = 3
  MaxLost = 2
  NoStatus = NoStatus
SPECIFICATION FairSpec
INVARIANTS OpenIsQuiet FailedIsReverted BreakerHolds
PROPERTIES CurrentGrows UpdateEnds
CHECK_DEADLOCK FALSE
