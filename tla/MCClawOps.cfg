\* Intents, escalations and approvals of one Claw.
CONSTANTS
  p1 = p1
  None = None
  PodNames <- MCPodNames
  PodStates <- MCPodStates
  Cooldown <- MCCooldown
  Limits <- MCLimits
  MaxActions = 1
  Hour = 1
  TTL = 0
  MaxEsc = 3
  MaxTime = 1
SPECIFICATION Spec
INVARIANTS
  OnlyDecided
  AutoWithinBudget
PROPERTIES
  TerminalStays
  ApprovedIsHandled
CHECK_DEADLOCK FALSE
