\* Objects, volume claims and deletion of one Claw.
CONSTANTS
  NoObj = NoObj
  Off = Off
  NoClass = NoClass
  MaxUid = 2
  Retain = 1
  Modes <- MCModes
  Requests <- MCRequests
  Allowed <- MCAllowed
  TTL = 1
  Limits <- MCLimits
SPECIFICATION Spec
PROPERTIES
  ForeignUntouched
  Converges
  ChannelGone
  NeverLate
INVARIANTS NewestKept PodStarts ClaimsFit
CHECK_DEADLOCK FALSE
