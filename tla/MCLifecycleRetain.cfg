\* The volume claim of a Claw deleted under Retain or Archive.
CONSTANTS
  NoObj = NoObj
  Off = Off
  NoClass = NoClass
  MaxUid = 1
  Retain = 1
  Modes <- MCModes
  Requests <- MCRequests
  Allowed <- MCAllowed
  TTL = 1
  Limits <- MCRetainLimits
SPECIFICATION SafetySpec
PROPERTY RetainKeepsData
CHECK_DEADLOCK FALSE
