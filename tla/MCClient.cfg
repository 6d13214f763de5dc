\* Two messages, a buffer of one, three connections.
CONSTANTS
  m1 = m1
  m2 = m2
  Msgs <- MCMsgs
  Capacity = 1
  InboundCap = 1
  MaxDials = 3
  Limits <- MCLimits
SYMMETRY MCSymmetry
SPECIFICATION SafetySpec
INVARIANTS OnePlace 
PROPERTY ImplementsOutbox
CHECK_DEADLOCK FALSE
