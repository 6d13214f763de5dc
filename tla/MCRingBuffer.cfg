CONSTANTS
  Msg = {m1, m2, m3}
  Nil = Nil
  SizeArg = 4
  HighArg = 75
  LowArg = 30
SPECIFICATION Spec
INVARIANTS WindowExact Hysteresis
PROPERTY ImplementsQueue
