CONSTANTS
  Id = {a, b}
  MaxLines = 4
  MaxAttempts = 3
  WriteErrors = TRUE
  Tears = FALSE
  SizeArg = 3
  HighArg = 80
  LowArg = 30
  Chan = {slack}
  Sockets = 2
  MaxRetryAttempts = 2
  Bridges = {"dialled", "posting"}
  Env = {"crash", "bridge", "disconnect", "term"}
SPECIFICATION Spec
INVARIANTS CompletedWasDelivered HeldWhileUp
SYMMETRY IdSymmetry
CHECK_DEADLOCK FALSE
