CONSTANTS
  Id = {a, b}
  MaxLines = 6
  MaxAttempts = 3
  WriteErrors = FALSE
  Tears = FALSE
  SizeArg = 2
  HighArg = 50
  LowArg = 30
  Chan = {slack}
  Sockets = 2
  MaxRetryAttempts = 5
  Bridges = {"dialled"}
  Env = {"disconnect", "compact"}
SPECIFICATION FairSpec
INVARIANT BufferCountsInFlight
PROPERTIES  ResumedUnlessLost
CHECK_DEADLOCK FALSE
