CONSTANTS
  Msgs = {"m1", "m2"}
  Replies = {"o1"}
  Chans = {"c1", "c2"}
  NoChan = "nowhere"
  RetryAttempts = 3
SPECIFICATION Spec
INVARIANTS AnsweredTruthfully PostedOnce 
PROPERTY EveryPostEnds
CHECK_DEADLOCK FALSE
