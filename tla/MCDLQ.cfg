CONSTANTS
  Id = {a, b, c}
  MaxSize = 2
  TTL = 3
  Base = 2
  MaxTime = 8
SPECIFICATION DLQSpec
INVARIANT SizeBounded
PROPERTY DroppedForAReason
