CONSTANTS
  Id = {a, b}
  MaxLines = 4
  MaxAttempts = 2
  WriteErrors = TRUE
  Tears = TRUE
SPECIFICATION WALSpec
INVARIANTS MemoryIsLog Compacting CompactionCrashSafe ReplayIsScan
SYMMETRY IdSymmetry
