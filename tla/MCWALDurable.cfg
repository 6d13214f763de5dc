CONSTANTS
  Id = {a, b}
  MaxLines = 4
  MaxAttempts = 2
  WriteErrors = FALSE
  Tears = FALSE
SPECIFICATION WALSpec
 
PROPERTY ImplementsDurableMap
