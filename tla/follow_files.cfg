CONSTANTS
  CR = CR
  LF = LF
  MaxContent = 4
  Chars <- CharsWithoutCR
  Truncates = TRUE
  CarefulCuts = TRUE
  Rotates = TRUE
  InodesReused = FALSE
  HeadSize = 2
  MaxBytes = 4
  MaxFiles = 2
  MaxStarts = 2

SPECIFICATION Spec
INVARIANT RecordedInOrder

CHECK_DEADLOCK FALSE
