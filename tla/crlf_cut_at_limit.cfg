CONSTANTS
  CR = CR
  LF = LF
  MaxContent = 2
  Chars <- CharsWithCR
  Truncates = FALSE
  CarefulCuts = FALSE
  Rotates = FALSE
  InodesReused = FALSE
  HeadSize = 2
  MaxBytes = 4
  MaxFiles = 1
  MaxStarts = 2

SPECIFICATION Spec
INVARIANT OnlyTooLongLinesFail

CHECK_DEADLOCK FALSE
