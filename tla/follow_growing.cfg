CONSTANTS
  CR = CR
  LF = LF
  MaxContent = 3
  Chars <- CharsWithCR
  Truncates = FALSE
  CarefulCuts = FALSE
  Rotates = FALSE
  InodesReused = FALSE
  HeadSize = 2
  MaxBytes = 5
  MaxFiles = 1
  MaxStarts = 2

SPECIFICATION FairSpec
INVARIANT TypeOK
INVARIANT OffsetsAtLineEnds
INVARIANT OffsetCoversRecorded
PROPERTY FeedSafety
PROPERTY LinesGetRecorded

CHECK_DEADLOCK FALSE
