CONSTANTS
  Hour = 2
  Zones <- SomeZones
  SuffixOffsets <- Offsets
  MaxTime = 10

SPECIFICATION Spec
INVARIANT TypeOK
INVARIANT ResolvedIsTrue
INVARIANT ResolvedIsOnlyReading
INVARIANT HeldOnlyWhenAmbiguous
