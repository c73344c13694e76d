CONSTANTS
  Players = {p1}
  NoOne = NoOne
  MaxLines = 3
  InactivityTimeout = 1
  Kinds <- AllKinds
  Unresolved = TRUE
  SharedStamps = TRUE
  DeathsOnlyInRun = FALSE
  Interrupts = TRUE
  TimePasses = TRUE
  MaxStarts = 2

SPECIFICATION Spec
INVARIANT TypeOK
INVARIANT RunBookkeeping
INVARIANT NeverTwice
INVARIANT IDsDistinct
INVARIANT AttributedToItsRun
INVARIANT CompletedHasEnd
PROPERTY StatusFinal

CHECK_DEADLOCK FALSE
