CONSTANTS
  Players = {p1}
  NoOne = NoOne
  MaxLines = 4
  InactivityTimeout = 1
  Kinds <- RunsAndDeaths
  Unresolved = FALSE
  SharedStamps = FALSE
  DeathsOnlyInRun = TRUE
  Interrupts = TRUE
  TimePasses = FALSE
  MaxStarts = 2

SPECIFICATION FairSpec
INVARIANT ExactlyOnce
PROPERTY LedgerSpec

CHECK_DEADLOCK FALSE
