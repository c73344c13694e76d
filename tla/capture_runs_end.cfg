CONSTANTS
  Players = {p1}
  NoOne = NoOne
  MaxLines = 4
  InactivityTimeout = 1
  Kinds <- NoEnds
  Unresolved = FALSE
  SharedStamps = FALSE
  DeathsOnlyInRun = FALSE
  Interrupts = FALSE
  TimePasses = TRUE
  MaxStarts = 1

SPECIFICATION TimedSpec
INVARIANT OrphanFree
PROPERTY RunsEnd

CHECK_DEADLOCK FALSE
