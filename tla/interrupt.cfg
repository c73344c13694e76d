CONSTANTS
  Players = {p1}
  NoOne = NoOne
  MaxLines = 4
  InactivityTimeout = 1
  Kinds <- StartsOnly
  Unresolved = FALSE
  SharedStamps = FALSE
  DeathsOnlyInRun = FALSE
  Interrupts = TRUE
  TimePasses = FALSE
  MaxStarts = 2

SPECIFICATION Spec
PROPERTY InterruptAbandonsRun

CHECK_DEADLOCK FALSE
