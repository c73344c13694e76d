CONSTANTS
  Players = {p1}
  NoOne = NoOne
  MaxLines = 4
  InactivityTimeout = 1
  Kinds <- DeathsOnly
  Unresolved = FALSE
  SharedStamps = FALSE
  DeathsOnlyInRun = FALSE
  Interrupts = FALSE
  TimePasses = FALSE
  MaxStarts = 1

SPECIFICATION Spec
INVARIANT HeldDeathDoesNotStopCapture

CHECK_DEADLOCK FALSE
