CONSTANTS
  p1 = p1
  p2 = p2
  fire = fire
  fall = fall
  boss = boss
  add = add
  Players = {p1, p2}
  Tracked = {p1}
  CauseKeys = {fire, fall}
  Bosses = {boss, add}
  NoBoss = NoBoss
  FirstLines <- Empty
  Lines <- Pulls
  Capacity = 2
  Lookback = 2
  MaxCauses = 3
  MaxLines = 5
  MaxAhead = 1
  MaxFiles = 2
  MaxStarts = 2

SPECIFICATION Spec
INVARIANT FailsClosed
INVARIANT EncounterFromLog

CHECK_DEADLOCK FALSE
