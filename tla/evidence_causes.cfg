CONSTANTS
  p1 = p1
  p2 = p2
  fire = fire
  fall = fall
  boss = boss
  add = add
  Players = {p1, p2}
  Tracked = {p1}
  CauseKeys = {fire, fall}
  Bosses = {boss, add}
  NoBoss = NoBoss
  FirstLines <- WithHeader
  Lines <- Fight
  Capacity = 2
  Lookback = 3
  MaxCauses = 3
  MaxLines = 7
  MaxAhead = 1
  MaxFiles = 2
  MaxStarts = 2

SPECIFICATION Spec
INVARIANT TypeOK
INVARIANT CausesFromLog

CHECK_DEADLOCK FALSE
