SPECIFICATION Spec
CONSTANTS
  d1 = d1
  d2 = d2
  e1 = e1
  s0 = s0
  s1 = s1
  NewRows <- MCNewRows
  Resets = {r1, r2}
  Ids = {i1, i2}
  Devices = {d1, d2}
  Edges = {e1}
  EdgeOf <- MCEdgeOf
  Statuses = {s0, s1}
  Levels = {0, 1}
  Nothing = Nothing
  MaxWrites = 1
  MaxFailing = 1
INVARIANTS TypeOK NothingForgotten SplitNeedsOverlap
PROPERTY HealthLast
SYMMETRY Symmetry
CHECK_DEADLOCK FALSE
