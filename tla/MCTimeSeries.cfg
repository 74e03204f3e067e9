SPECIFICATION Spec
CONSTANTS
  d1 = d1
  s1 = s1
  p1 = p1
  p2 = p2
  w1 = w1
  w2 = w2
  Callers = {w1, w2}
  Requests <- MCRequests
  Conditions <- MCConditions
  Nil = Nil
  Blank = Blank
  Width = 7
  Exact = 16
  FloatDigits <- MCFloatDigits
  Unfit <- MCUnfit
  Keep = 1
  MaxClock = 2
  MaxCalls = 2
  MaxDeletes = 1
  MaxFaults = 1
SYMMETRY Symmetry
INVARIANTS TypeOK AckedIsFound ReadsBack DeletedStaysDeleted
CHECK_DEADLOCK FALSE
