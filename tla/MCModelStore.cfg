SPECIFICATION FairSpec
CONSTANTS
  a1 = a1
  a2 = a2
  n1 = n1
  n2 = n2
  s1 = s1
  p1 = p1
  Adders = {a1, a2}
  Names = {n1, n2}
  NameOf <- MCNameOf
  Wanted <- MCWanted
  Empty = Empty
  Gone = Gone
  Deleter = Deleter
  MaxModels = 3
  MaxDeletes = 1
  MaxOthers = 1
  MaxErased = 1
  Others = Others
  Device = Device
  RowNames = {s1, p1}
  MaxFaults = 1
INVARIANTS TypeOK ResultTellsTruth TwinsNeedARace
PROPERTY AddReturns
CHECK_DEADLOCK FALSE
