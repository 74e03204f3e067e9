SPECIFICATION AssemblySpec
CONSTANTS
  s1 = s1
  s2 = s2
  p1 = p1
  p2 = p2
  c1 = c1
  c2 = c2
  Source = Source
  Copied = Copied
  Models <- MCModels
  Requests <- MCRequests
  Attributes <- MCDevices
  Configs = {c1, c2}
  Labels = {s1, s2, p1, p2}
  Blank = Blank
  MaxUpdates = 2
  MaxFaults = 1
INVARIANTS AssemblyTypeOK EndTellsTruth
PROPERTY FaithfulCopy
CHECK_DEADLOCK FALSE
