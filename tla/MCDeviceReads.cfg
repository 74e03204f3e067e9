\* One call of a reading function while rows come and go.  It ends: nothing
\* calls it again, so the run may stop.
SPECIFICATION Spec
CONSTANTS
  d1 = d1
  d2 = d2
  s1 = s1
  s2 = s2
  p1 = p1
  c2 = c2
  e2 = e2
  m1 = m1
  sm = sm
  pm = pm
  em = em
  Devices = {d1, d2}
  Services = {s1, s2}
  Parts = {p1, c2, e2}
  ServiceModels = {sm}
  PartModels = {pm, em}
  DeviceOf <- MCDeviceOf
  ServiceOf <- MCServiceOf
  ServiceModelOf <- MCServiceModelOf
  ModelOf <- MCModelOf
  EdgeOf <- MCEdgeOf
  ProtocolOf <- MCProtocolOf
  KindOf <- MCKindOf
  NameOf <- MCNameOf
  Blank = ""
  NoId = NoId
  MaxWrites = 2
INVARIANTS TypeOK NothingMissed NothingInvented
CHECK_DEADLOCK FALSE
