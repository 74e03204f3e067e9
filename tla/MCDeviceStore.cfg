\* Two deletes at once; the events e1 and e2 of service s1 bear one name.
SPECIFICATION Spec
CONSTANTS
  d1 = d1
  s1 = s1
  e1 = e1
  e2 = e2
  a1 = a1
  NoDevice = NoDevice
  Calls = {c1, c2}
  Devices = {d1}
  Services = {s1}
  Events = {e1, e2}
  Alerts = {a1}
  Rules = {r1}
  Forwards = {f1}
  DeviceOf <- MCDeviceOf
  ServiceOf <- MCServiceOf
  SameName <- MCSameName
SYMMETRY Symmetry
INVARIANTS TypeOK NoLeftovers OnlyRacesBlockDelete
PROPERTIES DeleteIsAtomic
