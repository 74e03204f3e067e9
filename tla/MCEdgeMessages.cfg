\* One request of the core and one of a mapper, sent and received any number
\* of times; names with and without a slash.
SPECIFICATION Spec
CONSTANTS
  bytes = bytes
  channel = channel
  Objects = {o1}
  Asks = {a1}
  OtherId = other
  Edges <- MCEdges
  Mappers <- MCMappers
  Resources <- MCResources
  Operations = {"report"}
  Values = {bytes, channel}
  Broken = {channel}
  Contents = {"", "bytes", "replaced"}
  Empty = ""
  TextOf <- MCTextOf
  Json <- MCJson
  Nil = Nil
  MaxPending = 2
  MaxArrived = 1
INVARIANTS TypeOK RepliesFitRequests SentAsMeant
PROPERTIES Answered
