\* Two handlers and two leaks over a pool of two connections; the handlers may
\* stop each other for good.
SPECIFICATION FairSpec
CONSTANTS
  Calls = {c1, c2}
  Objects = {o1, o2}
  MaxOpen = 2
  MaxServices = 2
  MaxEvents = 1
  MaxLeaks = 2
  InnoDB = FALSE
  Nobody = Nobody
  Orphan = Orphan
INVARIANTS TypeOK PoolAccounting LockOwnership GridlockIsNested
PROPERTY StuckTogether
CHECK_DEADLOCK FALSE
