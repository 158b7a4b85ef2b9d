SPECIFICATION FairSpec
CONSTANTS
  Req = {r1, r2}
  IP = {i1, i2}
  MaxConn = 1
  MaxPerIP = 1
  QueueCap = 1
  MayClose = TRUE
CHECK_DEADLOCK FALSE
INVARIANT TypeOK
INVARIANT SlotsExact
INVARIANT LimitsKept
INVARIANT RegistryExact
PROPERTY AdmittedIsServed
PROPERTY ClosedFreesSlot
