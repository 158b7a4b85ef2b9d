SPECIFICATION FairSpec
CONSTANTS
  Session = {s1}
  NS = {n1}
  Conn = {c1, c2}
  Shutdown = Shutdown
  NONE = NONE
  UserOps = {"close", "reject"}
CHECK_DEADLOCK FALSE
PROPERTY CloseReturns
PROPERTY LostIsReaped
