SPECIFICATION FairSpec
CONSTANTS
  Session = {s1, s2}
  NS = {n1}
  Conn = {c1}
  Shutdown = Shutdown
  NONE = NONE
  UserOps = {"shutdown"}
CHECK_DEADLOCK FALSE
PROPERTY ServerCloseReturns
