SPECIFICATION Spec
CONSTANTS
  Session = {s1}
  NS = {n1}
  Conn = {c1}
  Shutdown = Shutdown
  NONE = NONE
  UserOps = {"close"}
CHECK_DEADLOCK FALSE
INVARIANT DisconnectAtMostOnce
