SPECIFICATION Spec
CONSTANTS
  Session = {s1}
  NS = {n1}
  Conn = {c1, c2}
  Shutdown = Shutdown
  NONE = NONE
  UserOps = {"close", "joinInConnect", "reject", "shutdown"}
CHECK_DEADLOCK FALSE
INVARIANT TypeOK
INVARIANT DisconnectBound
INVARIANT NeverForgotten
INVARIANT ConnectedIsListed
INVARIANT BooksBalance
INVARIANT NoGhostMembers
PROPERTY NoConnectAfterDisconnect
PROPERTY RefinesLifecycle
SYMMETRY Symmetry
