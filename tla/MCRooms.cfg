SPECIFICATION Spec
CONSTANTS
  Room = {r1, r2}
  Conn = {c1, c2}
  Obj = {o1, o2, o3, o4, o5, o6}
  Thread = {t1, t2}
  Modes <- Every
  NONE = NONE
  Ops = {"join", "leave", "leaveAll", "clear", "send", "sendAll"}
CHECK_DEADLOCK FALSE
INVARIANT TypeOK
INVARIANT NoEmptyRoomLingers
INVARIANT TurnsInSync
PROPERTY BroadcastExact
PROPERTY RefinesMembership
SYMMETRY Symmetry
VIEW View
