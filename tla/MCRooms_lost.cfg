SPECIFICATION Spec
CONSTANTS
  Room = {r1}
  Conn = {c1, c2}
  Obj = {o1, o2, o3}
  Thread = {t1, t2}
  Modes <- OnlyEach
  NONE = NONE
  Ops = {"join", "leave"}
CHECK_DEADLOCK FALSE
INVARIANT JoinedIsMember
