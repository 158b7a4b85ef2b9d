SPECIFICATION FairSpec
CONSTANTS
  Get = {g1, g2}
  Post = {p1, p2}
  Writer = {w1}
  Loop = Loop
  Cap = 1
  Load <- MCLoad
  NONE = NONE
CHECK_DEADLOCK FALSE
INVARIANT TypeOK
INVARIANT PostsWhole
INVARIANT TurnsAreSafe
PROPERTY AnsweredInOrder
PROPERTY NobodyWaits
PROPERTY Fetched
