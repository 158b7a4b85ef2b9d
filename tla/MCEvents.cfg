SPECIFICATION FairSpec
CONSTANTS
  Event = {e1, e2, e3}
  WithID = {e2, e3}
  Waiting = {e1}
  Call = {k1, k2}
  Binary = {k2}
  Parts = {k1, k2}
  Max = 2
  NONE = NONE
  Ops = {"hasty"}
CHECK_DEADLOCK FALSE
INVARIANT PlacesExact
INVARIANT AnswersFireOnce
INVARIANT PacketsWhole
PROPERTY FailedStaysQuiet
PROPERTY LoopGoesOn
