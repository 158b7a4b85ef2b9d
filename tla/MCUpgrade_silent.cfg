SPECIFICATION FairSpec
CONSTANTS
  POLL = POLL
  WS = {w1}
  Racy = {w1}
  NONE = NONE
  MayStop = FALSE
CHECK_DEADLOCK FALSE
PROPERTY SilentReaped
