SPECIFICATION FairSpec
CONSTANTS
  POLL = POLL
  WS = {w1, w2}
  Racy = {w1}
  NONE = NONE
  MayStop = TRUE
CHECK_DEADLOCK FALSE
INVARIANT TypeOK
INVARIANT OneTransport
INVARIANT NothingLeft
PROPERTY UpgradeKeepsSession
PROPERTY TakesOver
PROPERTY SilentPollingReaped
