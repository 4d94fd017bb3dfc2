SPECIFICATION FairSpec
CONSTANTS
  Thread = {t1, t2}
  Call = {c1, c2}
  Kind = {"sync"}
  QueueSize = 1
  AsyncNum = 1
  AsyncCap = 1
  SockCap = 1
  Partial = FALSE
  Unreliable = FALSE
  None = None
CHECK_DEADLOCK FALSE
PROPERTY
  CallAnswered
