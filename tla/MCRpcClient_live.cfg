SPECIFICATION FairSpec
CONSTANTS
  Thread = {t1}
  Call = {c1, c2}
  Kind = {"sync", "async"}
  QueueSize = 2
  AsyncNum = 1
  AsyncCap = 2
  SockCap = 1
  Partial = FALSE
  Unreliable = FALSE
  None = None
CHECK_DEADLOCK FALSE
PROPERTIES
  WakeupNotLost
  CallbackRuns
  RequestTaken
