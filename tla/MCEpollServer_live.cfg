SPECIFICATION FairSpec
CONSTANTS
  N = 2
  Fd = {5}
  Conn = {c1}
  Total = 2
  MaxReq = 2
  Handle = {h1}
  Modes = {FALSE}
  CoroPool = 1
  SocketFull = FALSE
  Shutdown = TRUE
  None = None
CHECK_DEADLOCK FALSE
PROPERTIES
  
  StopsWhenTold
