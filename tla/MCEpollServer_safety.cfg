SPECIFICATION Spec
CONSTANTS
  N = 2
  Fd = {4, 5}
  Conn = {c1, c2}
  Total = 2
  MaxReq = 1
  Handle = {h1}
  Modes = {TRUE, FALSE}
  CoroPool = 1
  SocketFull = TRUE
  Shutdown = FALSE
  None = None
CHECK_DEADLOCK FALSE
SYMMETRY ConnSymmetry
INVARIANTS
  ResponseIsolation
  RegisteredWhileOpen
  CloseEventLast
