CONSTANTS
  Pins <- MCPins
  Fds <- MCFds
  Changes = {"rising"}
  Threads = {t1}
  MaxId = 2
  MaxChanges = 2
  MaxQueue = 1
  None = None
  NoFd = NoFd
SPECIFICATION Spec
INVARIANTS
  TypeOK
  CallbacksHeard
PROPERTIES
  EveryChangeRead
  DisposeReturns
CHECK_DEADLOCK FALSE
