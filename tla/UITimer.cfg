CONSTANTS
  Threads = {t1, t2}
  Timers = {1}
  FedPoints = {}
  MaxFeeds = 0
  None = None
SPECIFICATION UISpec
INVARIANT NoStaleCallback
CHECK_DEADLOCK FALSE
