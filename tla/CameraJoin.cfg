CONSTANTS
  t1 = t1
  t2 = t2
  Threads = {t1, t2}
  ThreadCalls <- MCJoinCalls
  HandlerCalls = {}
  MaxStarts = 3
  MaxFrames = 3
  None = None
SPECIFICATION Spec
INVARIANT RunJoinsEnded
CHECK_DEADLOCK FALSE
