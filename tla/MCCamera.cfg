CONSTANTS
  t1 = t1
  t2 = t2
  Threads = {t1, t2}
  ThreadCalls <- MCThreadCalls
  HandlerCalls = {"capture", "stop", "destroy"}
  MaxStarts = 2
  MaxFrames = 3
  None = None
SPECIFICATION Spec
INVARIANTS
  TypeOK
  FrameFinishesFirst
  StreamingRuns
PROPERTIES
  GoodPicture
  CallsReturn
CHECK_DEADLOCK FALSE
