CONSTANTS
  t1 = t1
  t2 = t2
  Threads = {t1, t2}
  Timers = {1}
  FedPoints <- MCFedPoints
  MaxFeeds = 2
  None = None
  i1 = i1
  i2 = i2
  Interfaces = {i1, i2}
  Uses <- MCUses
  Foreign = {i2}
  Limits = {"none", "some"}
  MaxPending = 2
  Readers = {t1}
  Bounds <- MCBounds
  Batch = 3
  MaxEvents = 2
  MaxPoints = 2
  Fingers = {0, 1}
  MaxTouches = 3
  FrameSize = 2
  Buffer = 2
  Lengths = {0, 3, 8, 9}
  MaxData = 4
  MaxFrames = 3
  Symbols = {"r", "n"}
  NewLine <- MCNewLine
  Text <- MCText
  Chunk = 2
  Room = 2
  MaxArrived = 3
  Lib = "program"
  Capacity = 1
  ReadSize = 1
  MaxWritten <- MCMaxWritten
SPECIFICATION Spec
INVARIANTS
  TypeOK
  OneDisplay
  NoCallAfterClose
  AllGivenBack
PROPERTIES
  ToldIsState
  EndsUpRight
CHECK_DEADLOCK FALSE
