CONSTANTS
  Paths = {"1-1"}
  Functions = {"Serial"}
  Drivers = {"none", "module"}
  Unknown = "Unknown"
  c1 = c1
  c2 = c2
  t1 = t1
  Controllers = {c1, c2}
  Threads = {t1}
  All = All
  None = None
  MaxPlugs = 2
  MaxMakes = 1
  MaxEnables = 2
  MaxLost = 1
SPECIFICATION Spec
INVARIANTS
  TypeOK
  EverythingTold
PROPERTIES
  NoCallAfterDisable
  EndsUpRight
CHECK_DEADLOCK FALSE
