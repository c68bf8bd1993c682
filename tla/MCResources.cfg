CONSTANTS
  w1 = w1
  w2 = w2
  w3 = w3
  b1 = b1
  b2 = b2
  b3 = b3
  Widgets <- MCWidgets
  Blocks <- MCBlocks
  Kinds = {"listbox", "messagebox", "menu", "menuitem", "grid", "chart", "gauge", "button", "image"}
  None = None
  Threads = {t1, t2}
  Controllers = {c1, c2}
  Modules = {m1, m2}
  Frequencies = {1, 2, 5, 30}
  Second = 12
  Ethernet = {1, 2}
  Wifi = {3}
  Dongles = {2}
  NetworkSettings <- MCNetworkSettings
  MaxChanges = 1
  MaxClients = 1
  Pids = {1, 2}
  Watchdogs = {1, 2}
  TicksPerSecond = 3
  Timeouts = {1, 3, 4, 6}
  Default = 5
SPECIFICATION Spec
INVARIANTS
  TypeOK
  MemoryIsOwned
  DriverFollowsUse
  WritesFit
  NetworkAsAsked
  HeldAsAsked
CHECK_DEADLOCK FALSE
