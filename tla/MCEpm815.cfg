CONSTANTS
  pd0 = pd0
  pd1 = pd1
  rts = rts
  scl = scl
  i2c6 = i2c6
  i2c1 = i2c1
  pwm = pwm
  uart4 = uart4
  can1 = can1
  t1 = t1
  t2 = t2
  Pins <- MCPins
  I2cBuses = {i2c6, i2c1}
  PlainBuses = {pwm}
  UartPorts = {uart4}
  CanPorts = {can1}
  PinsOf <- MCPinsOf
  FlowPins <- MCFlowPins
  Speeds = {100, 400, 1000}
  Reachable <- MCReachable
  DefaultSpeed = 100
  Threads = {t1, t2}
  Uses <- MCUses
  NotAsked = NotAsked
  Free = Free
SPECIFICATION Spec
INVARIANTS
  TypeOK
  FlowControlMatchesPins
  NothingHalfInitialized
  InitializedKeepsPins
  LinkRunsOnItsPins
