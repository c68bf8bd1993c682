\* UART5 and CAN2 on shared pins, one pin with its clock off, two controllers
CONSTANTS
  tx = tx
  rx = rx
  cts = cts
  uart = uart
  can = can
  c1 = c1
  c2 = c2
  Pins <- MCPins
  Peripherals <- MCPeripherals
  Controllers = {c1, c2}
  Lists <- MCLists
  Clocked = {tx, rx}
  Alternate <- MCAlternate
  Settings <- MCSettings
  GpioSettings = {"output"}
  Gpio = Gpio
  Free = Free
  Absent = Absent
  Unknown = Unknown
SPECIFICATION Spec
INVARIANTS
  TypeOK
  ConnectedStaysReserved
  OneControllerPerPin
  NoReservationLeaks
  ConnectedKeepsFunction
PROPERTY ImplementsPinOwnership
