---------------------------- MODULE PinOwnership ----------------------------
(***************************************************************************)
(* What the pin bookkeeping of the native library promises, without its    *)
(* locks, lists and error paths: a pin has at most one holder, only the    *)
(* holder sets it up, and a peripheral gives a pin back set up as it was   *)
(* found.  PeripheralPins implements this specification.                   *)
(***************************************************************************)

CONSTANTS
  Pins,          \* the chip's pins
  Peripherals,   \* holders that promise to put a pin back ("I2C1", "UART4")
  Controllers,   \* GPIO controllers: a pin stays as they last set it
  Settings,      \* how a pin can be set up: mode, alternate function, pull
  Free,          \* the holder of a pin nobody holds
  Unknown        \* the found setting of a pin no peripheral holds

VARIABLES
  holder,        \* [Pins -> Holders \cup {Free}]
  reg,           \* [Pins -> Settings]: how the pin is set up now
  found          \* [Pins -> Settings]: how a peripheral found it

vars == <<holder, reg, found>>

Holders == Peripherals \cup Controllers

Init ==
  /\ holder = [p \in Pins |-> Free]
  /\ reg \in [Pins -> Settings]
  /\ found = [p \in Pins |-> Unknown]

\* All of S at once, and only pins nobody holds.
Take(h, S) ==
  /\ \A p \in S : holder[p] = Free
  /\ holder' = [p \in Pins |-> IF p \in S THEN h ELSE holder[p]]
  /\ found' = [p \in Pins |-> IF p \in S /\ h \in Peripherals THEN reg[p] ELSE found[p]]
  /\ UNCHANGED reg

Configure(h, p) ==
  /\ holder[p] = h
  /\ \E s \in Settings : reg' = [reg EXCEPT ![p] = s]
  /\ UNCHANGED <<holder, found>>

\* Only one's own pins, and a peripheral's only when they are as it found them.
Give(h, S) ==
  /\ \A p \in S : holder[p] = h
  /\ h \in Peripherals => \A p \in S : reg[p] = found[p]
  /\ holder' = [p \in Pins |-> IF p \in S THEN Free ELSE holder[p]]
  /\ found' = [p \in Pins |-> IF p \in S THEN Unknown ELSE found[p]]
  /\ UNCHANGED reg

Next ==
  \E h \in Holders :
    \/ \E S \in SUBSET Pins : Take(h, S) \/ Give(h, S)
    \/ \E p \in Pins : Configure(h, p)

Spec == Init /\ [][Next]_vars

=============================================================================
