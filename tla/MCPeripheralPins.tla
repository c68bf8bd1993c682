-------------------------- MODULE MCPeripheralPins --------------------------
(***************************************************************************)
(* PeripheralPins for TLC: UART5 and CAN2, which share their pins          *)
(* (Epm815.cpp:288 and 362), with UART5 connected with or without a third  *)
(* pin whose clock is off, and two GPIO controllers.                       *)
(***************************************************************************)
EXTENDS PeripheralPins, TLC

CONSTANTS tx, rx, cts, uart, can, c1, c2

MCPins == {tx, rx, cts}
MCPeripherals == {uart, can}
MCLists == (uart :> {<<tx, rx>>, <<tx, rx, cts>>}) @@ (can :> {<<tx, rx>>})
MCAlternate == (uart :> "uart") @@ (can :> "can")
MCSettings == {"reset", "output", "uart", "can"}

=============================================================================
