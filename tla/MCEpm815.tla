------------------------------ MODULE MCEpm815 ------------------------------
(***************************************************************************)
(* Epm815 for TLC.  I2C6, UART4 and CAN1 share PD0 and PD1; UART4 is given *)
(* flow control pins here, of which a PWM output takes one.  Two threads   *)
(* share the I2C bus and the PWM pin, the others have a thread each.       *)
(***************************************************************************)
EXTENDS Epm815, TLC

CONSTANTS pd0, pd1, rts, i2c6, i2c1, scl, pwm, uart4, can1, t1, t2

MCPins == {pd0, pd1, rts, scl}
MCPinsOf == [o \in Owners |->
  CASE o = pwm -> {rts} [] o = i2c1 -> {scl} [] OTHER -> {pd0, pd1}]
MCFlowPins == [u \in UartPorts |-> {rts}]
MCReachable == [b \in I2cBuses |-> 400]
MCUses == (t1 :> {i2c6, i2c1, can1}) @@ (t2 :> {i2c6, uart4, pwm})
=============================================================================
