----------------------------- MODULE MCResources -----------------------------
(***************************************************************************)
(* Resources for TLC: three widgets and blocks, two threads, controllers   *)
(* and modules, a PWM at four frequencies, two wired interfaces, one of    *)
(* them a dongle, and a radio, two gpiosets, and two watchdogs on a clock  *)
(* of three ticks a second.                                                *)
(***************************************************************************)
EXTENDS Resources

CONSTANTS w1, w2, w3, b1, b2, b3

MCWidgets == {w1, w2, w3}
MCBlocks == {b1, b2, b3}
MCNetworkSettings == {[type |-> "ethernet", dhcp |-> FALSE, mac |-> 2],
                      [type |-> "wifi", dhcp |-> FALSE, mac |-> None]}

=============================================================================
