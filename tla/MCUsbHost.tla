----------------------------- MODULE MCUsbHost -----------------------------
(***************************************************************************)
(* UsbHost for TLC: one place where devices come and go, one thing their   *)
(* drivers make, two controllers.                                          *)
(***************************************************************************)
EXTENDS UsbHost

CONSTANTS c1, c2, t1

=============================================================================
