------------------------------- MODULE MCGpio -------------------------------
(***************************************************************************)
(* Gpio for TLC.  Two pins and as many files, so that a closed pin's file  *)
(* number is given again; one thread that waits or closes while others     *)
(* call everything else, two callbacks.                                    *)
(***************************************************************************)
EXTENDS Gpio

MCPins == {1, 2}
MCFds == {5, 6}

=============================================================================
