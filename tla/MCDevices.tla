------------------------------ MODULE MCDevices ------------------------------
(***************************************************************************)
(* Devices for TLC: two threads and a timer, a USB device of two           *)
(* interfaces with two reports, two slots of a touch screen, frames of two *)
(* bytes, and files that end in the midst of one, lines that end with two  *)
(* symbols of which the second may come alone, and a tool that writes two  *)
(* bytes into a pipe that holds one.                                       *)
(***************************************************************************)
EXTENDS Devices

CONSTANTS t1, t2, i1, i2

MCUses == [t \in Threads |-> IF t = t1 THEN {i1} ELSE {i1, i2}]

MCFedPoints == {[x |-> 1, y |-> 1, pressed |-> b] : b \in BOOLEAN}
MCBounds == {<<0, 1>>, <<0, 4>>}
MCNewLine == <<"r", "n">>
MCText == <<"n">>
MCMaxWritten == [t \in Threads |-> IF t = t1 THEN 2 ELSE 0]

=============================================================================
