------------------------------ MODULE MCCamera ------------------------------
(***************************************************************************)
(* Camera for TLC: a thread that calls everything, another one that stops  *)
(* the stream, and a handler that takes pictures, stops the stream and     *)
(* destroys the camera; and for the finding the calls it needs.            *)
(***************************************************************************)
EXTENDS Camera, TLC

CONSTANTS t1, t2

MCThreadCalls == (t1 :> Operations) @@ (t2 :> {"stop"})
MCJoinCalls == (t1 :> {"capture", "start"}) @@ (t2 :> {"set"})

=============================================================================
