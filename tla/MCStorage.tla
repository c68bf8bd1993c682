----------------------------- MODULE MCStorage -----------------------------
(***************************************************************************)
(* Storage for TLC: a USB stick, the disk of a USB card reader and the SD  *)
(* card slot, with mounts that an earlier program may have left.           *)
(***************************************************************************)
EXTENDS Storage

=============================================================================
