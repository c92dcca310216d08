------------------------- MODULE MCClientConnection -------------------------
(* Instances of QuictunClientConnection for TLC. *)
EXTENDS QuictunClientConnection

MCStreams == 1..MaxStreams
===========================================================================
