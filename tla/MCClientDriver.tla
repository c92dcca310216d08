--------------------------- MODULE MCClientDriver ---------------------------
(* Instances of QuictunClientDriver for TLC. *)
EXTENDS QuictunClientDriver
===========================================================================
