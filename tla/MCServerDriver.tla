-------------------------- MODULE MCServerDriver --------------------------
(* QuictunServerDriver for TLC: more connection IDs than are admitted. *)
EXTENDS QuictunServerDriver
===========================================================================
