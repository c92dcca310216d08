----------------------------- MODULE MCTunnel -----------------------------
(* QuictunTunnel for TLC: bounds only, given in the configurations. *)
EXTENDS QuictunTunnel
===========================================================================
