---------------------------- MODULE MCIdleTracker ----------------------------
(* Two tunnels that share a connection.                                    *)
EXTENDS QuictunIdleTracker
CONSTANTS t1, t2, c1
MCConnOf == [t \in Tunnels |-> c1]
=============================================================================
