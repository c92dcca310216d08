---------------------- MODULE MCReusableSessionCache ----------------------
(* Instances of QuictunReusableSessionCache for TLC. *)
EXTENDS QuictunReusableSessionCache, TLC

CONSTANTS c1, c2, c3

MCConns == {c1, c2, c3}

\* Connections are interchangeable.
Symmetry == Permutations(MCConns)
===========================================================================
