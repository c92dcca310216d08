------------------------- MODULE MCServerConnection -------------------------
(* Instances of QuictunServerConnection for TLC. *)
EXTENDS QuictunServerConnection

\* With --transparent: a good stream, a wrong key, an unsupported address.
TransparentWires ==
    {<<"k1", "k2", "a1", "a2", "d1">>, <<"k1", "x2", "d1">>, <<"k1", "k2", "b1">>}

\* With --target: a good stream and a wrong key.
TargetWires == {<<"k1", "k2", "d1", "d2">>, <<"k1", "x2", "d1">>}
===========================================================================
