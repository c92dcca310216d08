---------------------------- MODULE MCTcpSocket ----------------------------
(* Instances of QuictunTcpSocket for TLC. *)
EXTENDS QuictunTcpSocket
===========================================================================
