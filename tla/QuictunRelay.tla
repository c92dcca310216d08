--------------------------- MODULE QuictunRelay ---------------------------
(***************************************************************************)
(* What a tunnel promises the QUIC peer, whatever happens inside: chunks   *)
(* come out on the TCP side in the order they were sent, each at most      *)
(* once, until the relay ends; it ends once, as "finished" only when there *)
(* is nothing left to deliver after the peer's FIN or when the TCP side    *)
(* has closed, and nothing is delivered afterwards.                        *)
(***************************************************************************)
EXTENDS Naturals, Sequences

VARIABLES
    sent,       \* chunks the peer has sent
    down,       \* of these, the ones on their way to the TCP side
    out,        \* chunks delivered
    peerDone,   \* the peer has sent its FIN
    tcpDone,    \* the TCP side has closed or failed
    phase       \* "open", "finished" or "cut"

relayVars == <<sent, down, out, peerDone, tcpDone, phase>>

\* The relay starts open, with what arrived before it existed.
RelayInit ==
    /\ sent \in Nat
    /\ down = [i \in 1..sent |-> i]
    /\ out = <<>>
    /\ peerDone \in BOOLEAN
    /\ tcpDone = FALSE
    /\ phase = "open"

\* The peer sends a chunk, the FIN, or both.
Accept ==
    /\ phase = "open" /\ ~peerDone
    /\ \/ /\ sent' = sent + 1
          /\ down' = Append(down, sent + 1)
       \/ UNCHANGED <<sent, down>>
    /\ peerDone' \in BOOLEAN
    /\ UNCHANGED <<out, tcpDone, phase>>

Deliver ==
    /\ phase = "open" /\ down # <<>>
    /\ out' = Append(out, Head(down))
    /\ down' = Tail(down)
    /\ UNCHANGED <<sent, peerDone, tcpDone, phase>>

\* A stream that is reset, or whose connection is lost, drops what has not
\* been read from it.
Discard ==
    /\ phase = "open"
    /\ \E n \in 0..Len(down) : down' = SubSeq(down, 1, n)
    /\ peerDone' \in {peerDone, FALSE}
    /\ UNCHANGED <<sent, out, tcpDone, phase>>

TcpCloses ==
    /\ phase = "open"
    /\ tcpDone' = TRUE
    /\ UNCHANGED <<sent, down, out, peerDone, phase>>

Finish ==
    /\ phase = "open"
    /\ (peerDone /\ down = <<>>) \/ tcpDone
    /\ phase' = "finished"
    /\ down' = <<>>
    /\ UNCHANGED <<sent, out, peerDone, tcpDone>>

Cut ==
    /\ phase = "open"
    /\ phase' = "cut"
    /\ down' = <<>>
    /\ UNCHANGED <<sent, out, peerDone, tcpDone>>

RelayNext == Accept \/ Deliver \/ Discard \/ TcpCloses \/ Finish \/ Cut

RelaySpec == RelayInit /\ [][RelayNext]_relayVars
===========================================================================
