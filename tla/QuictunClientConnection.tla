----------------------- MODULE QuictunClientConnection -----------------------
(***************************************************************************)
(* QuictunClientConnection: accepted TCP connections wait in pending_tcps_ *)
(* until the peer's stream limit lets a stream be opened for them; the     *)
(* preamble is written before the tunnel exists, and that write can take   *)
(* the whole connection down.                                              *)
(***************************************************************************)
EXTENDS QuictunOwner, FiniteSets

CONSTANTS
    Tcps,        \* descriptors the driver hands over
    MaxStreams   \* Streams = 1..MaxStreams, the limit the server grants at last

ASSUME ClientAssumption == MaxStreams \in Nat /\ Streams = 1..MaxStreams

VARIABLES
    pending,  \* pending_tcps_
    limit,    \* streams the peer allows so far
    tcpOf,    \* per stream: the descriptor it was opened for
    given,    \* descriptors the driver has handed over
    closes    \* per descriptor: how often it was closed without a tunnel

NoTcp == "none"

clientVars == <<pending, limit, tcpOf, given, closes>>
vars == <<ownerVars, clientVars>>

\* A cached session may allow streams from the start.
Init ==
    /\ OwnerInit
    /\ pending = <<>>
    /\ limit \in 0..MaxStreams
    /\ tcpOf = [s \in Streams |-> NoTcp]
    /\ given = {}
    /\ closes = [t \in Tcps |-> 0]

Opened == {s \in Streams : str[s].life # "none"}

---------------------------------------------------------------------------
(* Operations. *)

\* AssignNewTcp(): a closed connection closes the descriptor.
AssignNewTcp(t) ==
    /\ Idle /\ t \notin given
    /\ given' = given \cup {t}
    /\ IF conn.closed
       THEN closes' = [closes EXCEPT ![t] = @ + 1] /\ UNCHANGED <<pending, stack>>
       ELSE /\ pending' = Append(pending, t)
            /\ stack' = <<Frame("Open", 0)>>
            /\ UNCHANGED closes
    /\ UNCHANGED <<str, tun, conn, faults, limit, tcpOf>>

\* The peer's transport parameters or a MAX_STREAMS frame.
OnCanCreateNewOutgoingStream ==
    /\ Idle /\ conn.connected
    /\ \E n \in (limit + 1)..MaxStreams : limit' = n
    /\ stack' = <<Frame("Open", 0)>>
    /\ UNCHANGED <<str, tun, conn, faults, pending, tcpOf, given, closes>>

\* Mutant of MaybeOpenStreams: it opens one stream and returns.
MaybeOpenOneStream ==
    /\ Top("Open")
    /\ LET s == Cardinality(Opened) + 1
       IN  IF conn.closed \/ pending = <<>> \/ s > limit
           THEN Return /\ UNCHANGED <<str, pending, tcpOf>>
           ELSE /\ str' = [str EXCEPT ![s].life = "open"]
                /\ tcpOf' = [tcpOf EXCEPT ![s] = Head(pending)]
                /\ pending' = Tail(pending)
                /\ \E f \in MayFail("write", s) : Call(f \o <<Frame("Opened", s)>>)
    /\ UNCHANGED <<tun, conn, faults, limit, given, closes>>

\* MaybeOpenStreams(), and StartTunnel() as far as the write of the preamble.
MaybeOpenStreams ==
    /\ Top("Open")
    /\ LET s == Cardinality(Opened) + 1
       IN  IF conn.closed \/ pending = <<>> \/ s > limit
           THEN Return /\ UNCHANGED <<str, pending, tcpOf>>
           ELSE /\ str' = [str EXCEPT ![s].life = "open"]
                /\ tcpOf' = [tcpOf EXCEPT ![s] = Head(pending)]
                /\ pending' = Tail(pending)
                /\ \E f \in MayFail("write", s) :
                      Call(f \o <<Frame("Opened", s), Head(stack)>>)
    /\ UNCHANGED <<tun, conn, faults, limit, given, closes>>

\* StartTunnel() after the write: give up if it closed the connection, else
\* the tunnel takes the descriptor and the stream and starts.
StartTunnel ==
    /\ Top("Opened")
    /\ LET s == TopStream
       IN  IF conn.closed
           THEN /\ closes' = [closes EXCEPT ![tcpOf[s]] = @ + 1]
                /\ Return
                /\ UNCHANGED <<str, tun>>
           ELSE /\ tun' = [tun EXCEPT ![s].at = "live", ![s].sock = "connected"]
                /\ str' = [str EXCEPT ![s].del = "tunnel"]
                /\ Call(<<Frame("Work", s)>>)
                /\ UNCHANGED closes
    /\ UNCHANGED <<conn, faults, pending, limit, tcpOf, given>>

\* Mutant of CloseEnd: the queue is not emptied after its descriptors are closed.
CloseEndKeepsQueue ==
    /\ OwnerEnd
    /\ closes' = [t \in Tcps |-> IF \E i \in 1..Len(pending) : pending[i] = t
                                 THEN closes[t] + 1 ELSE closes[t]]
    /\ UNCHANGED <<pending, limit, tcpOf, given>>

\* Close() also closes the descriptors that never got a stream.
CloseEnd ==
    /\ OwnerEnd
    /\ closes' = [t \in Tcps |-> IF \E i \in 1..Len(pending) : pending[i] = t
                                 THEN closes[t] + 1 ELSE closes[t]]
    /\ pending' = <<>>
    /\ UNCHANGED <<limit, tcpOf, given>>

OnStreamGone == Gone /\ UNCHANGED clientVars

\* Data and a FIN from the server.  One piece that is not read yet is enough
\* to tell a stream that holds data from one that does not.
DataArrives(s) ==
    /\ Idle /\ conn.connected /\ str[s].life = "open"
    /\ ~str[s].readClosed /\ ~str[s].fin
    /\ \E n \in {0, 1}, f \in BOOLEAN :
          /\ n = 1 \/ f
          /\ LET kept == [str[s] EXCEPT !.unread = IF n = 1 THEN 1 ELSE @, !.fin = f]
                 discarded == [str[s] EXCEPT !.fin = f, !.readClosed = f]
             IN  IF str[s].stopped
                 THEN /\ str' = [str EXCEPT ![s] = discarded]
                      /\ stack' = GoneCall(s, discarded)
                 ELSE /\ str' = [str EXCEPT ![s] = kept]
                      /\ stack' = IF str[s].del = "tunnel"
                                  THEN <<Frame("Work", s)>> ELSE <<>>
    /\ UNCHANGED <<tun, conn, faults, clientVars>>

Steps ==
    \/ MaybeOpenStreams \/ StartTunnel \/ OnStreamGone \/ CloseEnd
    \/ OwnerSteps /\ UNCHANGED clientVars

Events ==
    \/ \E t \in Tcps : AssignNewTcp(t)
    \/ OnCanCreateNewOutgoingStream
    \/ \E s \in Streams : DataArrives(s)
    \/ \E s \in Streams : PeerStopSending(s) /\ UNCHANGED clientVars
    \/ OwnerEvents /\ UNCHANGED clientVars

\* The end of the model: the driver has destroyed the connection.
Ended == conn.state = "destroyed" /\ UNCHANGED vars

Next == Steps \/ Events \/ Ended

Spec == Init /\ [][Next]_vars

\* As for the server: calls return, and the main loop comes round.
FairSpec ==
    /\ Spec
    /\ WF_vars(Steps)
    /\ SF_vars(CollectStreamGarbage /\ UNCHANGED clientVars)
    /\ SF_vars(Destroy /\ UNCHANGED clientVars)

---------------------------------------------------------------------------

TypeOK ==
    /\ OwnerTypeOK
    /\ pending \in Seq(given) /\ given \subseteq Tcps
    /\ limit \in 0..MaxStreams /\ Cardinality(Opened) <= limit
    /\ tcpOf \in [Streams -> given \cup {NoTcp}]
    /\ closes \in [Tcps -> Nat]

\* Types, with no stream opened beyond the peer's limit; no tunnel is closed
\* twice and no socket disconnected that is not open.
ConnectionInv == TypeOK /\ ContractsKept

\* Everyone who answers for a descriptor: its place in the queue, the call
\* that is opening a stream for it, its tunnel, or the close that ended it.
Owners(t) ==
    {<<"queue", i>> : i \in {j \in 1..Len(pending) : pending[j] = t}}
    \cup {<<"call", i>> : i \in {j \in 1..Len(stack) :
                             stack[j][1] = "Opened" /\ tcpOf[stack[j][2]] = t}}
    \cup {<<"tunnel", s>> : s \in {x \in Streams : tcpOf[x] = t /\ tun[x].at # "none"}}
    \cup {<<"closed", i>> : i \in 1..closes[t]}

\* Every descriptor the driver handed over has exactly one owner, at every
\* step of every call: it is neither leaked nor closed twice.
OneOwnerPerTcp ==
    \A t \in given : Cardinality(Owners(t)) = 1

\* A TCP connection only waits while the peer allows no further stream.
NoTcpStranded ==
    Idle /\ ~conn.closed /\ pending # <<>> => Cardinality(Opened) = limit
===========================================================================
