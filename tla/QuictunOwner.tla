---------------------------- MODULE QuictunOwner ----------------------------
(***************************************************************************)
(* What a QuictunServerConnection and a QuictunClientConnection have in    *)
(* common: they own a session's tunnels.  The session routes the events of *)
(* a stream to its delegate; a tunnel that closes leaves the routing table *)
(* and the live map in one step, waits in a list and is destroyed by an    *)
(* alarm; the connection's Close() takes every tunnel down.                *)
(*                                                                         *)
(* All of this reenters: a packet that cannot be written closes the        *)
(* connection inside the call that wrote it.  stack holds the calls that   *)
(* have not returned, innermost first; a frame <<op, s, reset>> of a       *)
(* tunnel stands for code of that tunnel that is still to run.             *)
(*                                                                         *)
(* QuictunTunnel is reduced to what matters to its owner; what it does     *)
(* with data is the subject of module QuictunTunnel.                       *)
(***************************************************************************)
EXTENDS Naturals, Sequences

CONSTANTS
    Streams,        \* streams of the connection
    WriteErrorsIn   \* the calls in which a write may fail for good

ASSUME WriteErrorsAssumption == WriteErrorsIn \subseteq {"write", "reset", "stop", "read"}

VARIABLES
    str,     \* per stream: its two sides, what is unread, its delegate
    tun,     \* per stream: its tunnel and the tunnel's socket
    conn,    \* the connection, closed_, the garbage alarm
    stack,   \* calls that have not returned
    faults   \* contracts broken: CHECKs and DCHECKs that failed

ownerVars == <<str, tun, conn, stack, faults>>

NoStream == [life |-> "none", readClosed |-> FALSE, writeClosed |-> FALSE,
             stopped |-> FALSE, unread |-> 0, fin |-> FALSE, del |-> "none"]

NoTunnel == [at |-> "none", closed |-> FALSE, sock |-> "none", disc |-> FALSE]

OwnerInit ==
    /\ str = [s \in Streams |-> NoStream]
    /\ tun = [s \in Streams |-> NoTunnel]
    /\ conn = [connected |-> TRUE, closed |-> FALSE, alarm |-> FALSE, state |-> "up"]
    /\ stack = <<>>
    /\ faults = {}

Live == {s \in Streams : tun[s].at = "live"}

Idle == stack = <<>> /\ conn.state # "destroyed"

---------------------------------------------------------------------------
(* The call stack. *)

Top(op) == stack # <<>> /\ Head(stack)[1] = op

TopStream == Head(stack)[2]

TopReset == Head(stack)[3]

Call(frames) == stack' = frames \o Tail(stack)

Return == stack' = Tail(stack)

Frame(op, s) == <<op, s, FALSE>>

\* A stream whose second side closes is reported gone on the spot.
GoneCall(s, after) ==
    IF after.readClosed /\ after.writeClosed /\ str[s].life = "open"
       /\ ~(str[s].readClosed /\ str[s].writeClosed)
    THEN <<Frame("Gone", s)>> ELSE <<>>

\* The call may fail a write, which closes the connection.
MayFail(where, s) ==
    {<<>>} \cup (IF where \in WriteErrorsIn /\ conn.connected
                 THEN {<<Frame("ConnClose", s)>>} ELSE {})

---------------------------------------------------------------------------
(* The session. *)

\* Mutant of Gone: the tunnel closes although it is closing already.
GoneUnchecked ==
    /\ Top("Gone")
    /\ LET s == TopStream
       IN  /\ str' = [str EXCEPT ![s].life = "gone", ![s].del = "none"]
           /\ Call(IF str[s].del = "tunnel" THEN <<Frame("Close", s)>> ELSE <<>>)
    /\ UNCHANGED <<tun, conn, faults>>

\* QuictunSessionBase::OnStreamGone(): out of the routing table, then told.
Gone ==
    /\ Top("Gone")
    /\ LET s == TopStream
           toTunnel == str[s].del = "tunnel"
       IN  /\ str' = [str EXCEPT ![s].life = "gone", ![s].del = "none"]
           /\ Call(IF toTunnel /\ ~tun[s].closed
                   THEN <<Frame("Close", s)>> ELSE <<>>)
    /\ UNCHANGED <<tun, conn, faults>>

\* Reset(): STOP_SENDING and RESET_STREAM, which may fail to be written before
\* or after the stream is closed.
Reset ==
    /\ Top("Reset")
    /\ LET s == TopStream
           after == [str[s] EXCEPT !.readClosed = TRUE, !.writeClosed = TRUE,
                                   !.unread = 0]
       IN  \/ /\ str' = [str EXCEPT ![s] = after]
              /\ \E f \in MayFail("reset", s) : Call(GoneCall(s, after) \o f)
           \/ /\ MayFail("reset", s) # {<<>>}
              /\ Call(<<Frame("ConnClose", s)>>)
              /\ UNCHANGED str
    /\ UNCHANGED <<tun, conn, faults>>

\* The QUIC connection ends: its streams first, then its owner.
ConnClose ==
    /\ Top("ConnClose")
    /\ IF conn.connected
       THEN /\ conn' = [conn EXCEPT !.connected = FALSE]
            /\ Call(<<Frame("CloseStreams", TopStream), Frame("OwnerClose", TopStream)>>)
       ELSE Return /\ UNCHANGED conn
    /\ UNCHANGED <<str, tun, faults>>

CloseStreams ==
    /\ Top("CloseStreams")
    /\ LET open == {s \in Streams : str[s].life = "open"}
       IN  \/ \E s \in open :
                 /\ str' = [str EXCEPT ![s].readClosed = TRUE, ![s].writeClosed = TRUE,
                                       ![s].unread = 0]
                 /\ Call(<<Frame("Gone", s), Head(stack)>>)
           \/ open = {} /\ Return /\ UNCHANGED str
    /\ UNCHANGED <<tun, conn, faults>>

---------------------------------------------------------------------------
(* The tunnel. *)

\* QuictunTunnel::Close() up to and including StopReading(), which counts what
\* is unread as consumed and so may write a WINDOW_UPDATE.
CloseTunnel ==
    /\ Top("Close")
    /\ LET s == TopStream
           after == [str[s] EXCEPT !.stopped = TRUE, !.unread = 0,
                                   !.readClosed = @ \/ str[s].fin]
           rest == <<<<"Closing", s, TopReset>>>>
       IN  /\ tun' = [tun EXCEPT ![s].closed = TRUE]
           /\ faults' = faults \cup (IF tun[s].closed THEN {"closed twice"} ELSE {})
           /\ \E f \in (IF str[s].unread > 0 THEN MayFail("stop", s) ELSE {<<>>}) :
                 /\ str' = [str EXCEPT ![s] = IF f = <<>> THEN after
                              ELSE [str[s] EXCEPT !.stopped = TRUE, !.unread = 0]]
                 /\ Call((IF f = <<>> THEN GoneCall(s, after) ELSE f) \o rest)
    /\ UNCHANGED conn

\* Mutant of Closing: the session keeps routing to the tunnel.
ClosingKeepsDelegate ==
    /\ Top("Closing")
    /\ LET s == TopStream
       IN  /\ tun' = [tun EXCEPT ![s].disc = TRUE, ![s].at = "garbage",
                                 ![s].sock = IF tun[s].disc THEN @ ELSE "closed"]
           /\ conn' = [conn EXCEPT !.alarm = TRUE]
           /\ Call(<<<<"Closed", s, TopReset>>>>)
    /\ UNCHANGED <<str, faults>>

\* Mutant of Closing: the garbage alarm is not armed.
ClosingUnarmed ==
    /\ Top("Closing")
    /\ LET s == TopStream
       IN  /\ tun' = [tun EXCEPT ![s].disc = TRUE, ![s].at = "garbage",
                                 ![s].sock = IF tun[s].disc THEN @ ELSE "closed"]
           /\ str' = [str EXCEPT ![s].del = "none"]
           /\ Call(<<<<"Closed", s, TopReset>>>>)
    /\ UNCHANGED <<conn, faults>>

\* Mutant of Closing: the socket is left to its destructor.
ClosingKeepsSocket ==
    /\ Top("Closing")
    /\ LET s == TopStream
       IN  /\ tun' = [tun EXCEPT ![s].disc = TRUE, ![s].at = "garbage"]
           /\ str' = [str EXCEPT ![s].del = "none"]
           /\ conn' = [conn EXCEPT !.alarm = TRUE]
           /\ Call(<<<<"Closed", s, TopReset>>>>)
    /\ UNCHANGED faults

\* The rest of Close() up to and including on_closed_: the socket is
\* disconnected, once; the owner moves the tunnel out of its live map, takes
\* it out of the session's routing table and arms the garbage alarm.
Closing ==
    /\ Top("Closing")
    /\ LET s == TopStream
           disconnects == ~tun[s].disc
           owned == tun[s].at = "live"
       IN  /\ tun' = [tun EXCEPT ![s].disc = TRUE,
                                 ![s].sock = IF disconnects THEN "closed" ELSE @,
                                 ![s].at = IF owned THEN "garbage" ELSE @]
           /\ faults' = faults \cup
                 (IF disconnects /\ tun[s].sock \notin {"connecting", "connected"}
                  THEN {"Disconnect() of a closed socket"} ELSE {})
           /\ IF owned
              THEN /\ str' = [str EXCEPT ![s].del = "none"]
                   /\ conn' = [conn EXCEPT !.alarm = TRUE]
              ELSE UNCHANGED <<str, conn>>
           /\ Call(<<<<"Closed", s, TopReset>>>>)

\* The end of Close(): the stream is reset if that is still possible.
Closed ==
    /\ Top("Closed")
    /\ Call(IF TopReset /\ conn.connected THEN <<Frame("Reset", TopStream)>> ELSE <<>>)
    /\ UNCHANGED <<str, tun, conn, faults>>

\* A handler of a tunnel that has started: it returns, writes, writes a FIN,
\* reads what there is, or closes the tunnel; afterwards it goes on.
Work ==
    /\ Top("Work")
    /\ LET s == TopStream
           rest == <<Frame("Resume", s)>>
           finished == [str[s] EXCEPT !.writeClosed = TRUE]
           read == [str[s] EXCEPT !.unread = 0, !.readClosed = @ \/ str[s].fin]
       IN  \/ \E f \in MayFail("write", s) : Call(f \o rest) /\ UNCHANGED str
           \/ /\ str' = [str EXCEPT ![s] = finished]
              /\ Call(GoneCall(s, finished) \o rest)
           \/ \E f \in (IF str[s].unread > 0 THEN MayFail("read", s) ELSE {<<>>}) :
                 /\ str' = [str EXCEPT ![s] = IF f = <<>> THEN read
                              ELSE [str[s] EXCEPT !.unread = 0]]
                 /\ Call((IF f = <<>> THEN GoneCall(s, read) ELSE f) \o rest)
           \/ \E r \in BOOLEAN : Call(<<<<"Close", s, r>>>> \o rest) /\ UNCHANGED str
    /\ UNCHANGED <<tun, conn, faults>>

\* Back in the handler, which finds out whether the tunnel was closed.
Resume == Top("Resume") /\ Return /\ UNCHANGED <<str, tun, conn, faults>>

---------------------------------------------------------------------------
(* The owner. *)

\* Close(): the tunnels to be closed are listed before any of them is touched.
OwnerClose ==
    /\ Top("OwnerClose")
    /\ conn' = [conn EXCEPT !.closed = TRUE]
    /\ Call(<<Frame("CloseTunnels", Live), Frame("OwnerEnd", TopStream)>>)
    /\ UNCHANGED <<str, tun, faults>>

\* Close(), the loop: skip the tunnels that have closed meanwhile.
CloseTunnels ==
    /\ Top("CloseTunnels")
    /\ \/ \E s \in TopStream :
             Call((IF tun[s].closed THEN <<>> ELSE <<Frame("Close", s)>>)
                  \o <<Frame("CloseTunnels", TopStream \ {s})>>)
       \/ TopStream = {} /\ Return
    /\ UNCHANGED <<str, tun, conn, faults>>

\* Mutant of OwnerEnd: the list of closed tunnels is emptied as well.
OwnerEndClearsGarbage ==
    /\ Top("OwnerEnd")
    /\ tun' = [s \in Streams |->
                  IF tun[s].at \in {"live", "garbage"}
                  THEN [tun[s] EXCEPT !.at = "destroyed"] ELSE tun[s]]
    /\ conn' = [conn EXCEPT !.alarm = FALSE, !.state = "done"]
    /\ Return
    /\ UNCHANGED <<str, faults>>

\* Mutant of OwnerEnd: the driver is not told.
OwnerEndSilent ==
    /\ Top("OwnerEnd")
    /\ tun' = [s \in Streams |->
                  IF tun[s].at = "live" THEN [tun[s] EXCEPT !.at = "destroyed"] ELSE tun[s]]
    /\ conn' = [conn EXCEPT !.alarm = FALSE]
    /\ Return
    /\ UNCHANGED <<str, faults>>

\* The end of Close(): the live map is cleared, the list of closed tunnels is
\* not; the alarm is cancelled and the driver told.
OwnerEnd ==
    /\ Top("OwnerEnd")
    /\ tun' = [s \in Streams |->
                  IF tun[s].at = "live" THEN [tun[s] EXCEPT !.at = "destroyed"] ELSE tun[s]]
    /\ conn' = [conn EXCEPT !.alarm = FALSE, !.state = "done"]
    /\ Return
    /\ UNCHANGED <<str, faults>>

\* CollectStreamGarbage(), from the alarm.
CollectStreamGarbage ==
    /\ Idle /\ conn.alarm
    /\ tun' = [s \in Streams |->
                  IF tun[s].at = "garbage" THEN [tun[s] EXCEPT !.at = "destroyed"] ELSE tun[s]]
    /\ conn' = [conn EXCEPT !.alarm = FALSE]
    /\ UNCHANGED <<str, stack, faults>>

\* The driver's CollectGarbage() destroys the connection and all it holds.
Destroy ==
    /\ Idle /\ conn.state = "done"
    /\ tun' = [s \in Streams |->
                  IF tun[s].at \in {"live", "garbage"}
                  THEN [tun[s] EXCEPT !.at = "destroyed"] ELSE tun[s]]
    /\ conn' = [conn EXCEPT !.state = "destroyed"]
    /\ UNCHANGED <<str, stack, faults>>

---------------------------------------------------------------------------
(* Events. *)

\* A callback of the socket, the stream or an alarm of a tunnel at work.
TunnelEvent(s) ==
    /\ Idle /\ tun[s].at = "live" /\ ~tun[s].closed /\ tun[s].sock = "connected"
    /\ stack' = <<Frame("Work", s)>>
    /\ UNCHANGED <<str, tun, conn, faults>>

\* The idle sweep closes a tunnel, connected or still dialling.
IdleSweep(s) ==
    /\ Idle /\ tun[s].at = "live" /\ ~tun[s].closed
    /\ stack' = <<<<"Close", s, TRUE>>>>
    /\ UNCHANGED <<str, tun, conn, faults>>

\* RESET_STREAM from the peer closes the read side.
PeerReset(s) ==
    /\ Idle /\ conn.connected /\ str[s].life = "open" /\ ~str[s].readClosed
    /\ LET after == [str[s] EXCEPT !.readClosed = TRUE, !.unread = 0]
       IN  str' = [str EXCEPT ![s] = after] /\ stack' = GoneCall(s, after)
    /\ UNCHANGED <<tun, conn, faults>>

\* STOP_SENDING from the peer is answered by a reset of the write side.
PeerStopSending(s) ==
    /\ Idle /\ conn.connected /\ str[s].life = "open" /\ ~str[s].writeClosed
    /\ LET after == [str[s] EXCEPT !.writeClosed = TRUE]
       IN  str' = [str EXCEPT ![s] = after] /\ stack' = GoneCall(s, after)
    /\ UNCHANGED <<tun, conn, faults>>

\* The peer or a QUIC timeout closes the connection, or a write of its own
\* fails.
ConnectionLost ==
    /\ Idle /\ conn.connected
    /\ \E s \in Streams : stack' = <<Frame("ConnClose", s)>>
    /\ UNCHANGED <<str, tun, conn, faults>>

OwnerSteps ==
    \/ Reset \/ ConnClose \/ CloseStreams
    \/ CloseTunnel \/ Closing \/ Closed \/ Work \/ Resume
    \/ OwnerClose \/ CloseTunnels

OwnerEvents ==
    \/ CollectStreamGarbage \/ Destroy \/ ConnectionLost
    \/ \E s \in Streams : TunnelEvent(s) \/ IdleSweep(s) \/ PeerReset(s)

---------------------------------------------------------------------------

TunnelOps == {"Dial", "Work", "Resume", "Close", "Closing", "Closed"}

OwnerTypeOK ==
    /\ str \in [Streams ->
          [life : {"none", "open", "gone"}, readClosed : BOOLEAN,
           writeClosed : BOOLEAN, stopped : BOOLEAN, unread : Nat,
           fin : BOOLEAN, del : {"none", "conn", "tunnel"}]]
    /\ tun \in [Streams ->
          [at : {"none", "live", "garbage", "destroyed"}, closed : BOOLEAN,
           sock : {"none", "connecting", "connected", "failed", "closed"},
           disc : BOOLEAN]]
    /\ conn \in [connected : BOOLEAN, closed : BOOLEAN, alarm : BOOLEAN,
                 state : {"up", "done", "destroyed"}]

\* No tunnel is destroyed while its code is on the call stack, while Close()
\* still has to visit it, or while the session would route an event to it.
NothingUsedAfterDestruction ==
    /\ \A i \in 1..Len(stack) :
          /\ stack[i][1] \in TunnelOps => tun[stack[i][2]].at # "destroyed"
          /\ stack[i][1] = "CloseTunnels" =>
                \A s \in stack[i][2] : tun[s].at # "destroyed"
    /\ \A s \in Streams : str[s].del = "tunnel" => tun[s].at = "live"

\* No tunnel is closed twice and no socket disconnected that is not open.
ContractsKept == faults = {}

\* A tunnel is only destroyed after its socket has been closed: the socket's
\* destructor requires it, and the descriptor would leak.
SocketsReleased ==
    \A s \in Streams :
        tun[s].at = "destroyed" => tun[s].sock \in {"closed", "failed"}

\* Once the calls have returned, a lost connection has been reported to the
\* driver and nothing of it is left at work.
NothingLeftAtWork ==
    stack = <<>> /\ ~conn.connected =>
        /\ conn.closed /\ conn.state # "up"
        /\ Live = {}
        /\ \A s \in Streams : /\ tun[s].sock \notin {"connecting", "connected"}
                              /\ str[s].life # "open" /\ str[s].del = "none"

\* A closed tunnel is destroyed, by the alarm or with its connection.
GarbageDestroyed ==
    \A s \in Streams : tun[s].at = "garbage" ~> tun[s].at = "destroyed"
===========================================================================
