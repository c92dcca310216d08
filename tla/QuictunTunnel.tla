--------------------------- MODULE QuictunTunnel ---------------------------
(***************************************************************************)
(* One QuictunTunnel (quictun_tunnel.cc): a QUIC stream relayed to and     *)
(* from a TCP socket, on the client (an accepted socket, connected from    *)
(* the start) or on the server (a socket the tunnel's owner dials, the     *)
(* tunnel being its AsyncVisitor).                                         *)
(*                                                                         *)
(* The process is single-threaded, so what interleaves is callbacks; but   *)
(* they nest: the socket completes inline, and a failing UDP write closes  *)
(* the whole connection inside WriteToStream().  The nesting is the        *)
(* variable todo, the calls still to be made, innermost first.  An event   *)
(* of the event loop happens when todo is empty; a step takes the head of  *)
(* todo and may put the calls it makes in front of the rest.               *)
(*                                                                         *)
(* A chunk is what one Read() of the stream or one receive of the socket   *)
(* returns.  Chunks from the peer are numbered, so that their order can be *)
(* followed; chunks from the TCP side are counted.  The idle lists are in  *)
(* QuictunIdleTracker: here only stalled_, the class, is kept.             *)
(***************************************************************************)
EXTENDS Integers, Sequences

CONSTANTS
    MaxQueued,  \* kMaxQueuedChunks
    Retry,      \* kFlushCloseRetryInterval, in ticks
    FlushWait,  \* kMaxFlushCloseWait, in ticks
    MaxDown,    \* bound: chunks the peer sends on the stream
    MaxUp       \* bound: chunks the TCP side sends

ASSUME TunnelAssumption ==
    /\ MaxQueued \in Nat \ {0}
    /\ MaxDown \in Nat /\ MaxUp \in Nat
    /\ Retry \in Nat \ {0} /\ FlushWait \in Nat \ {0}

VARIABLES
    tun,      \* the QuictunTunnel's members
    str,      \* its QuictunStream: sequencer, send buffer, the two sides
    sock,     \* its ConnectingClientSocket and the kernel socket behind it
    todo,     \* calls to be made before the event loop regains control
    sent,     \* number of chunks the peer has sent so far
    tcpOut,   \* chunks the TCP socket has accepted, in order
    elapsed,  \* ticks since send_done_time_
    reason,   \* why Close() was called; "" while the tunnel is open
    faults    \* contracts broken: the CHECKs and DCHECKs that failed

vars == <<tun, str, sock, todo, sent, tcpOut, elapsed, reason, faults>>

Calls == {"ConnectAsync", "ConnectOk", "ConnectFailed", "Start", "Fill",
          "BeginRead", "Flush", "AfterQuicFin", "Finalize",
          "RcvData", "AfterWrite", "RcvEof", "RcvErr", "WriteFin",
          "SendOk", "SendErr", "UpdateIdleClass",
          "OnStreamDataAvailable", "OnStreamCanWriteMore", "OnStreamGone"}

Reasons == {"", "stream closed", "target connect failed", "TCP receive error",
            "TCP send error", "tunnel finished", "flush wait exceeded",
            "idle timeout"}

---------------------------------------------------------------------------
(* The stream as the tunnel sees it. *)

\* HasBufferedData(): bytes written and not yet on the wire; the FIN is not
\* one of them.  pre is the client's preamble, written before the tunnel
\* exists.
HasBufferedData(s) == s.pre + s.buffered > 0

\* IsWaitingForAcks(): a FIN that has not been sent is not outstanding.
IsWaitingForAcks(s) == ~s.rstSent /\ (s.unacked > 0 \/ s.finUnacked)

Gone(s) == s.readClosed /\ s.writeClosed

\* OnStreamGone() is called by whatever closes the second side.
GoneCall(before, after) ==
    IF Gone(after) /\ ~Gone(before) THEN <<"OnStreamGone">> ELSE <<>>

\* The connection fails under the stream: both sides are closed at once.
Dead(s) == [s EXCEPT !.connected = FALSE, !.readClosed = TRUE,
                     !.writeClosed = TRUE, !.unread = <<>>]

\* The states WriteBufferedData() can leave: everything, some or nothing of
\* what is buffered goes out, and the FIN only behind all of it.
Written(s) ==
    LET total == s.pre + s.buffered
        Drain(d) == [s EXCEPT !.pre = IF d > 0 THEN 0 ELSE @,
                              !.buffered = IF d > s.pre THEN @ - (d - s.pre) ELSE @,
                              !.unacked = @ + d]
    IN  {Drain(d) : d \in 0..total} \cup
        (IF s.finBuffered
         THEN {[Drain(total) EXCEPT !.finUnacked = TRUE, !.writeClosed = TRUE]}
         ELSE {})

\* WriteToStream(data, fin): nothing once a FIN is buffered or the write side
\* is closed; written through only if nothing was buffered before; and a
\* write error closes the connection.
WriteOutcomes(s, data, fin) ==
    IF s.finBuffered \/ s.writeClosed THEN {s}
    ELSE LET t == [s EXCEPT !.buffered = @ + data, !.finBuffered = fin]
         IN  IF HasBufferedData(s) THEN {t} ELSE Written(t) \cup {Dead(t)}

\* Reset(QUIC_STREAM_CANCELLED): STOP_SENDING and RESET_STREAM.
Reset(s) == [s EXCEPT !.rstSent = TRUE, !.readClosed = TRUE,
                      !.writeClosed = TRUE, !.unread = <<>>]

---------------------------------------------------------------------------
(* Parts of the tunnel that are used by several handlers. *)

\* IsHoldingBuffer().
IsHoldingBuffer(t, s) == Len(t.pending) >= MaxQueued \/ HasBufferedData(s)

\* NoteActivity() and UpdateIdleClass(): the class follows the buffers.
Classified(t, s) ==
    IF t.closed THEN t ELSE [t EXCEPT !.stalled = IsHoldingBuffer(t, s)]

Step(call) == todo # <<>> /\ Head(todo) = call

Return == todo' = Tail(todo)

Call(calls) == todo' = calls \o Tail(todo)

Idle == todo = <<>>

\* Close(): the callbacks it causes inline (Cancelled completions of the
\* socket, OnStreamGone() of a stream StopReading() or Reset() closes) find
\* closed_ set and return, so it is one step; t and s are the tunnel and
\* the stream at the call.
CloseWith(t, s, why, reset) ==
    LET disconnects == ~t.disconnected
        stopped == [s EXCEPT !.unread = <<>>, !.readClosed = @ \/ s.fin]
    IN  /\ tun' = [t EXCEPT !.closed = TRUE, !.alarm = 0, !.receiving = FALSE,
                            !.sending = 0, !.disconnected = TRUE]
        /\ str' = IF reset /\ s.connected THEN Reset(stopped) ELSE stopped
        /\ sock' = IF disconnects THEN [sock EXCEPT !.state = "closed"] ELSE sock
        /\ faults' = faults
              \cup (IF t.closed THEN {"closed twice"} ELSE {})
              \cup (IF disconnects /\ sock.state \notin {"connecting", "connected"}
                    THEN {"Disconnect() of a closed socket"} ELSE {})
        /\ reason' = why

\* A socket operation on a socket that is not connected fails a CHECK.
UseSocket(op, busy) ==
    faults' = faults
        \cup (IF sock.state # "connected" THEN {op} ELSE {})
        \cup (IF busy THEN {"two at once"} ELSE {})

---------------------------------------------------------------------------
(* Steps: the body of one call, up to and including the calls it makes. *)

\* The owner's ConnectAsync() on the server: it fails at once, connects at
\* once or is left pending.
ConnectAsync ==
    /\ Step("ConnectAsync")
    /\ \/ /\ sock' = [sock EXCEPT !.state = "failed"]
          /\ Call(<<"ConnectFailed">>)
       \/ /\ sock' = [sock EXCEPT !.state = "connected"]
          /\ Call(<<"ConnectOk">>)
       \/ /\ sock' = [sock EXCEPT !.state = "connecting"]
          /\ Return
    /\ UNCHANGED <<tun, str, sent, tcpOut, elapsed, reason, faults>>

ConnectOk ==
    /\ Step("ConnectOk")
    /\ IF tun.closed THEN Return ELSE Call(<<"Start">>)
    /\ UNCHANGED <<tun, str, sock, sent, tcpOut, elapsed, reason, faults>>

\* ConnectComplete() with an error: the socket is closed already.
ConnectFailed ==
    /\ Step("ConnectFailed")
    /\ Return
    /\ IF tun.closed
       THEN UNCHANGED <<tun, str, sock, reason, faults>>
       ELSE CloseWith([tun EXCEPT !.disconnected = TRUE], str,
                      "target connect failed", TRUE)
    /\ UNCHANGED <<sent, tcpOut, elapsed>>

\* Mutant of Start: what the sequencer already holds is not picked up.
StartWithoutFill ==
    /\ Step("Start")
    /\ tun' = Classified([tun EXCEPT !.started = TRUE, !.pending = @ \o tun.seed,
                                     !.seed = <<>>], str)
    /\ Call(<<"BeginRead", "Flush">>)
    /\ UNCHANGED <<str, sock, sent, tcpOut, elapsed, reason, faults>>

Start ==
    /\ Step("Start")
    /\ tun' = Classified([tun EXCEPT !.started = TRUE, !.pending = @ \o tun.seed,
                                     !.seed = <<>>], str)
    /\ Call(<<"Fill", "BeginRead", "Flush">>)
    /\ UNCHANGED <<str, sock, sent, tcpOut, elapsed, reason, faults>>

\* Mutant of OnStreamDataAvailable: the !started_ guard is missing.
OnStreamDataAvailableUnguarded ==
    /\ Step("OnStreamDataAvailable")
    /\ IF tun.closed THEN Return ELSE Call(<<"Fill", "Flush">>)
    /\ UNCHANGED <<tun, str, sock, sent, tcpOut, elapsed, reason, faults>>

OnStreamDataAvailable ==
    /\ Step("OnStreamDataAvailable")
    /\ IF tun.closed \/ ~tun.started THEN Return ELSE Call(<<"Fill", "Flush">>)
    /\ UNCHANGED <<tun, str, sock, sent, tcpOut, elapsed, reason, faults>>

\* The stream calls this only while no FIN is buffered, that is while
\* tcp_receive_done_ is false: the branch for the other case is never taken.
OnStreamCanWriteMore ==
    /\ Step("OnStreamCanWriteMore")
    /\ IF tun.closed \/ ~tun.started
       THEN Return /\ UNCHANGED tun
       ELSE IF tun.rcvDone
       THEN Call(<<"Finalize">>) /\ UNCHANGED tun
       ELSE /\ tun' = Classified(tun, str)
            /\ IF tun.receiving \/ HasBufferedData(str)
               THEN Return ELSE Call(<<"BeginRead">>)
    /\ UNCHANGED <<str, sock, sent, tcpOut, elapsed, reason, faults>>

OnStreamGone ==
    /\ Step("OnStreamGone")
    /\ Return
    /\ IF tun.closed
       THEN UNCHANGED <<tun, str, sock, reason, faults>>
       ELSE CloseWith(tun, str, "stream closed", FALSE)
    /\ UNCHANGED <<sent, tcpOut, elapsed>>

\* FillQueueFromStream(): chunks are read while there is room, and the FIN is
\* seen by the Read() that consumes the last of them, or by one that finds
\* nothing.  Read() of the FIN closes the read side.
Fill ==
    /\ Step("Fill")
    /\ LET room == MaxQueued - Len(tun.pending)
           n == IF room < Len(str.unread) THEN room ELSE Len(str.unread)
           finRead == room > 0 /\ str.fin /\ n = Len(str.unread)
           s == [str EXCEPT !.unread = SubSeq(@, n + 1, Len(@)),
                            !.readClosed = @ \/ finRead]
           t == [tun EXCEPT !.pending = @ \o SubSeq(str.unread, 1, n),
                            !.quicDone = @ \/ finRead]
       IN  /\ str' = s
           /\ tun' = Classified(t, s)
           /\ Call(GoneCall(str, s))
    /\ UNCHANGED <<sock, sent, tcpOut, elapsed, reason, faults>>

\* BeginReadFromTcp(): ReceiveAsync() answers inline when the kernel has
\* something to report.
BeginRead ==
    /\ Step("BeginRead")
    /\ IF tun.closed \/ tun.receiving \/ tun.rcvDone
       THEN Return /\ UNCHANGED <<tun, faults>>
       ELSE /\ tun' = [tun EXCEPT !.receiving = TRUE]
            /\ UseSocket("ReceiveAsync()", FALSE)
            /\ CASE sock.err        -> Call(<<"RcvErr">>)
                 [] sock.avail > 0  -> Call(<<"RcvData">>)
                 [] sock.eof        -> Call(<<"RcvEof">>)
                 [] OTHER           -> Return
    /\ UNCHANGED <<str, sock, sent, tcpOut, elapsed, reason>>

\* Mutant of RcvData: UpdateIdleClass() runs only before the write, inside
\* NoteActivity().
RcvDataClassifiedEarly ==
    /\ Step("RcvData")
    /\ sock' = [sock EXCEPT !.avail = @ - 1]
    /\ tun' = Classified([tun EXCEPT !.receiving = FALSE], str)
    /\ \E s \in WriteOutcomes(str, 1, FALSE) :
          /\ str' = s
          /\ Call(GoneCall(str, s) \o <<"AfterWrite">>)
    /\ UNCHANGED <<sent, tcpOut, elapsed, reason, faults>>

\* ReceiveComplete() with data.
RcvData ==
    /\ Step("RcvData")
    /\ sock' = [sock EXCEPT !.avail = @ - 1]
    /\ tun' = Classified([tun EXCEPT !.receiving = FALSE], str)
    /\ \E s \in WriteOutcomes(str, 1, FALSE) :
          /\ str' = s
          /\ Call(GoneCall(str, s) \o <<"AfterWrite", "UpdateIdleClass">>)
    /\ UNCHANGED <<sent, tcpOut, elapsed, reason, faults>>

\* The rest of ReceiveComplete() once WriteToStream() has returned.
AfterWrite ==
    /\ Step("AfterWrite")
    /\ IF HasBufferedData(str) THEN Return ELSE Call(<<"BeginRead">>)
    /\ UNCHANGED <<tun, str, sock, sent, tcpOut, elapsed, reason, faults>>

UpdateIdleClass ==
    /\ Step("UpdateIdleClass")
    /\ tun' = Classified(tun, str)
    /\ Return
    /\ UNCHANGED <<str, sock, sent, tcpOut, elapsed, reason, faults>>

\* ReceiveComplete() at EOF.
RcvEof ==
    /\ Step("RcvEof")
    /\ tun' = [tun EXCEPT !.receiving = FALSE, !.rcvDone = TRUE]
    /\ elapsed' = 0
    /\ Call(<<"WriteFin", "Finalize">>)
    /\ UNCHANGED <<str, sock, sent, tcpOut, reason, faults>>

RcvErr ==
    /\ Step("RcvErr")
    /\ Return
    /\ CloseWith([tun EXCEPT !.receiving = FALSE], str, "TCP receive error", TRUE)
    /\ UNCHANGED <<sent, tcpOut, elapsed>>

\* WriteToStream("", fin = true).
WriteFin ==
    /\ Step("WriteFin")
    /\ \E s \in WriteOutcomes(str, 0, TRUE) :
          /\ str' = s
          /\ Call(GoneCall(str, s))
    /\ UNCHANGED <<tun, sock, sent, tcpOut, elapsed, reason, faults>>

\* SendComplete(): the socket has taken the whole chunk.
SendOk ==
    /\ Step("SendOk")
    /\ tcpOut' = Append(tcpOut, tun.sending)
    /\ tun' = [tun EXCEPT !.sending = 0]
    /\ Call(<<"Fill", "Flush">>)
    /\ UNCHANGED <<str, sock, sent, elapsed, reason, faults>>

SendErr ==
    /\ Step("SendErr")
    /\ Return
    /\ CloseWith([tun EXCEPT !.sending = 0], str, "TCP send error", TRUE)
    /\ UNCHANGED <<sent, tcpOut, elapsed>>

\* Mutant of Flush: an empty queue counts as delivered although the last
\* chunk is still in flight.
FlushEmptyQueueFirst ==
    /\ Step("Flush")
    /\ IF tun.closed
       THEN Return /\ UNCHANGED <<tun, faults>>
       ELSE IF tun.pending = <<>>
       THEN Call(<<"AfterQuicFin">>) /\ UNCHANGED <<tun, faults>>
       ELSE IF tun.sending # 0
       THEN Return /\ UNCHANGED <<tun, faults>>
       ELSE /\ tun' = [tun EXCEPT !.sending = Head(tun.pending),
                                  !.pending = Tail(@)]
            /\ UseSocket("SendAsync()", FALSE)
            /\ \/ Call(<<"SendOk", "UpdateIdleClass">>)
               \/ Call(<<"SendErr", "UpdateIdleClass">>)
               \/ Call(<<"UpdateIdleClass">>)
    /\ UNCHANGED <<str, sock, sent, tcpOut, elapsed, reason>>

\* MaybeFlushQuicToTcp(): SendAsync() completes inline or later.
Flush ==
    /\ Step("Flush")
    /\ IF tun.closed \/ tun.sending # 0
       THEN Return /\ UNCHANGED <<tun, faults>>
       ELSE IF tun.pending = <<>>
       THEN Call(<<"AfterQuicFin">>) /\ UNCHANGED <<tun, faults>>
       ELSE /\ tun' = [tun EXCEPT !.sending = Head(tun.pending),
                                  !.pending = Tail(@)]
            /\ UseSocket("SendAsync()", tun.sending # 0)
            /\ \/ Call(<<"SendOk", "UpdateIdleClass">>)
               \/ Call(<<"SendErr", "UpdateIdleClass">>)
               \/ Call(<<"UpdateIdleClass">>)
    /\ UNCHANGED <<str, sock, sent, tcpOut, elapsed, reason>>

\* Mutant of AfterQuicFin: the TCP side is left to close first.
AfterQuicFinWaits ==
    /\ Step("AfterQuicFin")
    /\ IF tun.closed \/ ~tun.quicDone \/ ~tun.rcvDone
       THEN Return ELSE Call(<<"Finalize">>)
    /\ UNCHANGED <<tun, elapsed>>
    /\ UNCHANGED <<str, sock, sent, tcpOut, reason, faults>>

\* MaybeCloseAfterQuicFin().
AfterQuicFin ==
    /\ Step("AfterQuicFin")
    /\ IF tun.closed \/ ~tun.quicDone
       THEN Return /\ UNCHANGED <<tun, elapsed>>
       ELSE IF tun.rcvDone
       THEN Call(<<"Finalize">>) /\ UNCHANGED <<tun, elapsed>>
       ELSE /\ tun' = [tun EXCEPT !.rcvDone = TRUE]
            /\ elapsed' = 0
            /\ Call(<<"WriteFin", "Finalize">>)
    /\ UNCHANGED <<str, sock, sent, tcpOut, reason, faults>>

\* The alarm MaybeFinalizeClose() leaves: earlier of the two deadlines, and
\* never moved later.
NextAlarm ==
    LET deadline == IF elapsed + Retry < FlushWait THEN elapsed + Retry ELSE FlushWait
    IN  IF tun.alarm = 0 \/ tun.alarm > deadline THEN deadline ELSE tun.alarm

\* Mutant of Finalize: unacknowledged data is not waited for.
FinalizeEarly ==
    /\ Step("Finalize")
    /\ Return
    /\ IF tun.closed \/ ~tun.rcvDone
       THEN UNCHANGED <<tun, str, sock, reason, faults>>
       ELSE IF ~HasBufferedData(str)
       THEN CloseWith(tun, str, "tunnel finished", FALSE)
       ELSE IF elapsed >= FlushWait
       THEN CloseWith(tun, str, "flush wait exceeded", TRUE)
       ELSE /\ tun' = [tun EXCEPT !.alarm = NextAlarm]
            /\ UNCHANGED <<str, sock, reason, faults>>
    /\ UNCHANGED <<sent, tcpOut, elapsed>>

\* Mutant of Finalize: the alarm that retries is not set.
FinalizeOnce ==
    /\ Step("Finalize")
    /\ Return
    /\ IF tun.closed \/ ~tun.rcvDone \/ HasBufferedData(str) \/ IsWaitingForAcks(str)
       THEN UNCHANGED <<tun, str, sock, reason, faults>>
       ELSE CloseWith(tun, str, "tunnel finished", FALSE)
    /\ UNCHANGED <<sent, tcpOut, elapsed>>

\* MaybeFinalizeClose().
Finalize ==
    /\ Step("Finalize")
    /\ Return
    /\ IF tun.closed \/ ~tun.rcvDone
       THEN UNCHANGED <<tun, str, sock, reason, faults>>
       ELSE IF ~HasBufferedData(str) /\ ~IsWaitingForAcks(str)
       THEN CloseWith(tun, str, "tunnel finished", FALSE)
       ELSE IF elapsed >= FlushWait
       THEN CloseWith(tun, str, "flush wait exceeded", TRUE)
       ELSE /\ tun' = [tun EXCEPT !.alarm = NextAlarm]
            /\ UNCHANGED <<str, sock, reason, faults>>
    /\ UNCHANGED <<sent, tcpOut, elapsed>>

---------------------------------------------------------------------------
(* Events: what the event loop or the network does next.  None reaches the *)
(* tunnel once it is closed: its delegate and its alarm are cleared and    *)
(* its socket is disconnected.                                             *)

\* The outcome of a pending dial-out.
DialCompletes ==
    /\ Idle /\ ~tun.closed /\ sock.state = "connecting"
    /\ \/ /\ sock' = [sock EXCEPT !.state = "connected"]
          /\ todo' = <<"ConnectOk">>
       \/ /\ sock' = [sock EXCEPT !.state = "failed"]
          /\ todo' = <<"ConnectFailed">>
    /\ UNCHANGED <<tun, str, sent, tcpOut, elapsed, reason, faults>>

\* STREAM frames: a chunk, a chunk with the FIN, or the FIN alone.  A FIN
\* behind unread data is not announced.
PeerSends(data, fin) ==
    /\ Idle /\ ~tun.closed /\ str.connected
    /\ ~str.fin /\ ~str.readClosed
    /\ sent + data <= MaxDown
    /\ sent' = sent + data
    /\ str' = [str EXCEPT !.unread = IF data = 1 THEN Append(@, sent + 1) ELSE @,
                          !.fin = fin]
    /\ todo' = IF data = 1 \/ str.unread = <<>>
               THEN <<"OnStreamDataAvailable">> ELSE <<>>
    /\ UNCHANGED <<tun, sock, tcpOut, elapsed, reason, faults>>

PeerData == PeerSends(1, FALSE)

PeerFin == \E data \in 0..1 : PeerSends(data, TRUE)

\* RESET_STREAM closes the read side only; a FIN is still seen afterwards if
\* everything before it had been read.
PeerReset ==
    /\ Idle /\ ~tun.closed /\ str.connected /\ ~str.readClosed
    /\ str' = [str EXCEPT !.readClosed = TRUE, !.unread = <<>>, !.rstReceived = TRUE,
                          !.fin = @ /\ str.unread = <<>>]
    /\ todo' = GoneCall(str, str')
    /\ UNCHANGED <<tun, sock, sent, tcpOut, elapsed, reason, faults>>

\* STOP_SENDING is answered by RESET_STREAM and closes the write side.
PeerStopSending ==
    /\ Idle /\ ~tun.closed /\ str.connected
    /\ ~(str.writeClosed /\ ~IsWaitingForAcks(str))
    /\ str' = [str EXCEPT !.rstSent = TRUE, !.writeClosed = TRUE]
    /\ todo' = GoneCall(str, str')
    /\ UNCHANGED <<tun, sock, sent, tcpOut, elapsed, reason, faults>>

\* The peer acknowledges: nothing is called back.
AckData ==
    /\ Idle /\ ~tun.closed /\ str.connected /\ str.unacked > 0
    /\ str' = [str EXCEPT !.unacked = @ - 1]
    /\ UNCHANGED <<tun, sock, todo, sent, tcpOut, elapsed, reason, faults>>

AckFin ==
    /\ Idle /\ ~tun.closed /\ str.connected /\ str.finUnacked
    /\ str' = [str EXCEPT !.finUnacked = FALSE]
    /\ UNCHANGED <<tun, sock, todo, sent, tcpOut, elapsed, reason, faults>>

\* QuicStream::OnCanWrite(): buffered bytes and then the FIN go out, and the
\* tunnel is told only while no FIN is buffered.
OnCanWrite ==
    /\ Idle /\ ~tun.closed /\ str.connected /\ ~str.writeClosed
    /\ HasBufferedData(str) \/ str.finBuffered
    /\ str' \in Written(str)
    /\ todo' = GoneCall(str, str')
                 \o (IF str.finBuffered THEN <<>> ELSE <<"OnStreamCanWriteMore">>)
    /\ UNCHANGED <<tun, sock, sent, tcpOut, elapsed, reason, faults>>

\* The connection closes: by the peer, a write error, or its idle timeout.
ConnectionCloses ==
    /\ Idle /\ ~tun.closed /\ str.connected
    /\ str' = Dead(str)
    /\ todo' = GoneCall(str, str')
    /\ UNCHANGED <<tun, sock, sent, tcpOut, elapsed, reason, faults>>

\* CloseIdleTunnels() finds the tunnel expired.
IdleSweep ==
    /\ Idle /\ ~tun.closed /\ tun.started
    /\ CloseWith(tun, str, "idle timeout", TRUE)
    /\ UNCHANGED <<todo, sent, tcpOut, elapsed>>

\* The TCP side sends a chunk, closes its write side, or fails.
TcpArrives ==
    /\ Idle /\ ~tun.closed /\ sock.state = "connected" /\ ~sock.eof /\ ~sock.err
    /\ \/ sock.given < MaxUp /\ sock' = [sock EXCEPT !.avail = @ + 1, !.given = @ + 1]
       \/ sock' = [sock EXCEPT !.eof = TRUE]
       \/ sock' = [sock EXCEPT !.err = TRUE]
    /\ UNCHANGED <<tun, str, todo, sent, tcpOut, elapsed, reason, faults>>

\* OnSocketEvent(kSocketEventReadable) for the receive that is waiting.
SocketReadable ==
    /\ Idle /\ ~tun.closed /\ tun.receiving
    /\ sock.avail > 0 \/ sock.eof \/ sock.err
    /\ todo' = CASE sock.err       -> <<"RcvErr">>
                 [] sock.avail > 0 -> <<"RcvData">>
                 [] OTHER          -> <<"RcvEof">>
    /\ UNCHANGED <<tun, str, sock, sent, tcpOut, elapsed, reason, faults>>

\* OnSocketEvent(kSocketEventWritable) for the send that is waiting.
SocketWritable ==
    /\ Idle /\ ~tun.closed /\ tun.sending # 0
    /\ todo' \in {<<"SendOk">>, <<"SendErr">>}
    /\ UNCHANGED <<tun, str, sock, sent, tcpOut, elapsed, reason, faults>>

\* OnFlushCloseAlarm().
FlushAlarm ==
    /\ Idle /\ tun.alarm # 0 /\ elapsed >= tun.alarm
    /\ tun' = [tun EXCEPT !.alarm = 0]
    /\ todo' = <<"Finalize">>
    /\ UNCHANGED <<str, sock, sent, tcpOut, elapsed, reason, faults>>

\* Time passes; an alarm that is due runs first.
Tick ==
    /\ Idle /\ ~tun.closed /\ tun.rcvDone
    /\ elapsed <= FlushWait /\ ~(tun.alarm # 0 /\ elapsed >= tun.alarm)
    /\ elapsed' = elapsed + 1
    /\ UNCHANGED <<tun, str, sock, todo, sent, tcpOut, reason, faults>>

\* A closed tunnel is garbage: nothing happens to it any more.
Collected == Idle /\ tun.closed /\ UNCHANGED vars

---------------------------------------------------------------------------

InitTun(seed) ==
    [started |-> FALSE, closed |-> FALSE, stalled |-> FALSE, receiving |-> FALSE,
     rcvDone |-> FALSE, quicDone |-> FALSE, disconnected |-> FALSE,
     seed |-> seed, pending |-> <<>>, sending |-> 0, alarm |-> 0]

InitStr(pre, unacked, unread, fin, readClosed) ==
    [unread |-> unread, fin |-> fin, readClosed |-> readClosed, rstReceived |-> FALSE,
     pre |-> pre, buffered |-> 0, unacked |-> unacked, finBuffered |-> FALSE,
     finUnacked |-> FALSE, writeClosed |-> FALSE, rstSent |-> FALSE,
     connected |-> TRUE]

InitSock(state) ==
    [state |-> state, avail |-> 0, given |-> 0, eof |-> FALSE, err |-> FALSE]

\* QuictunClientConnection::StartTunnel(): the preamble has been written, it
\* may or may not be on the wire, and the accepted socket is connected.
ClientInit ==
    /\ tun = InitTun(<<>>)
    /\ \E pre \in 0..1 : str = InitStr(pre, 1 - pre, <<>>, FALSE, FALSE)
    /\ sock = InitSock("connected")
    /\ todo = <<"Start">>
    /\ sent = 0

\* QuictunServerConnection::StartTunnelForStream(): bytes behind the preamble
\* are the seed, more may be unread, and the FIN may have been read with it.
ServerInit ==
    \E seed \in {<<>>, <<1>>}, more \in 0..1, fin \in BOOLEAN :
        LET first == Len(seed) IN
        /\ first + more <= MaxDown
        /\ tun = InitTun(seed)
        /\ str = InitStr(0, 0, IF more = 1 THEN <<first + 1>> ELSE <<>>, fin,
                         fin /\ more = 0)
        /\ sock = InitSock("new")
        /\ todo = <<"ConnectAsync">>
        /\ sent = first + more

Init ==
    /\ ClientInit \/ ServerInit
    /\ tcpOut = <<>>
    /\ elapsed = 0
    /\ reason = ""
    /\ faults = {}

Steps ==
    \/ ConnectAsync \/ ConnectOk \/ ConnectFailed \/ Start
    \/ OnStreamDataAvailable \/ OnStreamCanWriteMore \/ OnStreamGone
    \/ Fill \/ BeginRead \/ RcvData \/ AfterWrite \/ UpdateIdleClass
    \/ RcvEof \/ RcvErr \/ WriteFin \/ SendOk \/ SendErr
    \/ Flush \/ AfterQuicFin \/ Finalize

Events ==
    \/ DialCompletes \/ PeerData \/ PeerFin \/ PeerReset \/ PeerStopSending
    \/ AckData \/ AckFin \/ OnCanWrite \/ ConnectionCloses \/ IdleSweep
    \/ TcpArrives \/ SocketReadable \/ SocketWritable \/ FlushAlarm

Next == Steps \/ Events \/ Tick \/ Collected

\* A call that has begun runs to its end; time passes; and every iteration of
\* the event loop fires the alarms that are due, however busy the stream is.
\* The peer, the TCP side and the sweep owe nothing.
Fairness ==
    /\ WF_vars(Steps)
    /\ SF_vars(FlushAlarm)
    /\ SF_vars(Tick)

SafeSpec == Init /\ [][Next]_vars

Spec == SafeSpec /\ Fairness

---------------------------------------------------------------------------
(* Properties *)

\* The members, the stream and the socket have their types, and the queue
\* its bound: pending_to_tcp_ never holds more than kMaxQueuedChunks.
TypeOK ==
    /\ tun.pending \in Seq(1..MaxDown) /\ Len(tun.pending) <= MaxQueued
    /\ tun.sending \in 0..MaxDown /\ tun.alarm \in 0..FlushWait
    /\ str.unread \in Seq(1..MaxDown) /\ str.pre \in 0..1
    /\ str.buffered \in 0..MaxUp /\ str.unacked \in 0..MaxUp + 1
    /\ sock.state \in {"new", "connecting", "connected", "failed", "closed"}
    /\ sock.avail \in 0..MaxUp
    /\ todo \in Seq(Calls) /\ reason \in Reasons
    /\ elapsed \in 0..FlushWait + 1

\* No callback order breaks a contract that the code CHECKs or DCHECKs:
\* Close() runs once (quictun_tunnel.cc:555), and the socket is never used
\* before it is connected, after it is disconnected, or twice at once
\* (event_loop_connecting_client_socket.cc).
ContractsKept == faults = {}

\* "We just read EOF" and "we still have unsent data from a previous read"
\* exclude each other (quictun_tunnel.cc:206-208), because reading from TCP
\* resumes only when the stream has handed everything off.
EofNeverBehindData ==
    /\ str.buffered <= 1
    /\ Step("RcvEof") => str.buffered = 0

\* Whenever the event loop has control, a started tunnel is waiting for
\* something that will come: what is queued for TCP has a send in flight,
\* what is unread waits for that send too, the peer's FIN has been acted on
\* once all is delivered, TCP is being read unless the stream is congested,
\* and a tunnel that has sent its FIN has its alarm set.
NothingForgotten ==
    Idle /\ tun.started /\ ~tun.closed =>
        /\ tun.pending # <<>> \/ str.unread # <<>> => tun.sending # 0
        /\ str.fin /\ tun.pending = <<>> /\ tun.sending = 0 => tun.rcvDone
        /\ ~tun.rcvDone => tun.receiving \/ HasBufferedData(str)
        /\ tun.rcvDone => tun.alarm \in elapsed..FlushWait

\* Whenever the event loop has control, and so whenever the idle sweep can
\* run, stalled_ says what IsHoldingBuffer() says: each place that fills or
\* drains a buffer reclassifies the tunnel.  Once the FIN is written the
\* stream no longer reports that its buffer drains.
ClassIsCurrent ==
    Idle /\ tun.started /\ ~tun.closed /\ ~tun.rcvDone =>
        tun.stalled = IsHoldingBuffer(tun, str)

\* Types and bounds, and the two facts about its buffers that the tunnel's
\* comments rely on, at EOF and at the idle sweep.
TunnelInv == TypeOK /\ EofNeverBehindData /\ ClassIsCurrent

\* A tunnel that finishes because TCP reached EOF has had every chunk of TCP
\* data acknowledged by the peer, unless the peer refused it with
\* STOP_SENDING (tcp_receive_done_, quictun_tunnel.h:329-344).
UplinkComplete ==
    reason = "tunnel finished" /\ ~tun.quicDone /\ ~str.rstSent =>
        sock.avail = 0 /\ ~HasBufferedData(str) /\ str.unacked = 0

\* The tunnel as a relay: its queues are one channel from the peer to the
\* TCP side.
InFlight ==
    (IF tun.sending = 0 THEN <<>> ELSE <<tun.sending>>)
        \o tun.pending \o tun.seed \o str.unread

Relay == INSTANCE QuictunRelay WITH
    sent <- sent,
    down <- IF tun.closed THEN <<>> ELSE InFlight,
    out <- tcpOut,
    peerDone <- str.fin,
    tcpDone <- sock.eof \/ sock.err,
    phase <- CASE reason = "" -> "open"
               [] reason = "tunnel finished" -> "finished"
               [] OTHER -> "cut"

\* The tunnel implements QuictunRelay: whatever the order of callbacks, data
\* from the stream reaches the socket in order, without loss or repetition,
\* until the end, and a tunnel that "finished" without the TCP side closing
\* has delivered all of it.
ImplementsRelay == Relay!RelaySpec

\* Once the tunnel has sent its FIN it closes: acknowledged or not, the
\* flush alarm ends the wait (kMaxFlushCloseWait).
FlushEnds == tun.rcvDone ~> tun.closed

\* The target answers the dial-out and takes the bytes it is sent, or fails.
\* Each iteration of the event loop polls the socket.
LiveSpec == Spec /\ SF_vars(DialCompletes) /\ SF_vars(SocketWritable)

\* The peer's FIN ends the tunnel even if the TCP side never closes
\* (quic_receive_done_, quictun_tunnel.h:354-368), unless the peer goes on
\* to reset the stream.
FinEndsTunnel == str.fin ~> (tun.closed \/ str.rstReceived)

\* quictun_tunnel.cc:242-244 on a stream that ends by itself: "nothing left
\* to forward in either direction".
NothingLeftWhenStreamGone ==
    Step("OnStreamGone") /\ ~tun.closed /\ str.connected
        /\ ~str.rstSent /\ ~str.rstReceived =>
            tun.pending = <<>> /\ tun.sending = 0
===========================================================================
