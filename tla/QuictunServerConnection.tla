----------------------- MODULE QuictunServerConnection -----------------------
(***************************************************************************)
(* QuictunServerConnection: every stream of the connection authenticates   *)
(* itself with a preamble (the key, and the address to dial when           *)
(* --transparent is set); what follows the preamble is payload.  The       *)
(* connection is the delegate of a stream until its preamble is complete,  *)
(* and a tunnel from then on.                                              *)
(*                                                                         *)
(* The bytes of a stream are pieces: "k1" "k2" the key's length and the    *)
(* key, "x2" another key, "a1" "a2" the two parts of an address header,    *)
(* "b1" an address type that is not supported, anything else payload.      *)
(* Pieces arrive and are read in groups of any size.                       *)
(***************************************************************************)
EXTENDS QuictunOwner

CONSTANTS
    Wires,        \* what a client may send on a stream
    Transparent,  \* --transparent
    FinAfterStop  \* may a stream see STOP_SENDING and FIN before it has a tunnel?

ASSUME ServerAssumption == Transparent \in BOOLEAN /\ FinAfterStop \in BOOLEAN

VARIABLES
    wire,     \* per stream: what the client sends on it
    arrived,  \* per stream: how many pieces have arrived
    got,      \* per stream: how many of them the connection has read
    buf,      \* key_read_buffers_: the streams that have a buffer
    seed,     \* per stream: pending_seed_data_ of its tunnel
    short     \* streams that ended before they were authenticated

authVars == <<wire, arrived, got, buf, seed, short>>
vars == <<ownerVars, authVars>>

Init ==
    /\ OwnerInit
    /\ wire \in [Streams -> Wires]
    /\ arrived = [s \in Streams |-> 0]
    /\ got = [s \in Streams |-> 0]
    /\ buf = {}
    /\ seed = [s \in Streams |-> <<>>]
    /\ short = {}

---------------------------------------------------------------------------
(* The preamble. *)

KeyLength == 2
HeaderLength == 2

\* ParseQuictunTransparentHeader(): the type is looked at as soon as it is
\* there, the address when all of it is.
ParseQuictunTransparentHeader(rest) ==
    CASE rest = <<>> -> "incomplete"
      [] rest # <<>> /\ Head(rest) # "a1" -> "invalid"
      [] OTHER -> IF Len(rest) < HeaderLength THEN "incomplete" ELSE "complete"

\* Mutant of Preamble: the address header is looked for in front of the key.
PreambleUnkeyed(b) ==
    IF Len(b) < KeyLength THEN [result |-> "incomplete", offset |-> 0]
    ELSE [result |-> "complete", offset |-> KeyLength]

\* Mutant of Preamble: the header's length is not added to the offset.
PreambleShort(b) ==
    IF Len(b) < KeyLength THEN [result |-> "incomplete", offset |-> 0]
    ELSE IF b[KeyLength] # "k2" THEN [result |-> "invalid", offset |-> 0]
    ELSE [result |-> IF Transparent
                     THEN ParseQuictunTransparentHeader(SubSeq(b, KeyLength + 1, Len(b)))
                     ELSE "complete",
          offset |-> KeyLength]

\* What OnStreamDataAvailable() makes of the bytes it has read so far.
Preamble(b) ==
    IF Len(b) < KeyLength THEN [result |-> "incomplete", offset |-> 0]
    ELSE IF b[KeyLength] # "k2" THEN [result |-> "invalid", offset |-> 0]
    ELSE IF ~Transparent THEN [result |-> "complete", offset |-> KeyLength]
    ELSE [result |-> ParseQuictunTransparentHeader(SubSeq(b, KeyLength + 1, Len(b))),
          offset |-> KeyLength + HeaderLength]

---------------------------------------------------------------------------
(* Authentication: OnStreamDataAvailable(). *)

\* It returns at once unless the stream has a buffer.
Auth ==
    /\ Top("Auth")
    /\ Call(IF TopStream \in buf /\ ~conn.closed /\ str[TopStream].life = "open"
            THEN <<Frame("Read", TopStream)>> ELSE <<>>)
    /\ UNCHANGED <<str, tun, conn, faults, authVars>>

\* stream->Read(): some of what is there.  Reading the FIN closes the read
\* side; reading anything may write a WINDOW_UPDATE.
ReadChunk ==
    /\ Top("Read")
    /\ LET s == TopStream
       IN  \E n \in IF str[s].unread = 0 THEN {0} ELSE 1..str[s].unread :
              LET taken == [str[s] EXCEPT !.unread = @ - n]
                  after == [taken EXCEPT !.readClosed = @ \/ (str[s].fin /\ taken.unread = 0)]
                  rest == <<<<"Parse", s, n = 0>>>>
              IN  /\ got' = [got EXCEPT ![s] = @ + n]
                  /\ \E f \in (IF n > 0 THEN MayFail("read", s) ELSE {<<>>}) :
                        /\ str' = [str EXCEPT ![s] = IF f = <<>> THEN after ELSE taken]
                        /\ Call((IF f = <<>> THEN GoneCall(s, after) ELSE f) \o rest)
    /\ UNCHANGED <<tun, conn, faults, wire, arrived, buf, seed, short>>

\* Mutant of Parse: an incomplete preamble ends the loop.
ParseOnce ==
    /\ Top("Parse")
    /\ LET s == TopStream
           bytes == SubSeq(wire[s], 1, got[s])
           p == Preamble(bytes)
       IN  \/ /\ p.result = "complete"
              /\ buf' = buf \ {s}
              /\ seed' = [seed EXCEPT ![s] = SubSeq(bytes, p.offset + 1, Len(bytes))]
              /\ Call(<<Frame("StartTunnel", s)>>)
           \/ /\ p.result # "complete"
              /\ Return
              /\ UNCHANGED <<buf, seed>>
    /\ UNCHANGED <<str, tun, conn, faults, wire, arrived, got, short>>

\* What the loop sees in its buffer: anything, if the buffer was dropped while
\* it was reading.
Seen(s, bytes) ==
    IF s \in buf THEN {Preamble(bytes)}
    ELSE [result : {"incomplete", "invalid", "complete"}, offset : 0..Len(bytes)]

\* The body of the loop: refuse the stream, start its tunnel, read on, or
\* leave the rest for later.
Parse ==
    /\ Top("Parse")
    /\ LET s == TopStream
           empty == TopReset
           bytes == SubSeq(wire[s], 1, got[s])
           ended == str[s].fin /\ str[s].unread = 0
       IN  \E p \in Seen(s, bytes) :
           \/ /\ p.result = "invalid"
              /\ Call(<<Frame("Reset", s), Frame("Erase", s)>>)
              /\ UNCHANGED <<buf, seed, short>>
           \/ /\ p.result = "complete"
              /\ buf' = buf \ {s}
              /\ seed' = [seed EXCEPT ![s] = SubSeq(bytes, p.offset + 1, Len(bytes))]
              /\ Call(<<Frame("StartTunnel", s)>>)
              /\ UNCHANGED short
           \/ /\ p.result = "incomplete" /\ ~empty
              /\ Call(<<Frame("Read", s)>>)
              /\ UNCHANGED <<buf, seed, short>>
           \/ /\ p.result = "incomplete" /\ empty
              /\ IF ended
                 THEN buf' = buf \ {s} /\ short' = short \cup {s}
                 ELSE UNCHANGED <<buf, short>>
              /\ Return
              /\ UNCHANGED seed
    /\ UNCHANGED <<str, tun, conn, faults, wire, arrived, got>>

\* The end of a refusal.
Erase ==
    /\ Top("Erase")
    /\ buf' = buf \ {TopStream}
    /\ Return
    /\ UNCHANGED <<str, tun, conn, faults, wire, arrived, got, seed, short>>

\* StartTunnelForStream(): the tunnel becomes the delegate and the dial-out
\* begins; ConnectAsync() may finish on the spot.
StartTunnelForStream ==
    /\ Top("StartTunnel")
    /\ LET s == TopStream
       IN  /\ tun' = [tun EXCEPT ![s].at = "live", ![s].sock = "connecting"]
           /\ str' = [str EXCEPT ![s].del = "tunnel"]
           /\ \E now \in BOOLEAN : Call(IF now THEN <<Frame("Dial", s)>> ELSE <<>>)
    /\ UNCHANGED <<conn, faults, authVars>>

\* Mutant of ConnectComplete: a failed dial is closed like any other tunnel.
ConnectCompleteDisconnects ==
    /\ Top("Dial")
    /\ LET s == TopStream
       IN  \/ /\ tun' = [tun EXCEPT ![s].sock = "connected"]
              /\ Call(<<Frame("Work", s)>>)
           \/ /\ tun' = [tun EXCEPT ![s].sock = "failed"]
              /\ Call(<<<<"Close", s, TRUE>>>>)
    /\ UNCHANGED <<str, conn, faults, authVars>>

\* ConnectComplete(): the socket of a failed dial is closed already.
ConnectComplete ==
    /\ Top("Dial")
    /\ LET s == TopStream
       IN  \/ /\ tun' = [tun EXCEPT ![s].sock = "connected"]
              /\ Call(<<Frame("Work", s)>>)
           \/ /\ tun' = [tun EXCEPT ![s].sock = "failed", ![s].disc = TRUE]
              /\ Call(<<<<"Close", s, TRUE>>>>)
    /\ UNCHANGED <<str, conn, faults, authVars>>

\* OnStreamGone(): of a tunnel's stream, or of one that has a buffer.
OnStreamGone ==
    /\ Gone
    /\ buf' = IF str[TopStream].del = "conn" THEN buf \ {TopStream} ELSE buf
    /\ UNCHANGED <<wire, arrived, got, seed, short>>

\* Close() also drops the buffers.
CloseEnd ==
    /\ OwnerEnd
    /\ buf' = {}
    /\ UNCHANGED <<wire, arrived, got, seed, short>>

---------------------------------------------------------------------------
(* Events. *)

\* OnNewStream(), before the data of the frame that opened the stream.
OnNewStream(s) ==
    /\ Idle /\ conn.connected /\ str[s].life = "none"
    /\ str' = [str EXCEPT ![s].life = "open", ![s].del = "conn"]
    /\ buf' = buf \cup {s}
    /\ stack' = <<Frame("Auth", s)>>
    /\ UNCHANGED <<tun, conn, faults, wire, arrived, got, seed, short>>

\* Who is told that stream s can be read.
Notify(s) ==
    CASE str[s].del = "conn" -> <<Frame("Auth", s)>>
      [] str[s].del = "tunnel" /\ tun[s].sock = "connected" -> <<Frame("Work", s)>>
      [] OTHER -> <<>>

\* Data, a FIN, or both.  After StopReading() they are discarded, and a FIN
\* closes the read side on its own.
DataArrives(s) ==
    /\ Idle /\ conn.connected /\ str[s].life = "open"
    /\ ~str[s].readClosed /\ ~str[s].fin
    /\ \E n \in {0, 1}, f \in BOOLEAN :
          /\ n = 1 \/ f
          /\ f => FinAfterStop \/ str[s].del # "conn" \/ ~str[s].writeClosed
          /\ arrived[s] + n <= Len(wire[s])
          /\ arrived' = [arrived EXCEPT ![s] = @ + n]
          /\ LET kept == [str[s] EXCEPT !.unread = @ + n, !.fin = f]
                 discarded == [str[s] EXCEPT !.fin = f, !.readClosed = f]
             IN  IF str[s].stopped
                 THEN /\ str' = [str EXCEPT ![s] = discarded]
                      /\ stack' = GoneCall(s, discarded)
                 ELSE /\ str' = [str EXCEPT ![s] = kept]
                      /\ stack' = Notify(s)
    /\ UNCHANGED <<tun, conn, faults, wire, got, buf, seed, short>>

DialDone(s) ==
    /\ Idle /\ tun[s].at = "live" /\ tun[s].sock = "connecting"
    /\ stack' = <<Frame("Dial", s)>>
    /\ UNCHANGED <<str, tun, conn, faults, authVars>>

StopSendingArrives(s) ==
    /\ FinAfterStop \/ str[s].del # "conn" \/ ~str[s].fin \/ str[s].readClosed
    /\ PeerStopSending(s)
    /\ UNCHANGED authVars

Steps ==
    \/ Auth \/ ReadChunk \/ Parse \/ Erase \/ StartTunnelForStream
    \/ ConnectComplete \/ OnStreamGone \/ CloseEnd
    \/ OwnerSteps /\ UNCHANGED authVars

Events ==
    \/ \E s \in Streams :
          OnNewStream(s) \/ DataArrives(s) \/ DialDone(s) \/ StopSendingArrives(s)
    \/ OwnerEvents /\ UNCHANGED authVars

\* The end of the model: the driver has destroyed the connection.
Ended == conn.state = "destroyed" /\ UNCHANGED vars

Next == Steps \/ Events \/ Ended

Spec == Init /\ [][Next]_vars

---------------------------------------------------------------------------

TypeOK ==
    /\ OwnerTypeOK
    /\ wire \in [Streams -> Wires]
    /\ \A s \in Streams : /\ arrived[s] \in 0..Len(wire[s])
                          /\ got[s] \in 0..arrived[s]
                          /\ str[s].unread \in 0..(arrived[s] - got[s])
    /\ buf \subseteq Streams /\ short \subseteq Streams

\* A stream is being authenticated or has a tunnel, never both; while nothing
\* is running, it has a buffer exactly as long as the connection reads it.
BufferOrTunnel ==
    /\ \A s \in buf : tun[s].at = "none"
    /\ stack = <<>> => \A s \in Streams :
          s \in buf <=> (str[s].del = "conn" /\ s \notin short)

\* Types; no tunnel is closed twice and no socket disconnected that is not
\* open; and a stream is the business of its buffer or of its tunnel.
ConnectionInv == TypeOK /\ ContractsKept /\ BufferOrTunnel

\* A tunnel, and with it a dial-out, exists only for a stream that sent the
\* right key and, with --transparent, a complete address.
DialOnlyAuthenticated ==
    \A s \in Streams : tun[s].at # "none" =>
        /\ wire[s][1] = "k1" /\ wire[s][2] = "k2" /\ got[s] >= 2
        /\ Transparent => wire[s][3] = "a1" /\ wire[s][4] = "a2" /\ got[s] >= 4

\* While the dial-out is under way, what will be sent to the target first and
\* what is left in the stream are together the payload that has arrived:
\* nothing of the preamble, nothing lost, nothing twice.
LeftoverIsPayload ==
    \A s \in Streams :
        tun[s].at = "live" /\ tun[s].sock = "connecting" /\ ~tun[s].closed
        /\ str[s].life = "open" /\ ~(str[s].readClosed /\ ~str[s].fin) =>
            seed[s] \o SubSeq(wire[s], got[s] + 1, arrived[s]) =
            SelectSeq(SubSeq(wire[s], 1, arrived[s]), LAMBDA p : p \in {"d1", "d2"})

\* The comment of OnStreamGone() calls the buffer of a stream that is gone
\* pointless: no call that uses it is on the stack when it is dropped.
BufferOutlivesItsUse ==
    \A i \in 1..Len(stack) : stack[i][1] \in {"Read", "Parse"} => stack[i][2] \in buf

\* A stream that waits for more of its preamble has had everything read that
\* arrived, and its preamble really is incomplete: a client that has said
\* everything is never kept waiting for its next byte.
NothingHeldBack ==
    stack = <<>> => \A s \in buf :
        /\ str[s].unread = 0
        /\ arrived[s] < (IF Transparent THEN 4 ELSE 2)
        /\ arrived[s] >= 2 => wire[s][2] = "k2"
===========================================================================
