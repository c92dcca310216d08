------------------------ MODULE QuictunClientDriver ------------------------
(***************************************************************************)
(* QuictunClientDriver (quictun_client_driver.cc) and the client's main    *)
(* loop (quictun_client_bin.cc:208-212): the listener and its pause when   *)
(* descriptors run out, the pool of connections filled round robin, the    *)
(* UDP sockets the connections share, each with its writer and its list of *)
(* blocked connections, and deferred destruction.                          *)
(*                                                                         *)
(* A poll() collects what is armed and ready on every socket and disarms   *)
(* it; the callbacks then run one socket at a time, in any order, and are  *)
(* skipped for a socket that was reopened in between.  A connection is     *)
(* reduced to what it does to the driver: write, be refused, close.        *)
(***************************************************************************)
EXTENDS Naturals, FiniteSets

CONSTANTS
    UdpSockets,    \* --udp_socket
    ConnPerUdp,    \* --conn_per_udp
    MaxTcps        \* bound on the TCP connections that arrive

ASSUME ClientDriverAssumption ==
    UdpSockets \in Nat \ {0} /\ ConnPerUdp \in Nat \ {0} /\ MaxTcps \in Nat

Sockets == 0..(UdpSockets - 1)
Slots == 0..(UdpSockets * ConnPerUdp - 1)
Cids == 1..MaxTcps

VARIABLES
    at,         \* program counter of the main loop
    ready,      \* per socket: events collected by poll() and not delivered yet
    listen,     \* where the listener's wake-up is
    cur,        \* the socket, or the connection, of the callback being run
    conns,      \* connections by the client connection ID they were given
    made,       \* next_client_cid_ - 1
    routes,     \* by_cid_
    removals,   \* pending_removal_
    slots,      \* pool_slots_: a connection ID, or 0
    next,       \* pool_round_robin_next_
    udp,        \* udp_sockets_
    retrying,   \* the temporary list of OnWriterUnblocked()
    arrivals,   \* TCP connections that have arrived
    queue       \* TCP connections in the listen queue

vars == <<at, ready, listen, cur, conns, made, routes, removals, slots, next,
          udp, retrying, arrivals, queue>>

Events == {"readable", "writable"}

\* A UDP socket: fd and writer exist, the writer's blocked flag, the events
\* subscribed to, write_blocked_list.
NoSocket == [open |-> FALSE, wblocked |-> FALSE, armed |-> {}, blocked |-> {}]
FreshSocket == [open |-> TRUE, wblocked |-> FALSE, armed |-> Events, blocked |-> {}]

\* held: the writer the connection was built with still exists.
NoConn == [state |-> "absent", socket |-> 0, held |-> FALSE]

Present == {c \in Cids : conns[c].state \in {"live", "closed"}}
Live == {c \in Cids : conns[c].state = "live"}

\* Start(): a socket that cannot be opened yet is left empty.
Init ==
    /\ at = "alarms"
    /\ ready = [i \in Sockets |-> {}]
    /\ listen = {"armed"}
    /\ cur = 0
    /\ conns = [c \in Cids |-> NoConn]
    /\ made = 0
    /\ routes = {}
    /\ removals = {}
    /\ slots = [k \in Slots |-> 0]
    /\ next = 0
    /\ udp \in [Sockets -> {NoSocket, FreshSocket}]
    /\ retrying = {}
    /\ arrivals = 0
    /\ queue = 0

---------------------------------------------------------------------------
(* What a connection does to its socket when it is given control. *)

\* Mutant of Refused: the writable event is not asked for.
RefusedUnarmed(u) == [u EXCEPT !.wblocked = TRUE]

\* The kernel or a blocked writer refuses a packet.
Refused(u) == [u EXCEPT !.wblocked = TRUE, !.armed = @ \cup {"writable"}]

\* The socket after c has written: the packet went out, or OnWriteBlocked().
AfterWrite(u, c) ==
    (IF u.wblocked THEN {} ELSE {u}) \cup {[Refused(u) EXCEPT !.blocked = @ \cup {c}]}

\* Mutant of AfterClose: RemoveConnection() does not look at the list.
AfterCloseListed(u, c) == {u, [Refused(u) EXCEPT !.blocked = @ \cup {c}]}

\* The socket after c has closed: its CONNECTION_CLOSE may be refused, and
\* RemoveConnection() takes c out of the list.
AfterClose(u, c) == {[v EXCEPT !.blocked = @ \ {c}] : v \in {u, Refused(u)}}

\* Connection c runs, its writer being in state u: it writes, or it closes
\* and RemoveConnection() queues it and drops its route.
Acts(c, u) ==
    LET i == conns[c].socket
    IN  \/ /\ \E v \in AfterWrite(u, c) : udp' = [udp EXCEPT ![i] = v]
           /\ UNCHANGED <<conns, routes, removals>>
        \/ /\ \E v \in AfterClose(u, c) : udp' = [udp EXCEPT ![i] = v]
           /\ conns' = [conns EXCEPT ![c].state = "closed"]
           /\ routes' = routes \ {c}
           /\ removals' = removals \cup {c}

---------------------------------------------------------------------------
(* The main loop. *)

\* QUIC's alarms and the idle sweep.
Timer(c) ==
    /\ at \in {"alarms", "late", "sweep"} /\ c \in Live
    /\ Acts(c, udp[conns[c].socket])
    /\ UNCHANGED <<at, ready, listen, cur, made, slots, next, retrying, arrivals, queue>>

\* Mutant of AcceptRetry: the alarm fires and nobody is notified.
AcceptRetryLost ==
    /\ at \in {"alarms", "late"} /\ "retry" \in listen
    /\ listen' = listen \ {"retry"}
    /\ UNCHANGED <<at, ready, cur, conns, made, routes, removals, slots, next,
                   udp, retrying, arrivals, queue>>

\* accept_retry_alarm_: the listener is notified at the next poll().
AcceptRetry ==
    /\ at \in {"alarms", "late"} /\ "retry" \in listen
    /\ listen' = (listen \ {"retry"}) \cup {"notified"}
    /\ UNCHANGED <<at, ready, cur, conns, made, routes, removals, slots, next,
                   udp, retrying, arrivals, queue>>

\* poll(): any of what is subscribed to may be ready; what is, is collected
\* and disarmed.
Poll ==
    /\ at = "alarms"
    /\ \E r \in [Sockets -> SUBSET Events] :
          /\ \A i \in Sockets : r[i] \subseteq udp[i].armed
          /\ ready' = r
          /\ udp' = [i \in Sockets |-> [udp[i] EXCEPT !.armed = @ \ r[i]]]
    /\ listen' = IF "notified" \in listen \/ ("armed" \in listen /\ queue > 0)
                 THEN (listen \ {"armed", "notified"}) \cup {"ready"} ELSE listen
    /\ at' = "ready"
    /\ UNCHANGED <<cur, conns, made, routes, removals, slots, next, retrying,
                   arrivals, queue>>

\* OnSocketEvent() of a UDP socket begins with the writable event: the writer
\* is unblocked and its list handed over.
UdpEvent(i) ==
    /\ at = "ready" /\ ready[i] # {}
    /\ cur' = i
    /\ IF "writable" \in ready[i]
       THEN /\ at' = "unblock"
            /\ retrying' = udp[i].blocked
            /\ udp' = [udp EXCEPT ![i].wblocked = FALSE, ![i].blocked = {}]
       ELSE at' = "read" /\ UNCHANGED <<retrying, udp>>
    /\ UNCHANGED <<ready, listen, conns, made, routes, removals, slots, next,
                   arrivals, queue>>

\* OnWriterUnblocked(): each listed connection clears the blocked flag and runs.
CanWrite(c) ==
    /\ at = "unblock" /\ c \in retrying
    /\ retrying' = retrying \ {c}
    /\ Acts(c, [udp[cur] EXCEPT !.wblocked = FALSE])
    /\ UNCHANGED <<at, ready, listen, cur, made, slots, next, arrivals, queue>>

EndUnblock ==
    /\ at = "unblock" /\ retrying = {}
    /\ udp' = IF udp[cur].blocked # {}
              THEN [udp EXCEPT ![cur].armed = @ \cup {"writable"}] ELSE udp
    /\ at' = IF "readable" \in ready[cur] THEN "read" ELSE "ready"
    /\ ready' = IF "readable" \in ready[cur] THEN ready ELSE [ready EXCEPT ![cur] = {}]
    /\ UNCHANGED <<listen, cur, conns, made, routes, removals, slots, next,
                   retrying, arrivals, queue>>

\* ProcessPacket() for a connection ID that is routed, on whichever socket.
ProcessPacket(c) ==
    /\ at = "read" /\ c \in routes /\ c \in Present
    /\ IF c \in Live THEN Acts(c, udp[conns[c].socket])
       ELSE UNCHANGED <<udp, conns, routes, removals>>
    /\ UNCHANGED <<at, ready, listen, cur, made, slots, next, retrying, arrivals, queue>>

\* The read loop ends; the readable event is asked for again.
EndRead ==
    /\ at = "read"
    /\ udp' = [udp EXCEPT ![cur].armed = @ \cup {"readable"}]
    /\ ready' = [ready EXCEPT ![cur] = {}]
    /\ at' = "ready"
    /\ UNCHANGED <<listen, cur, conns, made, routes, removals, slots, next,
                   retrying, arrivals, queue>>

ListenerEvent ==
    /\ at = "ready" /\ "ready" \in listen
    /\ listen' = listen \ {"ready"}
    /\ at' = "accept"
    /\ UNCHANGED <<ready, cur, conns, made, routes, removals, slots, next, udp,
                   retrying, arrivals, queue>>

\* Mutant of AcceptExhausted: the listener is rearmed as well.
AcceptExhaustedRearmed ==
    /\ at = "accept" /\ queue > 0
    /\ listen' = listen \cup {"retry", "armed"}
    /\ at' = "ready"
    /\ UNCHANGED <<ready, cur, conns, made, routes, removals, slots, next, udp,
                   retrying, arrivals, queue>>

\* AcceptLoop() without a descriptor left: the alarm is set, nothing rearmed.
AcceptExhausted ==
    /\ at = "accept" /\ queue > 0
    /\ listen' = listen \cup {"retry"}
    /\ at' = "ready"
    /\ UNCHANGED <<ready, cur, conns, made, routes, removals, slots, next, udp,
                   retrying, arrivals, queue>>

\* AcceptLoop() with nothing left to accept, or another error of accept().
AcceptEnds ==
    /\ at = "accept"
    /\ listen' = listen \cup {"armed"}
    /\ at' = "ready"
    /\ UNCHANGED <<ready, cur, conns, made, routes, removals, slots, next, udp,
                   retrying, arrivals, queue>>

\* Without SO_ORIGINAL_DST (--transparent) the connection is refused.
AcceptUncaptured ==
    /\ at = "accept" /\ queue > 0
    /\ queue' = queue - 1
    /\ UNCHANGED <<at, ready, listen, cur, conns, made, routes, removals, slots,
                   next, udp, retrying, arrivals>>

\* Mutant of Reusable: a slot that is taken is replaced.
ReusableNever(k) == FALSE

\* The slot's connection exists and is not closed.
Reusable(k) == slots[k] \in Live

\* AcceptLoop(): the slot whose turn it is has a connection.
AcceptIntoPool ==
    /\ at = "accept" /\ queue > 0 /\ Reusable(next)
    /\ queue' = queue - 1
    /\ next' = (next + 1) % Cardinality(Slots)
    /\ cur' = slots[next]
    /\ at' = "assign"
    /\ UNCHANGED <<ready, listen, conns, made, routes, removals, slots, udp,
                   retrying, arrivals>>

\* Mutant of UdpSocketIsIdle: connections that wait for destruction do not count.
UdpSocketIsIdleOfLive(i) == \A c \in Live : conns[c].socket # i

\* No connection holds the socket's writer.
UdpSocketIsIdle(i) == \A c \in Present : conns[c].socket # i

\* The socket a slot lives on.
SocketOf(k) == k % UdpSockets

\* CreateNewConnection(), OpenUdpSocket() failing: the socket is left empty and
\* the TCP connection closed.
AcceptReopenFails ==
    LET i == SocketOf(next)
    IN  /\ at = "accept" /\ queue > 0 /\ ~Reusable(next) /\ UdpSocketIsIdle(i)
        /\ queue' = queue - 1
        /\ next' = (next + 1) % Cardinality(Slots)
        /\ udp' = [udp EXCEPT ![i] = NoSocket]
        /\ ready' = [ready EXCEPT ![i] = {}]
        /\ UNCHANGED <<at, listen, cur, conns, made, routes, removals, slots,
                       retrying, arrivals>>

\* CreateNewConnection(): an idle socket is reopened first, which ends its old
\* writer and its collected events.  The constructor starts the handshake and
\* may be refused, or fail and close the connection; only then is the route
\* entered and the connection held.
AcceptIntoNew ==
    LET i == SocketOf(next)
        c == made + 1
        reopens == UdpSocketIsIdle(i)
        u == IF reopens THEN [FreshSocket EXCEPT !.blocked = udp[i].blocked] ELSE udp[i]
        others == IF reopens
                  THEN [d \in Cids |-> IF conns[d].socket = i
                                       THEN [conns[d] EXCEPT !.held = FALSE] ELSE conns[d]]
                  ELSE conns
        new(state) == [state |-> state, socket |-> i, held |-> TRUE]
    IN  /\ at = "accept" /\ queue > 0 /\ ~Reusable(next)
        /\ queue' = queue - 1
        /\ next' = (next + 1) % Cardinality(Slots)
        /\ made' = c
        /\ ready' = IF reopens THEN [ready EXCEPT ![i] = {}] ELSE ready
        /\ \/ /\ \E v \in AfterWrite(u, c) : udp' = [udp EXCEPT ![i] = v]
              /\ conns' = [others EXCEPT ![c] = new("live")]
              /\ UNCHANGED removals
           \/ /\ \E v \in AfterClose(u, c) : udp' = [udp EXCEPT ![i] = v]
              /\ conns' = [others EXCEPT ![c] = new("closed")]
              /\ removals' = removals \cup {c}
        /\ routes' = routes \cup {c}
        /\ slots' = [slots EXCEPT ![next] = c]
        /\ cur' = c
        /\ at' = "assign"
        /\ UNCHANGED <<listen, retrying, arrivals>>

\* AssignNewTcp(): a closed connection closes the descriptor, another one may
\* open a stream and write.
AssignNewTcp ==
    /\ at = "assign"
    /\ at' = "accept"
    /\ IF cur \in Live THEN Acts(cur, udp[conns[cur].socket])
       ELSE UNCHANGED <<udp, conns, routes, removals>>
    /\ UNCHANGED <<ready, listen, cur, made, slots, next, retrying, arrivals, queue>>

EndEvents ==
    /\ at = "ready" /\ \A i \in Sockets : ready[i] = {}
    /\ "ready" \notin listen
    /\ at' = "late"
    /\ UNCHANGED <<ready, listen, cur, conns, made, routes, removals, slots, next,
                   udp, retrying, arrivals, queue>>

EndLoop ==
    /\ at = "late"
    /\ at' = "collect"
    /\ UNCHANGED <<ready, listen, cur, conns, made, routes, removals, slots, next,
                   udp, retrying, arrivals, queue>>

\* CollectGarbage(): what is still listed is removed, with a QUIC_BUG.
CollectGarbage ==
    /\ at = "collect"
    /\ conns' = [c \in Cids |-> IF c \in removals
                                THEN [conns[c] EXCEPT !.state = "destroyed"] ELSE conns[c]]
    /\ udp' = [i \in Sockets |-> [udp[i] EXCEPT !.blocked = @ \ removals]]
    /\ removals' = {}
    /\ at' = "sweep"
    /\ UNCHANGED <<ready, listen, cur, made, routes, slots, next, retrying,
                   arrivals, queue>>

\* CloseIdleTunnels(), then the loop starts over.
EndSweep ==
    /\ at = "sweep"
    /\ at' = "alarms"
    /\ UNCHANGED <<ready, listen, cur, conns, made, routes, removals, slots, next,
                   udp, retrying, arrivals, queue>>

\* A TCP connection reaches the listen queue, at any time.
TcpArrives ==
    /\ arrivals < MaxTcps
    /\ arrivals' = arrivals + 1
    /\ queue' = queue + 1
    /\ UNCHANGED <<at, ready, listen, cur, conns, made, routes, removals, slots,
                   next, udp, retrying>>

Accept ==
    AcceptUncaptured \/ AcceptIntoPool \/ AcceptReopenFails \/ AcceptIntoNew

\* Steps the single thread takes by itself.
MainLoop ==
    \/ AcceptRetry \/ Poll \/ EndUnblock \/ EndRead \/ ListenerEvent
    \/ AcceptExhausted \/ AcceptEnds \/ Accept \/ AssignNewTcp
    \/ EndEvents \/ EndLoop \/ CollectGarbage \/ EndSweep
    \/ \E i \in Sockets : UdpEvent(i)
    \/ \E c \in Cids : CanWrite(c)

Next ==
    \/ MainLoop
    \/ TcpArrives
    \/ \E c \in Cids : Timer(c) \/ ProcessPacket(c)

Spec == Init /\ [][Next]_vars

\* The loop never stops; the retry alarm fires; accept() does not fail for
\* ever when it is tried again and again.
FairSpec ==
    /\ Spec
    /\ WF_vars(MainLoop)
    /\ SF_vars(AcceptRetry)
    /\ SF_vars(Accept)

---------------------------------------------------------------------------

TypeOK ==
    /\ at \in {"alarms", "ready", "unblock", "read", "accept", "assign", "late",
               "collect", "sweep"}
    /\ ready \in [Sockets -> SUBSET Events]
    /\ listen \subseteq {"armed", "retry", "notified", "ready"}
    /\ conns \in [Cids -> [state : {"absent", "live", "closed", "destroyed"},
                           socket : Sockets, held : BOOLEAN]]
    /\ made \in 0..MaxTcps
    /\ routes \subseteq 1..made /\ removals \subseteq 1..made /\ retrying \subseteq 1..made
    /\ slots \in [Slots -> 0..made] /\ next \in Slots
    /\ udp \in [Sockets -> [open : BOOLEAN, wblocked : BOOLEAN,
                            armed : SUBSET Events, blocked : SUBSET Cids]]
    /\ cur \in Nat /\ arrivals \in 0..MaxTcps /\ queue \in 0..arrivals

\* A connection borrows its socket's writer as a raw pointer: the writer is
\* replaced only when no connection is left that holds it, the closed ones
\* that wait for CollectGarbage() included, and what they use is open.
WriterOutlivesConnections ==
    \A c \in Present : conns[c].held /\ udp[conns[c].socket].open

\* The lists of blocked writers hold raw pointers to live connections of their
\* own socket; a socket that is reopened has nobody on its list.
ListedAreAlive ==
    /\ \A i \in Sockets : \A c \in udp[i].blocked : c \in Live /\ conns[c].socket = i
    /\ retrying \subseteq Present

\* Types, and the raw pointers of the driver: both lists lead to connections
\* that exist.
DriverInv == TypeOK /\ ListedAreAlive

\* No wake-up of a UDP socket is lost: an open socket is always listened to,
\* and a blocked writer has its writable event subscribed to or collected, or
\* its callback is running.
WakeupArmed ==
    \A i \in Sockets :
        /\ udp[i].open => "readable" \in udp[i].armed \cup ready[i]
        /\ udp[i].blocked # {} \/ udp[i].wblocked =>
             \/ "writable" \in udp[i].armed \cup ready[i]
             \/ at = "unblock" /\ cur = i

\* The listener has exactly one wake-up: armed, or paused with the alarm set,
\* or about to be handled.  With none no TCP connection would be accepted
\* again; with two it would spin while descriptors are short.
ListenerHasOneWakeup ==
    IF at \in {"accept", "assign"} THEN listen = {} ELSE Cardinality(listen) = 1

\* Every live connection is in the slot it was made for, on that slot's
\* socket: none is orphaned while it still carries tunnels, so the pool never
\* has more live connections than slots.
LiveIsPooled ==
    \A c \in Live : \E k \in Slots : slots[k] = c /\ conns[c].socket = k % UdpSockets

\* TCP connections in the listen queue are accepted in the end, also when
\* accept() ran out of descriptors on the way.
QueueIsServed == queue > 0 ~> queue = 0

\* The comment in RemoveConnection() wants a routing entry dropped before its
\* connection can be destroyed: routes lead to connections that exist.
RoutesLeadToConnections == routes \subseteq Present
===========================================================================
