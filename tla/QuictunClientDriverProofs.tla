--------------------- MODULE QuictunClientDriverProofs ---------------------
(***************************************************************************)
(* The safety invariants of QuictunClientDriver for any number of UDP      *)
(* sockets, pool slots and TCP connections.                                *)
(***************************************************************************)
EXTENDS QuictunClientDriver, FiniteSetTheorems, TLAPS

Udp == [open : BOOLEAN, wblocked : BOOLEAN, armed : SUBSET Events, blocked : SUBSET Cids]
Conn == [state : {"absent", "live", "closed", "destroyed"}, socket : Sockets, held : BOOLEAN]

\* Connection IDs are given out in order, one for a TCP connection at most;
\* what is queued for removal is exactly what has closed.
CountInv ==
    /\ made + queue <= arrivals
    /\ \A c \in Cids : c > made => conns[c].state = "absent"
    /\ \A c \in Cids : c \in removals <=> conns[c].state = "closed"

\* The list of OnWriterUnblocked() holds live connections of the socket whose
\* callback runs, and is empty afterwards.
RetryInv ==
    /\ at # "unblock" => retrying = {}
    /\ at \in {"unblock", "read"} => cur \in Sockets
    /\ \A c \in retrying : c \in Live /\ conns[c].socket = cur

\* Collected events are delivered before the next poll().
DeliveryInv ==
    at \in {"alarms", "late", "collect", "sweep"} => \A i \in Sockets : ready[i] = {}

\* What was collected for the socket whose callback runs is about to be
\* forgotten: it does not count as a wake-up.
Awaits(i) ==
    \/ "writable" \in udp[i].armed
    \/ "writable" \in ready[i] /\ ~(at \in {"unblock", "read"} /\ cur = i)

WakeInv(i) ==
    /\ udp[i].open => "readable" \in udp[i].armed \cup ready[i]
    /\ udp[i].wblocked => Awaits(i)
    /\ udp[i].blocked # {} => Awaits(i) \/ (at = "unblock" /\ cur = i)

\* The listener's one wake-up.
ListenInv ==
    IF at \in {"accept", "assign"} THEN listen = {} ELSE \E w : listen = {w}

BlockedInv ==
    \A i \in Sockets : \A c \in udp[i].blocked : c \in Live /\ conns[c].socket = i

\* The inductive invariant.
IInv ==
    /\ TypeOK /\ CountInv /\ RetryInv /\ DeliveryInv /\ BlockedInv /\ ListenInv
    /\ \A i \in Sockets : WakeInv(i)
    /\ WriterOutlivesConnections /\ LiveIsPooled

---------------------------------------------------------------------------
(* Numbers.                                                                *)

\* Slots are numbered round robin, and each has its socket.
LEMMA SlotNumbers ==
    /\ UdpSockets \in Nat \ {0} /\ Cardinality(Slots) \in Nat \ {0}
    /\ Slots = 0..(Cardinality(Slots) - 1)
    /\ 0 \in Slots /\ 0 \in Sockets
<1> DEFINE n == UdpSockets * ConnPerUdp
<1>1. UdpSockets \in Nat \ {0} /\ ConnPerUdp \in Nat \ {0}
  BY ClientDriverAssumption
<1>2. n \in Nat /\ n >= 1
  BY <1>1
<1>3. Slots = 0..(n - 1)
  BY DEF Slots
<1> HIDE DEF n
<1>4. Cardinality(0..(n - 1)) = n
  <2>1. 0 \in Int /\ n - 1 \in Int /\ ~(0 > n - 1)
    BY <1>2
  <2>2. Cardinality(0..(n - 1)) = (n - 1) - 0 + 1
    BY <2>1, FS_Interval
  <2> QED BY <1>2, <2>2
<1>5. 0 \in 0..(n - 1) /\ n \in Nat \ {0}
  BY <1>2
<1>6. 0 \in Sockets
  BY <1>1 DEF Sockets
<1> QED BY <1>1, <1>3, <1>4, <1>5, <1>6

\* The slot after the last is the first; every slot has a socket.
LEMMA NextSlot ==
    ASSUME NEW k \in Slots
    PROVE  (k + 1) % Cardinality(Slots) \in Slots /\ SocketOf(k) \in Sockets
<1> DEFINE n == Cardinality(Slots)
<1>1. n \in Nat \ {0} /\ Slots = 0..(n - 1) /\ UdpSockets \in Nat \ {0}
  BY SlotNumbers
<1> HIDE DEF n
<1>2. k \in Nat
  BY <1>1
<1>3. (k + 1) % n \in 0..(n - 1)
  BY <1>1, <1>2
<1>4. k % UdpSockets \in 0..(UdpSockets - 1)
  BY <1>1, <1>2
<1> QED BY <1>1, <1>3, <1>4 DEF n, SocketOf, Sockets

---------------------------------------------------------------------------
(* What a connection does to its socket.                                   *)

\* The socket after connection c has run, its writer having been in state u;
\* closed: the connection has closed.
Wrote(v, u, c, closed) ==
    /\ v \in Udp
    /\ v.open = u.open
    /\ u.armed \subseteq v.armed
    /\ v.wblocked => u.wblocked \/ "writable" \in v.armed
    /\ \A d \in v.blocked : d \in u.blocked \/ (d = c /\ "writable" \in v.armed)
    /\ closed => c \notin v.blocked

\* A refused packet leaves the writable event subscribed to.
LEMMA RefusedEffect ==
    ASSUME NEW u \in Udp
    PROVE  /\ Refused(u) \in Udp
           /\ Refused(u).open = u.open /\ Refused(u).blocked = u.blocked
           /\ u.armed \subseteq Refused(u).armed /\ "writable" \in Refused(u).armed
<1> DEFINE a == u.armed \cup {"writable"}
<1>1. a \in SUBSET Events /\ u.armed \subseteq a /\ "writable" \in a
  BY DEF Udp, Events
<1>2. Refused(u) = [u EXCEPT !.wblocked = TRUE, !.armed = a]
  BY DEF Refused, Udp
<1> HIDE DEF a
<1>3. /\ Refused(u) \in Udp /\ Refused(u).open = u.open /\ Refused(u).blocked = u.blocked
      /\ Refused(u).armed = a
  <2>1. \A b \in SUBSET Events : [u EXCEPT !.wblocked = TRUE, !.armed = b] \in Udp
    BY Zenon DEF Udp
  <2>2. [u EXCEPT !.wblocked = TRUE, !.armed = a].armed = a
    BY DEF Udp
  <2>3. [u EXCEPT !.wblocked = TRUE, !.armed = a].open = u.open
    BY DEF Udp
  <2>4. [u EXCEPT !.wblocked = TRUE, !.armed = a].blocked = u.blocked
    BY DEF Udp
  <2> QED BY <1>1, <1>2, <2>1, <2>2, <2>3, <2>4, Zenon
<1> QED BY <1>1, <1>3

\* A connection that writes is listed only with the event subscribed to;
LEMMA AfterWriteEffect ==
    ASSUME NEW u \in Udp, NEW c \in Cids, NEW v \in AfterWrite(u, c)
    PROVE  Wrote(v, u, c, FALSE)
<1>1. CASE v = u
  BY <1>1 DEF Wrote
<1>2. CASE v = [Refused(u) EXCEPT !.blocked = @ \cup {c}]
  <2> DEFINE w == Refused(u)
  <2>1. /\ w \in Udp /\ w.open = u.open /\ w.blocked = u.blocked
        /\ u.armed \subseteq w.armed /\ "writable" \in w.armed
    BY RefusedEffect
  <2>2. v = [w EXCEPT !.blocked = @ \cup {c}]
    BY <1>2
  <2> HIDE DEF w
  <2>3. /\ v \in Udp /\ v.open = w.open /\ v.armed = w.armed /\ v.blocked = w.blocked \cup {c}
    BY <2>1, <2>2 DEF Udp
  <2> QED BY <2>1, <2>3 DEF Wrote
<1> QED BY <1>1, <1>2, Zenon DEF AfterWrite

\* one that closes leaves the list.
LEMMA AfterCloseEffect ==
    ASSUME NEW u \in Udp, NEW c \in Cids, NEW v \in AfterClose(u, c)
    PROVE  Wrote(v, u, c, TRUE)
<1>1. PICK w \in {u, Refused(u)} : v = [w EXCEPT !.blocked = @ \ {c}]
  BY DEF AfterClose
<1>2. /\ w \in Udp /\ w.open = u.open /\ w.blocked = u.blocked /\ u.armed \subseteq w.armed
      /\ w.wblocked => u.wblocked \/ "writable" \in w.armed
  BY RefusedEffect
<1>3. /\ v \in Udp /\ v.open = w.open /\ v.armed = w.armed /\ v.blocked = w.blocked \ {c}
  BY <1>1, <1>2 DEF Udp
<1>4. v.wblocked = w.wblocked
  BY <1>1, <1>2 DEF Udp
<1>5. v.wblocked => u.wblocked \/ "writable" \in v.armed
  BY <1>2, <1>3, <1>4
<1>6. c \notin v.blocked /\ \A d \in v.blocked : d \in u.blocked
  BY <1>2, <1>3
<1>7. v \in Udp /\ v.open = u.open /\ u.armed \subseteq v.armed
  BY <1>2, <1>3
<1> QED BY <1>5, <1>6, <1>7 DEF Wrote

\* What one connection's turn changes.
ActsEffect(c, u) ==
    LET i == conns[c].socket
        closed == conns'[c].state = "closed"
    IN  /\ udp' \in [Sockets -> Udp]
        /\ \A j \in Sockets \ {i} : udp'[j] = udp[j]
        /\ Wrote(udp'[i], u, c, closed)
        /\ conns' \in [Cids -> Conn]
        /\ \A d \in Cids \ {c} : conns'[d] = conns[d]
        /\ conns'[c].socket = i /\ conns'[c].held = conns[c].held
        /\ conns'[c].state \in {"live", "closed"}
        /\ removals' = removals \cup (IF closed THEN {c} ELSE {})
        /\ routes' \subseteq routes

\* A turn changes the connection, its socket, its route and the removal queue.
LEMMA ActsLemma ==
    ASSUME TypeOK, NEW c \in Live, NEW u \in Udp, Acts(c, u)
    PROVE  ActsEffect(c, u)
<1> DEFINE i == conns[c].socket
<1>1. /\ c \in Cids /\ conns[c].state = "live" /\ i \in Sockets
      /\ conns \in [Cids -> Conn] /\ udp \in [Sockets -> Udp]
  BY DEF TypeOK, Live, Conn, Udp
<1>2. CASE /\ \E v \in AfterWrite(u, c) : udp' = [udp EXCEPT ![i] = v]
           /\ UNCHANGED <<conns, routes, removals>>
  <2>1. PICK v \in AfterWrite(u, c) : udp' = [udp EXCEPT ![i] = v]
    BY <1>2, Zenon
  <2>2. Wrote(v, u, c, FALSE) /\ v \in Udp
    BY <1>1, AfterWriteEffect DEF Wrote
  <2>3. /\ udp' \in [Sockets -> Udp] /\ udp'[i] = v
        /\ \A j \in Sockets \ {i} : udp'[j] = udp[j]
    BY <1>1, <2>1, <2>2
  <2>4. ~(conns'[c].state = "closed") /\ Wrote(v, u, c, conns'[c].state = "closed")
    BY <1>1, <1>2, <2>2 DEF Wrote
  <2> QED BY <1>1, <1>2, <2>3, <2>4 DEF ActsEffect
<1>3. CASE /\ \E v \in AfterClose(u, c) : udp' = [udp EXCEPT ![i] = v]
           /\ conns' = [conns EXCEPT ![c].state = "closed"]
           /\ routes' = routes \ {c}
           /\ removals' = removals \cup {c}
  <2>1. PICK v \in AfterClose(u, c) : udp' = [udp EXCEPT ![i] = v]
    BY <1>3, Zenon
  <2>2. Wrote(v, u, c, TRUE) /\ v \in Udp
    BY <1>1, AfterCloseEffect DEF Wrote
  <2>3. /\ udp' \in [Sockets -> Udp] /\ udp'[i] = v
        /\ \A j \in Sockets \ {i} : udp'[j] = udp[j]
    BY <1>1, <2>1, <2>2
  <2>4. /\ conns' \in [Cids -> Conn] /\ conns'[c].state = "closed"
        /\ conns'[c].socket = i /\ conns'[c].held = conns[c].held
        /\ \A d \in Cids \ {c} : conns'[d] = conns[d]
    BY <1>1, <1>3 DEF Conn
  <2>5. Wrote(v, u, c, conns'[c].state = "closed")
    BY <2>2, <2>4 DEF Wrote
  <2> QED BY <1>1, <1>3, <2>3, <2>4, <2>5 DEF ActsEffect
<1> QED BY <1>2, <1>3 DEF Acts

\* The writer's state as a connection finds it: as it is, or unblocked.
Finds(c, u) ==
    LET v == udp[conns[c].socket]
    IN  /\ u \in Udp /\ u.open = v.open /\ u.armed = v.armed /\ u.blocked = v.blocked
        /\ u.wblocked => v.wblocked

\* Where the loop is does not change, except from a slot's connection to the
\* next accept().
SamePlace == at' = at \/ (at = "assign" /\ at' = "accept")

\* One connection's turn preserves the invariant, wherever it gets it.
LEMMA ActStep ==
    ASSUME IInv, NEW c \in Live, NEW u, Finds(c, u), Acts(c, u), SamePlace,
           retrying' \subseteq retrying, c \notin retrying',
           UNCHANGED <<ready, listen, cur, made, slots, next, arrivals, queue>>
    PROVE  IInv'
<1> DEFINE i == conns[c].socket
           closed == conns'[c].state = "closed"
<1>1. TypeOK /\ c \in Cids /\ conns[c].state = "live" /\ i \in Sockets
  BY DEF IInv, TypeOK, Live
<1>2. ActsEffect(c, u)
  BY <1>1, ActsLemma DEF Finds
<1>3. /\ udp' \in [Sockets -> Udp] /\ conns' \in [Cids -> Conn]
      /\ \A j \in Sockets \ {i} : udp'[j] = udp[j]
      /\ Wrote(udp'[i], u, c, closed)
      /\ \A d \in Cids \ {c} : conns'[d] = conns[d]
      /\ conns'[c].socket = i /\ conns'[c].held = conns[c].held
      /\ conns'[c].state \in {"live", "closed"}
      /\ removals' = removals \cup (IF closed THEN {c} ELSE {})
      /\ routes' \subseteq routes
  BY <1>2 DEF ActsEffect
<1>4. c \in 1..made /\ MaxTcps \in Nat /\ made \in Nat
  BY <1>1, ClientDriverAssumption DEF IInv, CountInv, TypeOK, Cids
<1>5. /\ udp'[i].open = udp[i].open /\ udp[i].armed \subseteq udp'[i].armed
      /\ udp'[i].wblocked => udp[i].wblocked \/ "writable" \in udp'[i].armed
      /\ \A d \in udp'[i].blocked : d \in udp[i].blocked \/ (d = c /\ "writable" \in udp'[i].armed)
      /\ closed => c \notin udp'[i].blocked
  BY <1>3 DEF Wrote, Finds
<1>6. TypeOK'
  <2>1. removals' \subseteq 1..made' /\ routes' \subseteq 1..made' /\ retrying' \subseteq 1..made'
    BY <1>1, <1>3, <1>4 DEF TypeOK
  <2>2. at' \in {"alarms", "ready", "unblock", "read", "accept", "assign", "late",
                 "collect", "sweep"}
    BY <1>1 DEF TypeOK, SamePlace
  <2> QED BY <1>1, <1>3, <2>1, <2>2 DEF TypeOK, Udp, Conn
<1>7. CountInv'
  <2>1. made' + queue' <= arrivals'
    BY DEF IInv, CountInv
  <2>2. ASSUME NEW d \in Cids, d > made' PROVE conns'[d].state = "absent"
    BY <1>3, <1>4, <2>2 DEF IInv, CountInv
  <2>3. ASSUME NEW d \in Cids PROVE d \in removals' <=> conns'[d].state = "closed"
    <3>1. d \in removals <=> conns[d].state = "closed"
      BY DEF IInv, CountInv
    <3> QED BY <1>1, <1>3, <3>1
  <2> QED BY <2>1, <2>2, <2>3 DEF CountInv
<1>8. ASSUME NEW d \in Live, d # c PROVE d \in Live' /\ conns'[d] = conns[d]
  BY <1>3, <1>8 DEF Live
<1>9. RetryInv'
  <2>1. at' = at \/ at' \notin {"unblock", "read"}
    BY DEF SamePlace
  <2>2. ASSUME NEW d \in retrying' PROVE d \in Live' /\ conns'[d].socket = cur'
    <3>1. d \in Live /\ conns[d].socket = cur /\ d # c
      BY DEF IInv, RetryInv
    <3> QED BY <1>8, <3>1
  <2> QED BY <2>1, <2>2 DEF IInv, RetryInv, SamePlace
<1>10. DeliveryInv'
  BY DEF IInv, DeliveryInv, SamePlace
<1>11. BlockedInv'
  <2> SUFFICES ASSUME NEW j \in Sockets, NEW d \in udp'[j].blocked
               PROVE  d \in Live' /\ conns'[d].socket = j
    BY DEF BlockedInv
  <2>1. CASE d = c
    <3>1. j = i
      BY <1>3, <2>1 DEF IInv, BlockedInv
    <3>2. ~closed
      BY <1>5, <2>1, <3>1
    <3> QED BY <1>1, <1>3, <2>1, <3>1, <3>2 DEF Live
  <2>2. CASE d # c
    <3>1. d \in udp[j].blocked
      BY <1>3, <1>5, <2>2
    <3>2. d \in Live /\ conns[d].socket = j
      BY <3>1 DEF IInv, BlockedInv
    <3> QED BY <1>8, <2>2, <3>2
  <2> QED BY <2>1, <2>2
<1>12. ListenInv'
  BY DEF IInv, ListenInv, SamePlace
<1>13. ASSUME NEW j \in Sockets PROVE WakeInv(j)'
  <2>1. WakeInv(j)
    BY DEF IInv
  <2>2. /\ udp'[j].open = udp[j].open /\ udp[j].armed \subseteq udp'[j].armed
        /\ udp'[j].wblocked => udp[j].wblocked \/ "writable" \in udp'[j].armed
        /\ udp'[j].blocked # {} => udp[j].blocked # {} \/ "writable" \in udp'[j].armed
    BY <1>3, <1>5
  <2>3. Awaits(j) => Awaits(j)'
    BY <2>2 DEF Awaits, SamePlace
  <2>4. "writable" \in udp'[j].armed => Awaits(j)'
    BY DEF Awaits
  <2>5. at = "unblock" => at' = "unblock"
    BY DEF SamePlace
  <2> QED BY <2>1, <2>2, <2>3, <2>4, <2>5 DEF WakeInv
<1>14. WriterOutlivesConnections'
  <2> SUFFICES ASSUME NEW d \in Present' PROVE conns'[d].held /\ udp'[conns'[d].socket].open
    BY DEF WriterOutlivesConnections
  <2>1. d \in Present /\ conns'[d].socket = conns[d].socket /\ conns'[d].held = conns[d].held
    BY <1>1, <1>3 DEF Present
  <2>2. conns[d].held /\ udp[conns[d].socket].open /\ conns[d].socket \in Sockets
    BY <1>1, <2>1 DEF IInv, WriterOutlivesConnections, TypeOK, Present
  <2> QED BY <1>3, <1>5, <2>1, <2>2
<1>15. LiveIsPooled'
  <2> SUFFICES ASSUME NEW d \in Live'
               PROVE  \E k \in Slots : slots[k] = d /\ conns'[d].socket = k % UdpSockets
    BY DEF LiveIsPooled
  <2>1. d \in Live /\ conns'[d].socket = conns[d].socket
    BY <1>1, <1>3 DEF Live
  <2> QED BY <2>1 DEF IInv, LiveIsPooled
<1> QED BY <1>6, <1>7, <1>9, <1>10, <1>11, <1>12, <1>13, <1>14, <1>15 DEF IInv

\* QUIC's alarms and the idle sweep,
LEMMA TimerKeeps ==
    ASSUME IInv, NEW c \in Cids, Timer(c)
    PROVE  IInv'
<1>1. /\ c \in Live /\ at \in {"alarms", "late", "sweep"} /\ Acts(c, udp[conns[c].socket])
      /\ UNCHANGED <<at, ready, listen, cur, made, slots, next, retrying, arrivals, queue>>
  BY DEF Timer
<1>2. Finds(c, udp[conns[c].socket])
  BY DEF Finds, IInv, TypeOK, Udp
<1>3. retrying = {}
  BY <1>1 DEF IInv, RetryInv
<1> QED BY <1>1, <1>2, <1>3, ActStep DEF SamePlace

\* packets,
LEMMA ProcessPacketKeeps ==
    ASSUME IInv, NEW c \in Live, at = "read", Acts(c, udp[conns[c].socket]),
           UNCHANGED <<at, ready, listen, cur, made, slots, next, retrying, arrivals, queue>>
    PROVE  IInv'
<1>2. Finds(c, udp[conns[c].socket])
  BY DEF Finds, IInv, TypeOK, Udp, Live
<1>3. retrying = {}
  BY DEF IInv, RetryInv
<1> QED BY <1>2, <1>3, ActStep DEF SamePlace

\* a TCP connection to carry,
LEMMA AssignKeeps ==
    ASSUME IInv, NEW c \in Live, at = "assign", at' = "accept", Acts(c, udp[conns[c].socket]),
           UNCHANGED <<ready, listen, cur, made, slots, next, retrying, arrivals, queue>>
    PROVE  IInv'
<1>2. Finds(c, udp[conns[c].socket])
  BY DEF Finds, IInv, TypeOK, Udp, Live
<1>3. retrying = {}
  BY DEF IInv, RetryInv
<1> QED BY <1>2, <1>3, ActStep DEF SamePlace

\* a writer that is no longer blocked.
LEMMA CanWriteKeeps ==
    ASSUME IInv, NEW c \in Cids, CanWrite(c)
    PROVE  IInv'
<1> DEFINE u == [udp[cur] EXCEPT !.wblocked = FALSE]
<1>1. /\ at = "unblock" /\ c \in retrying /\ retrying' = retrying \ {c} /\ Acts(c, u)
      /\ UNCHANGED <<at, ready, listen, cur, made, slots, next, arrivals, queue>>
  BY DEF CanWrite
<1>2. c \in Live /\ conns[c].socket = cur /\ cur \in Sockets
  BY <1>1 DEF IInv, RetryInv
<1>3. udp[cur] \in Udp
  BY <1>2 DEF IInv, TypeOK, Udp
<1>4. /\ u \in Udp /\ u.open = udp[cur].open /\ u.armed = udp[cur].armed
      /\ u.blocked = udp[cur].blocked /\ ~u.wblocked
  BY <1>3, Zenon DEF Udp
<1> HIDE DEF u
<1>5. Finds(c, u)
  BY <1>2, <1>4 DEF Finds
<1> QED BY <1>1, <1>2, <1>5, ActStep DEF SamePlace

---------------------------------------------------------------------------
(* Steps of the loop that leave connections and sockets alone.             *)

Places ==
    {"alarms", "ready", "unblock", "read", "accept", "assign", "late", "collect", "sweep"}

\* A UDP callback is neither left nor entered.
OutsideUdp ==
    \/ at' = at /\ cur' = cur
    \/ at \notin {"unblock", "read"} /\ at' \in Places \ {"unblock", "read"} /\ cur' \in Nat

\* TCP connections arrive, or are taken from the queue.
Counts ==
    /\ arrivals' \in 0..MaxTcps /\ queue' \in 0..arrivals' /\ made + queue' <= arrivals'

\* Such a step has only the listener's wake-up to answer for.
LEMMA LoopStep ==
    ASSUME IInv, OutsideUdp, Counts, ListenInv', DeliveryInv', next' \in Slots,
           listen' \subseteq {"armed", "retry", "notified", "ready"},
           UNCHANGED <<ready, conns, made, routes, removals, slots, udp, retrying>>
    PROVE  IInv'
<1>1. TypeOK'
  BY DEF IInv, TypeOK, OutsideUdp, Places, Counts
<1>2. CountInv'
  BY DEF IInv, CountInv, Counts
<1>3. Live' = Live /\ Present' = Present
  BY DEF Live, Present
<1>4. RetryInv'
  BY <1>3 DEF IInv, RetryInv, OutsideUdp
<1>5. BlockedInv' /\ WriterOutlivesConnections' /\ LiveIsPooled'
  BY <1>3 DEF IInv, BlockedInv, WriterOutlivesConnections, LiveIsPooled
<1>6. ASSUME NEW i \in Sockets PROVE WakeInv(i)'
  <2>1. WakeInv(i)
    BY DEF IInv
  <2>2. CASE at' = at /\ cur' = cur
    BY <2>1, <2>2 DEF WakeInv, Awaits
  <2>3. CASE at \notin {"unblock", "read"} /\ at' \notin {"unblock", "read"}
    BY <2>1, <2>3 DEF WakeInv, Awaits
  <2> QED BY <2>2, <2>3 DEF OutsideUdp
<1> QED BY <1>1, <1>2, <1>4, <1>5, <1>6 DEF IInv

\* The counters of a step that takes nothing from the queue.
LEMMA SameCounts ==
    ASSUME IInv, UNCHANGED <<arrivals, queue>>
    PROVE  Counts
  BY DEF IInv, TypeOK, CountInv, Counts

\* The counters of a step that takes one TCP connection.
LEMMA TakenCounts ==
    ASSUME IInv, queue > 0, queue' = queue - 1, UNCHANGED arrivals
    PROVE  Counts /\ made + 1 \in Cids /\ made + 1 + queue' <= arrivals'
<1>1. made \in Nat /\ queue \in Nat /\ arrivals \in Nat /\ arrivals <= MaxTcps
      /\ MaxTcps \in Nat /\ made + queue <= arrivals /\ queue <= arrivals
  BY ClientDriverAssumption DEF IInv, TypeOK, CountInv
<1> QED BY <1>1 DEF Counts, Cids

\* The retry alarm hands its wake-up to the next poll().
LEMMA AcceptRetryKeeps ==
    ASSUME IInv, AcceptRetry
    PROVE  IInv'
<1>1. PICK w : listen = {w}
  BY DEF IInv, ListenInv, AcceptRetry
<1>2. listen' = {"notified"}
  BY <1>1 DEF AcceptRetry
<1>3. ListenInv' /\ DeliveryInv'
  BY <1>2 DEF IInv, ListenInv, DeliveryInv, AcceptRetry
<1> QED BY <1>2, <1>3, LoopStep, SameCounts DEF AcceptRetry, OutsideUdp, IInv, TypeOK

\* The listener's callback uses its wake-up up,
LEMMA ListenerEventKeeps ==
    ASSUME IInv, ListenerEvent
    PROVE  IInv'
<1>1. PICK w : listen = {w}
  BY DEF IInv, ListenInv, ListenerEvent
<1>2. listen' = {}
  BY <1>1 DEF ListenerEvent
<1>3. ListenInv' /\ DeliveryInv'
  BY <1>2 DEF ListenInv, DeliveryInv, ListenerEvent
<1>4. OutsideUdp
  BY DEF ListenerEvent, OutsideUdp, Places, IInv, TypeOK
<1> QED BY <1>2, <1>3, <1>4, LoopStep, SameCounts DEF ListenerEvent, IInv, TypeOK

\* and AcceptLoop() ends with one: the alarm, or the descriptor's event.
LEMMA AcceptStopsKeeps ==
    ASSUME IInv, AcceptExhausted \/ AcceptEnds
    PROVE  IInv'
<1>1. listen = {} /\ at = "accept" /\ at' = "ready"
  BY DEF IInv, ListenInv, AcceptExhausted, AcceptEnds
<1>2. listen' = {"retry"} \/ listen' = {"armed"}
  BY <1>1 DEF AcceptExhausted, AcceptEnds
<1>3. ListenInv' /\ DeliveryInv'
  BY <1>1, <1>2 DEF ListenInv, DeliveryInv
<1>4. OutsideUdp
  BY <1>1 DEF AcceptExhausted, AcceptEnds, OutsideUdp, Places, IInv, TypeOK
<1>5. /\ UNCHANGED <<ready, conns, made, routes, removals, slots, next, udp, retrying>>
      /\ UNCHANGED <<arrivals, queue>>
  BY DEF AcceptExhausted, AcceptEnds
<1> QED BY <1>2, <1>3, <1>4, <1>5, LoopStep, SameCounts DEF IInv, TypeOK

\* A TCP connection is refused, or given to the slot's connection.
LEMMA AcceptKnownKeeps ==
    ASSUME IInv, AcceptUncaptured \/ AcceptIntoPool
    PROVE  IInv'
<1>1. /\ listen = {} /\ at = "accept" /\ at' \in {"accept", "assign"} /\ queue > 0
      /\ queue' = queue - 1
      /\ UNCHANGED <<ready, listen, conns, made, routes, removals, slots, udp, retrying, arrivals>>
  BY DEF IInv, ListenInv, AcceptUncaptured, AcceptIntoPool
<1>2. ListenInv' /\ DeliveryInv'
  BY <1>1 DEF ListenInv, DeliveryInv
<1>3. next \in Slots /\ slots[next] \in Nat /\ cur \in Nat
  BY DEF IInv, TypeOK
<1>4. next' \in Slots /\ cur' \in Nat
  BY <1>3, NextSlot DEF AcceptUncaptured, AcceptIntoPool
<1>5. OutsideUdp
  BY <1>1, <1>4 DEF OutsideUdp, Places
<1>6. Counts
  BY <1>1, TakenCounts
<1> QED BY <1>1, <1>2, <1>4, <1>5, <1>6, LoopStep DEF IInv, TypeOK

\* The loop goes on when everything collected has been delivered.
LEMMA LoopEndsKeep ==
    ASSUME IInv, EndEvents \/ EndLoop \/ EndSweep
    PROVE  IInv'
<1>1. /\ at \in {"ready", "late", "sweep"} /\ at' \in {"late", "collect", "alarms"}
      /\ \A i \in Sockets : ready[i] = {}
      /\ UNCHANGED <<ready, listen, cur, conns, made, routes, removals, slots, next,
                     udp, retrying, arrivals, queue>>
  BY DEF EndEvents, EndLoop, EndSweep, IInv, DeliveryInv
<1>2. ListenInv' /\ DeliveryInv'
  BY <1>1 DEF ListenInv, DeliveryInv, IInv
<1>3. OutsideUdp
  BY <1>1 DEF OutsideUdp, Places, IInv, TypeOK
<1> QED BY <1>1, <1>2, <1>3, LoopStep, SameCounts DEF IInv, TypeOK

\* TCP connections arrive at any time.
LEMMA TcpArrivesKeeps ==
    ASSUME IInv, TcpArrives
    PROVE  IInv'
<1>1. /\ made \in Nat /\ queue \in Nat /\ arrivals \in Nat /\ arrivals < MaxTcps
      /\ MaxTcps \in Nat /\ made + queue <= arrivals /\ queue <= arrivals
  BY ClientDriverAssumption DEF IInv, TypeOK, CountInv, TcpArrives
<1>2. Counts
  BY <1>1 DEF Counts, TcpArrives
<1>3. ListenInv' /\ DeliveryInv'
  BY Zenon DEF IInv, ListenInv, DeliveryInv, TcpArrives
<1> QED BY <1>2, <1>3, LoopStep DEF TcpArrives, OutsideUdp, IInv, TypeOK

---------------------------------------------------------------------------
(* Steps that change sockets and no connection.                            *)

\* No connection loses its writer, none is added to a list.
SocketsServe ==
    /\ udp' \in [Sockets -> Udp]
    /\ \A i \in Sockets : (udp[i].open => udp'[i].open) \/ UdpSocketIsIdle(i)
    /\ \A i \in Sockets : udp'[i].blocked \subseteq udp[i].blocked

\* What is left of the typing.
PlacesTyped ==
    /\ at' \in Places /\ cur' \in Nat /\ next' \in Slots
    /\ ready' \in [Sockets -> SUBSET Events]
    /\ listen' \subseteq {"armed", "retry", "notified", "ready"}
    /\ retrying' \subseteq 1..made

\* Such a step has wake-ups and the temporary list to answer for.
LEMMA SocketsStep ==
    ASSUME IInv, SocketsServe, PlacesTyped, Counts, ListenInv', DeliveryInv', RetryInv',
           \A i \in Sockets : WakeInv(i)',
           UNCHANGED <<conns, made, routes, removals, slots>>
    PROVE  IInv'
<1>1. TypeOK'
  BY DEF IInv, TypeOK, PlacesTyped, Places, Counts, SocketsServe, Udp
<1>2. CountInv'
  BY DEF IInv, CountInv, Counts
<1>3. Live' = Live /\ Present' = Present
  BY DEF Live, Present
<1>4. BlockedInv'
  BY <1>3 DEF IInv, BlockedInv, SocketsServe
<1>5. LiveIsPooled'
  BY <1>3 DEF IInv, LiveIsPooled
<1>6. WriterOutlivesConnections'
  <2> SUFFICES ASSUME NEW c \in Present PROVE conns[c].held /\ udp'[conns[c].socket].open
    BY <1>3 DEF WriterOutlivesConnections
  <2>1. conns[c].held /\ udp[conns[c].socket].open /\ conns[c].socket \in Sockets
    BY DEF IInv, WriterOutlivesConnections, TypeOK, Present
  <2> QED BY <2>1 DEF SocketsServe, UdpSocketIsIdle
<1> QED BY <1>1, <1>2, <1>4, <1>5, <1>6 DEF IInv

\* A socket with other events subscribed to is the same socket otherwise.
LEMMA ArmedEffect ==
    ASSUME NEW u \in Udp, NEW a \in SUBSET Events
    PROVE  LET v == [u EXCEPT !.armed = a]
           IN  /\ v \in Udp /\ v.armed = a /\ v.blocked = u.blocked
               /\ v.open = u.open /\ v.wblocked = u.wblocked
<1>1. \A b \in SUBSET Events : [u EXCEPT !.armed = b] \in Udp
  BY DEF Udp
<1>2. [u EXCEPT !.armed = a].armed = a
  BY DEF Udp
<1>3. [u EXCEPT !.armed = a].blocked = u.blocked
  BY DEF Udp
<1>4. [u EXCEPT !.armed = a].open = u.open
  BY DEF Udp
<1>5. [u EXCEPT !.armed = a].wblocked = u.wblocked
  BY DEF Udp
<1> QED BY <1>1, <1>2, <1>3, <1>4, <1>5, Zenon

\* poll() moves events from subscribed to collected: nothing was collected
\* and not delivered before it.
LEMMA PollKeeps ==
    ASSUME IInv, Poll
    PROVE  IInv'
<1>1. PICK r \in [Sockets -> SUBSET Events] :
         /\ \A i \in Sockets : r[i] \subseteq udp[i].armed
         /\ ready' = r
         /\ udp' = [i \in Sockets |-> [udp[i] EXCEPT !.armed = @ \ r[i]]]
  BY Zenon DEF Poll
<1>2. /\ at = "alarms" /\ at' = "ready" /\ retrying = {}
      /\ UNCHANGED <<cur, conns, made, routes, removals, slots, next, retrying, arrivals, queue>>
  BY DEF Poll, IInv, RetryInv
<1>3. ASSUME NEW i \in Sockets
      PROVE  /\ udp'[i] \in Udp /\ udp'[i].armed = udp[i].armed \ r[i]
             /\ udp'[i].blocked = udp[i].blocked
             /\ udp'[i].open = udp[i].open /\ udp'[i].wblocked = udp[i].wblocked
  <2>1. udp[i] \in Udp
    BY DEF IInv, TypeOK, Udp
  <2>2. udp[i].armed \ r[i] \in SUBSET Events
    BY <2>1 DEF Udp
  <2>3. udp'[i] = [udp[i] EXCEPT !.armed = udp[i].armed \ r[i]]
    BY <1>1
  <2> QED BY <2>1, <2>2, <2>3, ArmedEffect
<1>4. SocketsServe
  <2>1. DOMAIN udp' = Sockets /\ udp' = [i \in Sockets |-> udp'[i]]
    BY <1>1
  <2> QED BY <1>3, <2>1 DEF SocketsServe
<1>5. PICK w : listen = {w}
  BY <1>2 DEF IInv, ListenInv
<1>6. listen' = {w} \/ listen' = {"ready"}
  BY <1>5 DEF Poll
<1>7. ListenInv' /\ DeliveryInv' /\ RetryInv'
  BY <1>2, <1>6, Zenon DEF ListenInv, DeliveryInv, RetryInv
<1>8. PlacesTyped
  BY <1>1, <1>2, <1>5, <1>6 DEF PlacesTyped, Places, IInv, TypeOK
<1>9. ASSUME NEW i \in Sockets PROVE WakeInv(i)'
  <2>1. WakeInv(i) /\ ready[i] = {} /\ ready'[i] = r[i]
    BY <1>1, <1>2 DEF IInv, DeliveryInv
  <2>2. Awaits(i) => Awaits(i)'
    BY <1>2, <1>3, <2>1 DEF Awaits
  <2> QED BY <1>2, <1>3, <2>1, <2>2 DEF WakeInv
<1> QED BY <1>2, <1>4, <1>7, <1>8, <1>9, SocketsStep, SameCounts

\* A socket's callback begins: whoever was blocked is on the temporary list.
LEMMA UdpEventKeeps ==
    ASSUME IInv, NEW i \in Sockets, UdpEvent(i)
    PROVE  IInv'
<1>1. /\ at = "ready" /\ cur' = i /\ retrying = {} /\ at' \in {"unblock", "read"}
      /\ UNCHANGED <<ready, listen, conns, made, routes, removals, slots, next, arrivals, queue>>
  BY DEF UdpEvent, IInv, RetryInv
<1>2. udp[i] \in Udp /\ udp \in [Sockets -> Udp] /\ i \in Nat
  BY ClientDriverAssumption DEF IInv, TypeOK, Udp, Sockets
<1>3. ListenInv' /\ DeliveryInv'
  BY <1>1 DEF IInv, ListenInv, DeliveryInv
<1>4. CASE "writable" \in ready[i]
  <2> DEFINE v == [udp[i] EXCEPT !.wblocked = FALSE, !.blocked = {}]
  <2>1. at' = "unblock" /\ retrying' = udp[i].blocked /\ udp' = [udp EXCEPT ![i] = v]
    BY <1>2, <1>4, Zenon DEF UdpEvent
  <2>2. v \in Udp /\ v.armed = udp[i].armed /\ v.blocked = {} /\ ~v.wblocked
    BY <1>2, Zenon DEF Udp
  <2>3. v.open = udp[i].open
    BY <1>2 DEF Udp
  <2> HIDE DEF v
  <2>4. udp' \in [Sockets -> Udp] /\ udp'[i] = v /\ \A j \in Sockets \ {i} : udp'[j] = udp[j]
    BY <1>2, <2>1, <2>2
  <2>5. SocketsServe
    BY <2>2, <2>3, <2>4 DEF SocketsServe
  <2>6. \A c \in udp[i].blocked : c \in Live /\ conns[c].socket = i
    BY DEF IInv, BlockedInv
  <2>7. Live' = Live
    BY <1>1 DEF Live
  <2>8. RetryInv'
    BY <1>1, <2>1, <2>6, <2>7 DEF RetryInv
  <2>9. Live \subseteq 1..made
    BY ClientDriverAssumption DEF IInv, TypeOK, CountInv, Live, Cids
  <2>10. PlacesTyped
    BY <1>1, <1>2, <2>1, <2>6, <2>9, Zenon DEF PlacesTyped, Places, IInv, TypeOK
  <2>11. ASSUME NEW j \in Sockets PROVE WakeInv(j)'
    <3>1. WakeInv(j)
      BY DEF IInv
    <3>2. CASE j = i
      BY <1>1, <2>2, <2>3, <2>4, <3>1, <3>2 DEF WakeInv
    <3>3. CASE j # i
      BY <1>1, <2>4, <3>1, <3>3 DEF WakeInv, Awaits
    <3> QED BY <3>2, <3>3
  <2> QED BY <1>1, <1>3, <2>5, <2>8, <2>10, <2>11, SocketsStep, SameCounts
<1>5. CASE "writable" \notin ready[i]
  <2>1. at' = "read" /\ UNCHANGED <<retrying, udp>>
    BY <1>5 DEF UdpEvent
  <2>2. SocketsServe
    BY <1>2, <2>1 DEF SocketsServe
  <2>3. RetryInv'
    BY <1>1, <2>1 DEF RetryInv
  <2>4. PlacesTyped
    BY <1>1, <1>2, <2>1 DEF PlacesTyped, Places, IInv, TypeOK
  <2>5. ASSUME NEW j \in Sockets PROVE WakeInv(j)'
    <3>1. WakeInv(j)
      BY DEF IInv
    <3> QED BY <1>1, <1>5, <2>1, <3>1 DEF WakeInv, Awaits
  <2> QED BY <1>1, <1>3, <2>2, <2>3, <2>4, <2>5, SocketsStep, SameCounts
<1> QED BY <1>4, <1>5

\* The writable half of the callback ends: who is on the list again has the
\* event subscribed to.
LEMMA EndUnblockKeeps ==
    ASSUME IInv, EndUnblock
    PROVE  IInv'
<1>1. /\ at = "unblock" /\ retrying = {} /\ cur \in Sockets /\ at' \in {"read", "ready"}
      /\ UNCHANGED <<listen, cur, conns, made, routes, removals, slots, next,
                     retrying, arrivals, queue>>
  BY DEF EndUnblock, IInv, RetryInv
<1>2. udp[cur] \in Udp /\ udp \in [Sockets -> Udp] /\ ready \in [Sockets -> SUBSET Events]
  BY <1>1 DEF IInv, TypeOK, Udp
<1>3. PICK a \in SUBSET Events :
         /\ udp[cur].armed \subseteq a /\ (udp[cur].blocked # {} => "writable" \in a)
         /\ udp' = [udp EXCEPT ![cur] = [udp[cur] EXCEPT !.armed = a]]
  <2>1. CASE udp[cur].blocked # {}
    <3>1. udp[cur].armed \cup {"writable"} \in SUBSET Events
      BY <1>2 DEF Udp, Events
    <3>2. udp' = [udp EXCEPT ![cur] = [udp[cur] EXCEPT !.armed = udp[cur].armed \cup {"writable"}]]
      BY <1>1, <1>2, <2>1 DEF EndUnblock
    <3> QED BY <2>1, <3>1, <3>2, Zenon
  <2>2. CASE udp[cur].blocked = {}
    <3>1. [udp[cur] EXCEPT !.armed = udp[cur].armed] = udp[cur]
      BY <1>2 DEF Udp
    <3>2. udp' = udp
      BY <2>2 DEF EndUnblock
    <3>3. udp = [udp EXCEPT ![cur] = udp[cur]]
      BY <1>2
    <3>4. udp[cur].armed \in SUBSET Events
      BY <1>2 DEF Udp
    <3> QED BY <2>2, <3>1, <3>2, <3>3, <3>4
  <2> QED BY <2>1, <2>2
<1>4. /\ udp' \in [Sockets -> Udp]
      /\ \A j \in Sockets \ {cur} : udp'[j] = udp[j]
      /\ udp'[cur].armed = a /\ udp'[cur].blocked = udp[cur].blocked
      /\ udp'[cur].open = udp[cur].open /\ udp'[cur].wblocked = udp[cur].wblocked
  <2> DEFINE v == [udp[cur] EXCEPT !.armed = a]
  <2>1. /\ v \in Udp /\ v.armed = a /\ v.blocked = udp[cur].blocked
        /\ v.open = udp[cur].open /\ v.wblocked = udp[cur].wblocked
    BY <1>2, ArmedEffect
  <2>2. udp' = [udp EXCEPT ![cur] = v]
    BY <1>3
  <2> HIDE DEF v
  <2>3. udp'[cur] = v
    BY <1>1, <1>2, <2>2
  <2> QED BY <1>1, <1>2, <2>1, <2>2, <2>3
<1>5. SocketsServe
  BY <1>1, <1>4 DEF SocketsServe
<1>6. /\ ready' \in [Sockets -> SUBSET Events]
      /\ \A j \in Sockets \ {cur} : ready'[j] = ready[j]
      /\ "readable" \in ready[cur] => ready'[cur] = ready[cur]
  BY <1>1, <1>2 DEF EndUnblock
<1>7. ListenInv' /\ DeliveryInv' /\ RetryInv'
  BY <1>1 DEF IInv, ListenInv, DeliveryInv, RetryInv
<1>8. PlacesTyped
  BY <1>1, <1>6 DEF PlacesTyped, Places, IInv, TypeOK
<1>9. ASSUME NEW j \in Sockets PROVE WakeInv(j)'
  <2>1. WakeInv(j)
    BY DEF IInv
  <2>2. CASE j = cur
    <3>1. Awaits(j) => "writable" \in udp[j].armed
      BY <1>1, <2>2 DEF Awaits
    <3>2. "writable" \in a => Awaits(j)'
      BY <1>4, <2>2 DEF Awaits
    <3> QED BY <1>3, <1>4, <1>6, <2>1, <2>2, <3>1, <3>2 DEF WakeInv
  <2>3. CASE j # cur
    BY <1>1, <1>4, <1>6, <2>1, <2>3 DEF WakeInv, Awaits
  <2> QED BY <2>2, <2>3
<1> QED BY <1>1, <1>5, <1>7, <1>8, <1>9, SocketsStep, SameCounts

\* So does the readable half, with the readable event.
LEMMA EndReadKeeps ==
    ASSUME IInv, EndRead
    PROVE  IInv'
<1> DEFINE a == udp[cur].armed \cup {"readable"}
           v == [udp[cur] EXCEPT !.armed = a]
<1>1. /\ at = "read" /\ retrying = {} /\ cur \in Sockets /\ at' = "ready"
      /\ ready' = [ready EXCEPT ![cur] = {}]
      /\ UNCHANGED <<listen, cur, conns, made, routes, removals, slots, next,
                     retrying, arrivals, queue>>
  BY DEF EndRead, IInv, RetryInv
<1>2. udp[cur] \in Udp /\ udp \in [Sockets -> Udp] /\ ready \in [Sockets -> SUBSET Events]
  BY <1>1 DEF IInv, TypeOK, Udp
<1>3. a \in SUBSET Events
  BY <1>2 DEF Udp, Events
<1>4. udp' = [udp EXCEPT ![cur] = v]
  BY <1>1, <1>2 DEF EndRead
<1>5. /\ v \in Udp /\ v.armed = a /\ v.blocked = udp[cur].blocked
      /\ v.open = udp[cur].open /\ v.wblocked = udp[cur].wblocked
  BY <1>2, <1>3, ArmedEffect, Zenon
<1> HIDE DEF v
<1>6. udp' \in [Sockets -> Udp] /\ udp'[cur] = v /\ \A j \in Sockets \ {cur} : udp'[j] = udp[j]
  BY <1>1, <1>2, <1>4, <1>5
<1>7. SocketsServe
  BY <1>1, <1>5, <1>6 DEF SocketsServe
<1>8. ready' \in [Sockets -> SUBSET Events] /\ \A j \in Sockets \ {cur} : ready'[j] = ready[j]
  BY <1>1, <1>2
<1>9. ListenInv' /\ DeliveryInv' /\ RetryInv'
  BY <1>1 DEF IInv, ListenInv, DeliveryInv, RetryInv
<1>10. PlacesTyped
  BY <1>1, <1>8 DEF PlacesTyped, Places, IInv, TypeOK
<1>11. ASSUME NEW j \in Sockets PROVE WakeInv(j)'
  <2>1. WakeInv(j)
    BY DEF IInv
  <2>2. CASE j = cur
    <3>1. Awaits(j) => "writable" \in udp[j].armed
      BY <1>1, <2>2 DEF Awaits
    <3>2. "writable" \in a => Awaits(j)'
      BY <1>5, <1>6, <2>2 DEF Awaits
    <3> QED BY <1>1, <1>5, <1>6, <2>1, <2>2, <3>1, <3>2 DEF WakeInv
  <2>3. CASE j # cur
    BY <1>1, <1>6, <1>8, <2>1, <2>3 DEF WakeInv, Awaits
  <2> QED BY <2>2, <2>3
<1> QED BY <1>1, <1>7, <1>9, <1>10, <1>11, SocketsStep, SameCounts

\* A socket that could not be opened again has no connection to serve.
LEMMA AcceptReopenFailsKeeps ==
    ASSUME IInv, AcceptReopenFails
    PROVE  IInv'
<1> DEFINE i == SocketOf(next)
<1>1. /\ at = "accept" /\ queue > 0 /\ UdpSocketIsIdle(i) /\ queue' = queue - 1
      /\ next' = (next + 1) % Cardinality(Slots)
      /\ udp' = [udp EXCEPT ![i] = NoSocket] /\ ready' = [ready EXCEPT ![i] = {}]
      /\ UNCHANGED <<at, listen, cur, conns, made, routes, removals, slots, retrying, arrivals>>
  BY DEF AcceptReopenFails
<1>2. i \in Sockets /\ next' \in Slots
  BY <1>1, NextSlot DEF IInv, TypeOK
<1> HIDE DEF i
<1>3. /\ NoSocket \in Udp /\ NoSocket.blocked = {} /\ ~NoSocket.open /\ ~NoSocket.wblocked
      /\ udp \in [Sockets -> Udp] /\ ready \in [Sockets -> SUBSET Events]
  BY DEF NoSocket, Udp, IInv, TypeOK
<1>4. /\ udp' \in [Sockets -> Udp] /\ udp'[i] = NoSocket
      /\ \A j \in Sockets \ {i} : udp'[j] = udp[j] /\ ready'[j] = ready[j]
      /\ ready' \in [Sockets -> SUBSET Events]
  BY <1>1, <1>2, <1>3
<1>5. SocketsServe
  BY <1>1, <1>3, <1>4 DEF SocketsServe
<1>6. ListenInv' /\ DeliveryInv' /\ RetryInv'
  BY <1>1 DEF IInv, ListenInv, DeliveryInv, RetryInv
<1>7. PlacesTyped
  BY <1>1, <1>2, <1>4 DEF PlacesTyped, Places, IInv, TypeOK
<1>8. ASSUME NEW j \in Sockets PROVE WakeInv(j)'
  <2>1. WakeInv(j)
    BY DEF IInv
  <2> QED BY <1>1, <1>3, <1>4, <2>1 DEF WakeInv, Awaits
<1> QED BY <1>1, <1>5, <1>6, <1>7, <1>8, SocketsStep, TakenCounts

---------------------------------------------------------------------------
(* Connections come and go.                                                *)

\* CollectGarbage() destroys what closed: nothing on a list.
LEMMA CollectGarbageKeeps ==
    ASSUME IInv, CollectGarbage
    PROVE  IInv'
<1>1. /\ at = "collect" /\ at' = "sweep" /\ removals' = {} /\ retrying = {}
      /\ UNCHANGED <<ready, listen, cur, made, routes, slots, next, retrying, arrivals, queue>>
  BY DEF CollectGarbage, IInv, RetryInv
<1>2. conns \in [Cids -> Conn] /\ udp \in [Sockets -> Udp]
  BY DEF IInv, TypeOK, Conn, Udp
<1>3. ASSUME NEW c \in Cids
      PROVE  /\ conns'[c] \in Conn /\ conns'[c].socket = conns[c].socket
             /\ conns'[c].state = IF c \in removals THEN "destroyed" ELSE conns[c].state
             /\ c \notin removals => conns'[c] = conns[c]
  <2>1. conns'[c] = IF c \in removals THEN [conns[c] EXCEPT !.state = "destroyed"] ELSE conns[c]
    BY DEF CollectGarbage
  <2> QED BY <1>2, <2>1 DEF Conn
<1>4. ASSUME NEW i \in Sockets
      PROVE  /\ udp'[i] \in Udp /\ udp'[i].armed = udp[i].armed
             /\ udp'[i].blocked \subseteq udp[i].blocked
  <2>1. udp'[i] = [udp[i] EXCEPT !.blocked = @ \ removals]
    BY DEF CollectGarbage
  <2> QED BY <1>2, <2>1 DEF Udp
<1>5. ASSUME NEW i \in Sockets
      PROVE  udp'[i].open = udp[i].open /\ udp'[i].wblocked = udp[i].wblocked
  <2>1. udp'[i] = [udp[i] EXCEPT !.blocked = @ \ removals]
    BY DEF CollectGarbage
  <2>2. udp'[i].open = udp[i].open
    BY <1>2, <2>1 DEF Udp
  <2>3. udp'[i].wblocked = udp[i].wblocked
    BY <1>2, <2>1 DEF Udp
  <2> QED BY <2>2, <2>3
<1>6. \A c \in Cids : c \in removals <=> conns[c].state = "closed"
  BY DEF IInv, CountInv
<1>7. Live' = Live /\ Present' = Live /\ \A c \in Live : conns'[c] = conns[c] /\ c \in Present
  BY <1>3, <1>6 DEF Live, Present
<1>8. conns' \in [Cids -> Conn] /\ udp' \in [Sockets -> Udp]
  <2>1. conns' = [c \in Cids |-> conns'[c]] /\ udp' = [i \in Sockets |-> udp'[i]]
    BY DEF CollectGarbage
  <2> QED BY <1>3, <1>4, <2>1
<1>9. TypeOK'
  BY <1>1, <1>8 DEF IInv, TypeOK, Udp, Conn
<1>10. CountInv'
  BY <1>1, <1>3, <1>6 DEF IInv, CountInv
<1>11. RetryInv' /\ DeliveryInv' /\ ListenInv'
  BY <1>1 DEF IInv, RetryInv, DeliveryInv, ListenInv
<1>12. BlockedInv'
  BY <1>4, <1>7 DEF IInv, BlockedInv
<1>13. ASSUME NEW i \in Sockets PROVE WakeInv(i)'
  <2>1. WakeInv(i)
    BY DEF IInv
  <2> QED BY <1>1, <1>4, <1>5, <2>1 DEF WakeInv, Awaits
<1>14. WriterOutlivesConnections'
  <2>1. \A c \in Live : conns[c].socket \in Sockets
    BY <1>2 DEF Live, Conn
  <2> QED BY <1>5, <1>7, <2>1 DEF IInv, WriterOutlivesConnections
<1>15. LiveIsPooled'
  BY <1>1, <1>7 DEF IInv, LiveIsPooled
<1> QED BY <1>9, <1>10, <1>11, <1>12, <1>13, <1>14, <1>15 DEF IInv

\* The socket a new connection is made on, and the others on it.
Reopened(i) ==
    IF UdpSocketIsIdle(i) THEN [FreshSocket EXCEPT !.blocked = udp[i].blocked] ELSE udp[i]
Orphaned(i) ==
    IF UdpSocketIsIdle(i)
    THEN [d \in Cids |-> IF conns[d].socket = i
                         THEN [conns[d] EXCEPT !.held = FALSE] ELSE conns[d]]
    ELSE conns

\* The socket is open either way; nobody is listed on one that is reopened.
LEMMA ReopenedEffect ==
    ASSUME IInv, NEW i \in Sockets
    PROVE  /\ Reopened(i) \in Udp /\ Reopened(i).open
           /\ Reopened(i).blocked = udp[i].blocked
           /\ UdpSocketIsIdle(i) => /\ udp[i].blocked = {} /\ ~Reopened(i).wblocked
                                    /\ Reopened(i).armed = Events
           /\ ~UdpSocketIsIdle(i) => Reopened(i) = udp[i]
<1>1. udp[i] \in Udp
  BY DEF IInv, TypeOK, Udp
<1>2. CASE UdpSocketIsIdle(i)
  <2>1. udp[i].blocked = {}
    <3>1. \A c \in udp[i].blocked : c \in Present /\ conns[c].socket = i
      BY DEF IInv, BlockedInv, Live, Present
    <3> QED BY <1>2, <3>1 DEF UdpSocketIsIdle
  <2>2. Reopened(i) = [open |-> TRUE, wblocked |-> FALSE, armed |-> Events,
                       blocked |-> udp[i].blocked]
    BY <1>2, Zenon DEF Reopened, FreshSocket
  <2>3. udp[i].blocked \in SUBSET Cids
    BY <1>1 DEF Udp
  <2> QED BY <1>2, <2>1, <2>2, <2>3 DEF Udp
<1>3. CASE ~UdpSocketIsIdle(i)
  <2>1. PICK c \in Present : conns[c].socket = i
    BY <1>3 DEF UdpSocketIsIdle
  <2>2. udp[i].open
    BY <2>1 DEF IInv, WriterOutlivesConnections
  <2>3. Reopened(i) = udp[i]
    BY <1>3 DEF Reopened
  <2> QED BY <1>1, <1>3, <2>2, <2>3
<1> QED BY <1>2, <1>3

\* Only connections that are gone lose the old writer.
LEMMA OrphanedEffect ==
    ASSUME IInv, NEW i \in Sockets
    PROVE  /\ Orphaned(i) \in [Cids -> Conn]
           /\ \A d \in Cids : /\ Orphaned(i)[d].state = conns[d].state
                              /\ Orphaned(i)[d].socket = conns[d].socket
           /\ \A d \in Present : Orphaned(i)[d] = conns[d]
<1>1. conns \in [Cids -> Conn]
  BY DEF IInv, TypeOK, Conn
<1>2. CASE UdpSocketIsIdle(i)
  <2>1. ASSUME NEW d \in Cids
        PROVE  /\ Orphaned(i)[d] \in Conn /\ Orphaned(i)[d].state = conns[d].state
               /\ Orphaned(i)[d].socket = conns[d].socket
               /\ conns[d].socket # i => Orphaned(i)[d] = conns[d]
    <3>1. Orphaned(i)[d] = IF conns[d].socket = i THEN [conns[d] EXCEPT !.held = FALSE] ELSE conns[d]
      BY <1>2 DEF Orphaned
    <3> QED BY <1>1, <3>1, Zenon DEF Conn
  <2>2. Orphaned(i) = [d \in Cids |-> Orphaned(i)[d]]
    BY <1>2 DEF Orphaned
  <2>3. \A d \in Present : d \in Cids /\ conns[d].socket # i
    BY <1>2 DEF Present, UdpSocketIsIdle
  <2> QED BY <2>1, <2>2, <2>3
<1>3. CASE ~UdpSocketIsIdle(i)
  BY <1>1, <1>3 DEF Orphaned
<1> QED BY <1>2, <1>3

\* What CreateNewConnection() changes: the new connection c, its socket i.
NewEffect(c, i) ==
    LET closed == conns'[c].state = "closed"
    IN  /\ udp' \in [Sockets -> Udp]
        /\ \A j \in Sockets \ {i} : udp'[j] = udp[j]
        /\ Wrote(udp'[i], Reopened(i), c, closed)
        /\ conns' \in [Cids -> Conn]
        /\ \A d \in Cids \ {c} : conns'[d] = Orphaned(i)[d]
        /\ conns'[c].socket = i /\ conns'[c].held
        /\ conns'[c].state \in {"live", "closed"}
        /\ removals' = removals \cup (IF closed THEN {c} ELSE {})

\* The constructor's handshake packet is written, refused, or the end.
LEMMA NewLemma ==
    ASSUME IInv, NEW i \in Sockets, NEW c \in Cids,
           \/ /\ \E v \in AfterWrite(Reopened(i), c) : udp' = [udp EXCEPT ![i] = v]
              /\ conns' = [Orphaned(i) EXCEPT ![c] = [state |-> "live", socket |-> i, held |-> TRUE]]
              /\ UNCHANGED removals
           \/ /\ \E v \in AfterClose(Reopened(i), c) : udp' = [udp EXCEPT ![i] = v]
              /\ conns' = [Orphaned(i) EXCEPT ![c] = [state |-> "closed", socket |-> i, held |-> TRUE]]
              /\ removals' = removals \cup {c}
    PROVE  NewEffect(c, i)
<1>1. Reopened(i) \in Udp /\ Orphaned(i) \in [Cids -> Conn] /\ udp \in [Sockets -> Udp]
  BY ReopenedEffect, OrphanedEffect DEF IInv, TypeOK, Udp
<1>2. PICK v \in Udp, s \in {"live", "closed"} :
         /\ udp' = [udp EXCEPT ![i] = v] /\ Wrote(v, Reopened(i), c, s = "closed")
         /\ conns' = [Orphaned(i) EXCEPT ![c] = [state |-> s, socket |-> i, held |-> TRUE]]
         /\ removals' = removals \cup (IF s = "closed" THEN {c} ELSE {})
  <2>1. CASE /\ \E v \in AfterWrite(Reopened(i), c) : udp' = [udp EXCEPT ![i] = v]
             /\ conns' = [Orphaned(i) EXCEPT ![c] = [state |-> "live", socket |-> i, held |-> TRUE]]
             /\ UNCHANGED removals
    <3>1. PICK v \in AfterWrite(Reopened(i), c) : udp' = [udp EXCEPT ![i] = v]
      BY <2>1, Zenon
    <3>2. Wrote(v, Reopened(i), c, FALSE)
      BY <1>1, AfterWriteEffect, Zenon
    <3>3. Wrote(v, Reopened(i), c, "live" = "closed") /\ v \in Udp
      BY <3>2 DEF Wrote
    <3> QED BY <2>1, <3>1, <3>3, Zenon
  <2>2. CASE /\ \E v \in AfterClose(Reopened(i), c) : udp' = [udp EXCEPT ![i] = v]
             /\ conns' = [Orphaned(i) EXCEPT ![c] = [state |-> "closed", socket |-> i, held |-> TRUE]]
             /\ removals' = removals \cup {c}
    <3>1. PICK v \in AfterClose(Reopened(i), c) : udp' = [udp EXCEPT ![i] = v]
      BY <2>2, Zenon
    <3>2. Wrote(v, Reopened(i), c, TRUE)
      BY <1>1, AfterCloseEffect, Zenon
    <3>3. Wrote(v, Reopened(i), c, "closed" = "closed") /\ v \in Udp
      BY <3>2 DEF Wrote
    <3> QED BY <2>2, <3>1, <3>3, Zenon
  <2> QED BY <2>1, <2>2
<1> DEFINE n == [state |-> s, socket |-> i, held |-> TRUE]
<1>3. n \in Conn /\ n.state = s /\ n.socket = i /\ n.held
  BY <1>2 DEF Conn
<1>4. conns' = [Orphaned(i) EXCEPT ![c] = n]
  BY <1>2
<1> HIDE DEF n
<1>5. /\ conns' \in [Cids -> Conn] /\ conns'[c] = n
      /\ \A d \in Cids \ {c} : conns'[d] = Orphaned(i)[d]
  BY <1>1, <1>3, <1>4
<1>6. /\ udp' \in [Sockets -> Udp] /\ udp'[i] = v
      /\ \A j \in Sockets \ {i} : udp'[j] = udp[j]
  BY <1>1, <1>2
<1>7. Wrote(udp'[i], Reopened(i), c, conns'[c].state = "closed")
  BY <1>2, <1>3, <1>5, <1>6
<1> QED BY <1>2, <1>3, <1>5, <1>6, <1>7 DEF NewEffect

\* The slot's old connection is not live, so nobody is orphaned; the socket is
\* reopened only when nobody holds its writer.
LEMMA AcceptIntoNewKeeps ==
    ASSUME IInv, AcceptIntoNew
    PROVE  IInv'
<1> DEFINE i == SocketOf(next)
           c == made + 1
           closed == conns'[c].state = "closed"
           u == Reopened(i)
<1>1. /\ at = "accept" /\ at' = "assign" /\ queue > 0 /\ ~Reusable(next) /\ queue' = queue - 1
      /\ next' = (next + 1) % Cardinality(Slots) /\ made' = c /\ cur' = c
      /\ ready' = IF UdpSocketIsIdle(i) THEN [ready EXCEPT ![i] = {}] ELSE ready
      /\ routes' = routes \cup {c} /\ slots' = [slots EXCEPT ![next] = c]
      /\ UNCHANGED <<listen, retrying, arrivals>>
  BY DEF AcceptIntoNew
<1>2. /\ next \in Slots /\ next' \in Slots /\ i \in Sockets /\ c \in Cids /\ made \in Nat
      /\ Counts /\ c + queue' <= arrivals'
  BY <1>1, NextSlot, TakenCounts DEF IInv, TypeOK
<1>3. NewEffect(c, i)
  <2>1. \/ /\ \E v \in AfterWrite(Reopened(i), c) : udp' = [udp EXCEPT ![i] = v]
           /\ conns' = [Orphaned(i) EXCEPT ![c] = [state |-> "live", socket |-> i, held |-> TRUE]]
           /\ UNCHANGED removals
        \/ /\ \E v \in AfterClose(Reopened(i), c) : udp' = [udp EXCEPT ![i] = v]
           /\ conns' = [Orphaned(i) EXCEPT ![c] = [state |-> "closed", socket |-> i, held |-> TRUE]]
           /\ removals' = removals \cup {c}
    BY Zenon DEF AcceptIntoNew, Reopened, Orphaned
  <2> QED BY <1>2, <2>1, NewLemma
<1>4. /\ u \in Udp /\ u.open /\ u.blocked = udp[i].blocked
      /\ UdpSocketIsIdle(i) => udp[i].blocked = {} /\ ~u.wblocked /\ u.armed = Events
      /\ ~UdpSocketIsIdle(i) => u = udp[i]
  BY <1>2, ReopenedEffect
<1>5. /\ \A d \in Cids : /\ Orphaned(i)[d].state = conns[d].state
                         /\ Orphaned(i)[d].socket = conns[d].socket
      /\ \A d \in Present : Orphaned(i)[d] = conns[d]
  BY <1>2, OrphanedEffect
<1>6. SocketOf(next) = next % UdpSockets
  BY DEF SocketOf
<1> HIDE DEF i, u
<1>7. /\ udp' \in [Sockets -> Udp] /\ \A j \in Sockets \ {i} : udp'[j] = udp[j]
      /\ Wrote(udp'[i], u, c, closed)
      /\ conns' \in [Cids -> Conn] /\ \A d \in Cids \ {c} : conns'[d] = Orphaned(i)[d]
      /\ conns'[c].socket = i /\ conns'[c].held /\ conns'[c].state \in {"live", "closed"}
      /\ removals' = removals \cup (IF closed THEN {c} ELSE {})
  BY <1>3 DEF NewEffect, u
<1>8. /\ conns[c].state = "absent" /\ c \notin Live /\ c \notin Present
      /\ \A d \in Cids : d > made => conns[d].state = "absent"
  BY <1>2 DEF IInv, CountInv, Live, Present
<1>9. /\ Live \subseteq Live' /\ Live' \subseteq Live \cup {c}
      /\ Present' = Present \cup {c}
      /\ \A d \in Present : conns'[d] = conns[d]
  BY <1>2, <1>5, <1>7, <1>8 DEF Live, Present
<1>10. /\ udp'[i].open /\ u.armed \subseteq udp'[i].armed
       /\ udp'[i].wblocked => u.wblocked \/ "writable" \in udp'[i].armed
       /\ \A d \in udp'[i].blocked : d \in udp[i].blocked \/ (d = c /\ "writable" \in udp'[i].armed)
       /\ closed => c \notin udp'[i].blocked
  BY <1>4, <1>7 DEF Wrote
<1>11. /\ ready' \in [Sockets -> SUBSET Events]
       /\ \A j \in Sockets \ {i} : ready'[j] = ready[j]
       /\ ~UdpSocketIsIdle(i) => ready' = ready
  BY <1>1, <1>2 DEF IInv, TypeOK
<1>12. retrying = {} /\ retrying' = {}
  BY <1>1 DEF IInv, RetryInv
<1>13. slots \in [Slots -> 0..made] /\ slots' \in [Slots -> 0..made'] /\ slots'[next] = c
       /\ \A k \in Slots \ {next} : slots'[k] = slots[k]
  <2>1. slots \in [Slots -> 0..made]
    BY DEF IInv, TypeOK
  <2>2. 0..made \subseteq 0..made' /\ c \in 0..made'
    BY <1>1, <1>2
  <2> QED BY <1>1, <1>2, <2>1, <2>2
<1>14. TypeOK'
  <2>1. made' \in 0..MaxTcps
    BY <1>1, <1>2, ClientDriverAssumption DEF Cids
  <2>2. 1..made \subseteq 1..made' /\ c \in 1..made' /\ cur' \in Nat
    BY <1>1, <1>2
  <2>3. routes' \subseteq 1..made' /\ removals' \subseteq 1..made' /\ retrying' \subseteq 1..made'
    BY <1>1, <1>7, <1>12, <2>2 DEF IInv, TypeOK
  <2>4. listen' \subseteq {"armed", "retry", "notified", "ready"}
    BY <1>1 DEF IInv, TypeOK
  <2>5. arrivals' \in 0..MaxTcps /\ queue' \in 0..arrivals'
    BY <1>2 DEF Counts
  <2> QED BY <1>1, <1>2, <1>7, <1>11, <1>13, <2>1, <2>2, <2>3, <2>4, <2>5 DEF TypeOK, Udp, Conn
<1>15. CountInv'
  <2>1. made' + queue' <= arrivals'
    BY <1>1, <1>2
  <2>2. ASSUME NEW d \in Cids, d > made' PROVE conns'[d].state = "absent"
    <3>1. d # c /\ d > made
      BY <1>1, <1>2, <2>2 DEF Cids
    <3> QED BY <1>5, <1>7, <1>8, <3>1
  <2>3. ASSUME NEW d \in Cids PROVE d \in removals' <=> conns'[d].state = "closed"
    <3>1. d \in removals <=> conns[d].state = "closed"
      BY DEF IInv, CountInv
    <3> QED BY <1>5, <1>7, <1>8, <3>1
  <2> QED BY <2>1, <2>2, <2>3 DEF CountInv
<1>16. RetryInv' /\ DeliveryInv' /\ ListenInv'
  BY <1>1, <1>12 DEF IInv, RetryInv, DeliveryInv, ListenInv
<1>17. BlockedInv'
  <2> SUFFICES ASSUME NEW j \in Sockets, NEW d \in udp'[j].blocked
               PROVE  d \in Live' /\ conns'[d].socket = j
    BY DEF BlockedInv
  <2>1. CASE d \in udp[j].blocked
    <3>1. d \in Live /\ conns[d].socket = j /\ d \in Present
      BY <2>1 DEF IInv, BlockedInv, Live, Present
    <3> QED BY <1>9, <3>1
  <2>2. CASE d \notin udp[j].blocked
    <3>1. j = i /\ d = c /\ ~closed
      BY <1>7, <1>10, <2>2
    <3> QED BY <1>2, <1>7, <3>1 DEF Live
  <2> QED BY <2>1, <2>2
<1>18. ASSUME NEW j \in Sockets PROVE WakeInv(j)'
  <2>1. WakeInv(j) /\ at \notin {"unblock", "read"} /\ at' \notin {"unblock", "read"}
    BY <1>1 DEF IInv
  <2>2. CASE j # i
    BY <1>7, <1>11, <2>1, <2>2 DEF WakeInv, Awaits
  <2>3. CASE j = i /\ UdpSocketIsIdle(i)
    <3>1. Awaits(j)' /\ "readable" \in udp'[j].armed
      BY <1>4, <1>10, <2>3 DEF Awaits, Events
    <3> QED BY <3>1 DEF WakeInv
  <2>4. CASE j = i /\ ~UdpSocketIsIdle(i)
    <3>1. u = udp[j] /\ ready' = ready
      BY <1>4, <1>11, <2>4
    <3>2. Awaits(j) \/ "writable" \in udp'[j].armed => Awaits(j)'
      BY <1>10, <2>1, <2>4, <3>1 DEF Awaits
    <3>3. udp'[j].blocked # {} => udp[j].blocked # {} \/ "writable" \in udp'[j].armed
      BY <1>10, <2>4
    <3>4. udp'[j].wblocked => udp[j].wblocked \/ "writable" \in udp'[j].armed
      BY <1>10, <2>4, <3>1
    <3>5. udp[j].open /\ udp[j].armed \subseteq udp'[j].armed
      BY <1>4, <1>10, <2>4, <3>1
    <3> QED BY <2>1, <3>1, <3>2, <3>3, <3>4, <3>5 DEF WakeInv
  <2> QED BY <2>2, <2>3, <2>4
<1>19. WriterOutlivesConnections'
  <2> SUFFICES ASSUME NEW d \in Present' PROVE conns'[d].held /\ udp'[conns'[d].socket].open
    BY DEF WriterOutlivesConnections
  <2>1. CASE d = c
    BY <1>7, <1>10, <2>1
  <2>2. CASE d # c
    <3>1. d \in Present /\ conns'[d] = conns[d]
      BY <1>9, <2>2
    <3>2. conns[d].held /\ udp[conns[d].socket].open /\ conns[d].socket \in Sockets
      BY <3>1 DEF IInv, WriterOutlivesConnections, TypeOK, Present
    <3> QED BY <1>7, <1>10, <3>1, <3>2
  <2> QED BY <2>1, <2>2
<1>20. LiveIsPooled'
  <2> SUFFICES ASSUME NEW d \in Live'
               PROVE  \E k \in Slots : slots'[k] = d /\ conns'[d].socket = k % UdpSockets
    BY DEF LiveIsPooled
  <2>1. CASE d = c
    BY <1>2, <1>6, <1>7, <1>13, <2>1 DEF i
  <2>2. CASE d # c
    <3>1. d \in Live /\ d \in Present
      BY <1>9, <2>2 DEF Live, Present
    <3>2. PICK k \in Slots : slots[k] = d /\ conns[d].socket = k % UdpSockets
      BY <3>1 DEF IInv, LiveIsPooled
    <3>3. k # next
      BY <1>1, <3>1, <3>2 DEF Reusable
    <3> QED BY <1>9, <1>13, <3>1, <3>2, <3>3
  <2> QED BY <2>1, <2>2
<1> QED BY <1>14, <1>15, <1>16, <1>17, <1>18, <1>19, <1>20 DEF IInv

---------------------------------------------------------------------------
(* The invariant.                                                          *)

\* After Start() every socket is empty or listened to, and nobody is there.
LEMMA InitEstablishes == Init => IInv
<1> SUFFICES ASSUME Init PROVE IInv
  OBVIOUS
<1>1. /\ 0 \in Slots /\ 0 \in Sockets /\ MaxTcps \in Nat
  BY SlotNumbers, ClientDriverAssumption
<1>2. /\ NoSocket \in Udp /\ NoSocket.blocked = {} /\ ~NoSocket.open /\ ~NoSocket.wblocked
      /\ FreshSocket \in Udp /\ FreshSocket.blocked = {} /\ ~FreshSocket.wblocked
      /\ "readable" \in FreshSocket.armed
  BY DEF NoSocket, FreshSocket, Udp, Events
<1>3. /\ udp \in [Sockets -> Udp]
      /\ \A i \in Sockets : /\ udp[i].blocked = {} /\ ~udp[i].wblocked
                            /\ udp[i].open => "readable" \in udp[i].armed
  BY <1>2 DEF Init
<1>4. /\ conns \in [Cids -> Conn] /\ \A c \in Cids : conns[c].state = "absent"
      /\ Live = {} /\ Present = {}
  <2>1. NoConn \in Conn /\ NoConn.state = "absent"
    BY <1>1 DEF NoConn, Conn
  <2> QED BY <2>1 DEF Init, Live, Present
<1>5. TypeOK
  BY <1>1, <1>3, <1>4 DEF Init, TypeOK, Udp, Conn
<1>6. CountInv /\ RetryInv /\ DeliveryInv /\ ListenInv
  BY <1>4 DEF Init, CountInv, RetryInv, DeliveryInv, ListenInv
<1>7. BlockedInv /\ WriterOutlivesConnections /\ LiveIsPooled
  BY <1>3, <1>4 DEF BlockedInv, WriterOutlivesConnections, LiveIsPooled
<1>8. \A i \in Sockets : WakeInv(i)
  BY <1>3 DEF WakeInv
<1> QED BY <1>5, <1>6, <1>7, <1>8 DEF IInv

\* Every step of the program preserves it.
LEMMA StepKeeps == IInv /\ [Next]_vars => IInv'
<1> SUFFICES ASSUME IInv, [Next]_vars PROVE IInv'
  OBVIOUS
<1>1. ASSUME NEW c \in Cids, ProcessPacket(c) PROVE IInv'
  <2>1. CASE c \in Live
    <3>1. /\ at = "read" /\ Acts(c, udp[conns[c].socket])
          /\ UNCHANGED <<at, ready, listen, cur, made, slots, next, retrying, arrivals, queue>>
      BY <1>1, <2>1 DEF ProcessPacket
    <3> QED BY <2>1, <3>1, ProcessPacketKeeps
  <2>2. CASE c \notin Live
    <3>1. UNCHANGED vars
      BY <1>1, <2>2 DEF ProcessPacket, vars
    <3>2. UNCHANGED <<arrivals, queue>> /\ ListenInv' /\ DeliveryInv'
      BY <3>1 DEF vars, IInv, ListenInv, DeliveryInv
    <3> QED BY <3>1, <3>2, LoopStep, SameCounts DEF vars, OutsideUdp, IInv, TypeOK
  <2> QED BY <2>1, <2>2
<1>2. ASSUME AssignNewTcp PROVE IInv'
  <2>1. /\ at = "assign" /\ at' = "accept"
        /\ UNCHANGED <<ready, listen, cur, made, slots, next, retrying, arrivals, queue>>
    BY <1>2 DEF AssignNewTcp
  <2>2. CASE cur \in Live
    <3>1. Acts(cur, udp[conns[cur].socket])
      BY <1>2, <2>2 DEF AssignNewTcp
    <3> QED BY <2>1, <2>2, <3>1, AssignKeeps
  <2>3. CASE cur \notin Live
    <3>1. UNCHANGED <<udp, conns, routes, removals>>
      BY <1>2, <2>3 DEF AssignNewTcp
    <3>2. ListenInv' /\ DeliveryInv'
      BY <2>1 DEF IInv, ListenInv, DeliveryInv
    <3>3. OutsideUdp
      BY <2>1 DEF OutsideUdp, Places, IInv, TypeOK
    <3> QED BY <2>1, <3>1, <3>2, <3>3, LoopStep, SameCounts DEF IInv, TypeOK
  <2> QED BY <2>2, <2>3
<1>3. ASSUME UNCHANGED vars PROVE IInv'
  <2>1. UNCHANGED <<arrivals, queue>> /\ ListenInv' /\ DeliveryInv'
    BY <1>3, Zenon DEF vars, IInv, ListenInv, DeliveryInv
  <2> QED BY <1>3, <2>1, LoopStep, SameCounts, Zenon DEF vars, OutsideUdp, IInv, TypeOK
<1>4. ASSUME Accept PROVE IInv'
  BY <1>4, AcceptKnownKeeps, AcceptReopenFailsKeeps, AcceptIntoNewKeeps DEF Accept
<1>5. ASSUME MainLoop PROVE IInv'
  BY <1>2, <1>4, <1>5, AcceptRetryKeeps, PollKeeps, EndUnblockKeeps, EndReadKeeps,
     ListenerEventKeeps, AcceptStopsKeeps, LoopEndsKeep, CollectGarbageKeeps, UdpEventKeeps,
     CanWriteKeeps DEF MainLoop
<1> QED BY <1>1, <1>3, <1>5, TcpArrivesKeeps, TimerKeeps DEF Next

\* The inductive invariant holds in every reachable state.
LEMMA Inductive == Spec => []IInv
  BY InitEstablishes, StepKeeps, PTL DEF Spec

\* Types, and the raw pointers of the lists of blocked writers: they lead to
\* live connections of their own socket, and OnWriterUnblocked() retries only
\* connections that exist.
THEOREM ListsLeadToConnections == Spec => []DriverInv
<1>1. IInv => DriverInv
  BY DEF IInv, DriverInv, ListedAreAlive, BlockedInv, RetryInv, Live, Present
<1> QED BY <1>1, Inductive, PTL

\* A connection's writer is replaced only when no connection holds it any more,
\* whatever the number of sockets, slots and connections.
THEOREM WritersOutliveConnections == Spec => []WriterOutlivesConnections
<1>1. IInv => WriterOutlivesConnections
  BY DEF IInv
<1> QED BY <1>1, Inductive, PTL

\* No wake-up of a UDP socket is lost between poll(), the callbacks and the
\* writers' retries.
THEOREM NoUdpWakeupLost == Spec => []WakeupArmed
<1>1. IInv => WakeupArmed
  <2> SUFFICES ASSUME IInv, NEW i \in Sockets
               PROVE  /\ udp[i].open => "readable" \in udp[i].armed \cup ready[i]
                      /\ udp[i].blocked # {} \/ udp[i].wblocked =>
                           \/ "writable" \in udp[i].armed \cup ready[i]
                           \/ at = "unblock" /\ cur = i
    BY DEF WakeupArmed
  <2>1. WakeInv(i)
    BY DEF IInv
  <2> QED BY <2>1 DEF WakeInv, Awaits
<1> QED BY <1>1, Inductive, PTL

\* The listener is woken by exactly one of its event, the alarm and the
\* artificial notification.
THEOREM OneListenerWakeup == Spec => []ListenerHasOneWakeup
<1>1. IInv => ListenerHasOneWakeup
  BY FS_Singleton DEF IInv, ListenInv, ListenerHasOneWakeup
<1> QED BY <1>1, Inductive, PTL

\* Round robin reuse of the pool orphans no live connection.
THEOREM PoolHoldsTheLive == Spec => []LiveIsPooled
<1>1. IInv => LiveIsPooled
  BY DEF IInv
<1> QED BY <1>1, Inductive, PTL
===========================================================================
