------------------------ MODULE QuictunServerDriver ------------------------
(***************************************************************************)
(* QuictunServerDriver (quictun_server_driver.cc) and the server's main    *)
(* loop (quictun_server_bin.cc:179-183): one UDP socket and one packet     *)
(* writer shared by every connection, the admission of new connections,    *)
(* the list of connections that found the writer blocked, and the deferred *)
(* destruction of connections that closed.                                 *)
(*                                                                         *)
(* at is where the one thread is: in RunEventLoopOnce() it fires alarms,   *)
(* polls once, handles writable and then readable, fires alarms again;     *)
(* then come CollectGarbage() and the idle sweep.  A subscription to a     *)
(* socket event is consumed when the event is delivered.                   *)
(***************************************************************************)
EXTENDS Integers, FiniteSets

CONSTANTS
    Ids,            \* connection IDs of packets that arrive
    MaxConcurrent,  \* --max_concurrent_connections
    Budget          \* --max_new_connections_per_event_loop

ASSUME DriverAssumption == MaxConcurrent \in Nat /\ Budget \in Nat

VARIABLES
    at,         \* program counter of the main loop
    conns,      \* connections_: "absent", "live" or "closed"
    pending,    \* pending_removal_
    budget,     \* new_connections_allowed_this_event_loop_
    created,    \* connections created since the current iteration began
    blocked,    \* write_blocked_list_
    retrying,   \* the temporary list of OnWriterUnblocked()
    wblocked,   \* shared_writer_->IsWriteBlocked()
    full,       \* the kernel's send buffer is full
    armed,      \* events subscribed to on the listen socket
    mask        \* events of the callback being run

vars == <<at, conns, pending, budget, created, blocked, retrying, wblocked,
          full, armed, mask>>

Places == {"alarms", "unblock", "read", "late", "collect", "sweep"}

Present == {c \in Ids : conns[c] # "absent"}

---------------------------------------------------------------------------
(* What a connection does when it is given control; wb says whether the    *)
(* shared writer is blocked at that moment.                                *)

\* A packet goes out: the buffer has room for it.
WriteOk(wb) == ~wb /\ ~full /\ wblocked' = wb /\ UNCHANGED <<blocked, full, armed>>

\* Mutant of Refused: nobody asks for the writable event.
RefusedUnarmed(wb) ==
    /\ wblocked' = TRUE
    /\ full' = (full \/ ~wb)
    /\ UNCHANGED armed

\* The kernel refuses the packet, or the writer was blocked already.
\* RearmOnBlockPacketWriter and OnWriteBlocked() ask for the writable event.
Refused(wb) ==
    /\ wblocked' = TRUE
    /\ full' = (full \/ ~wb)
    /\ armed' = armed \cup {"writable"}

\* A refused connection is listed by the driver's OnWriteBlocked().
OnWriteBlocked(c, wb) == Refused(wb) /\ blocked' = blocked \cup {c}

Writes(c, wb) == WriteOk(wb) \/ OnWriteBlocked(c, wb)

\* Mutant of Closes: RemoveConnection() does not look at the list.
ClosesListed(c, wb) ==
    /\ conns' = [conns EXCEPT ![c] = "closed"]
    /\ pending' = pending \cup {c}
    /\ \/ wblocked' = wb /\ UNCHANGED <<blocked, full, armed>>
       \/ OnWriteBlocked(c, wb)

\* QuictunServerConnection::Close(): its CONNECTION_CLOSE may be refused too;
\* RemoveConnection() then takes the connection out of the list.
Closes(c, wb) ==
    /\ conns' = [conns EXCEPT ![c] = "closed"]
    /\ pending' = pending \cup {c}
    /\ blocked' = blocked \ {c}
    /\ (wblocked' = wb /\ UNCHANGED <<full, armed>>) \/ Refused(wb)

\* A connection runs: it writes, or it closes.
Acts(c, wb) ==
    \/ Writes(c, wb) /\ UNCHANGED <<conns, pending>>
    \/ Closes(c, wb)

---------------------------------------------------------------------------

\* Alarms of QUIC (retransmission, idle timeout) and of the idle sweep.
Timer(c) ==
    /\ at \in {"alarms", "late", "sweep"}
    /\ conns[c] = "live"
    /\ Acts(c, wblocked)
    /\ UNCHANGED <<at, budget, created, retrying, mask>>

\* One poll(): what is both armed and ready is delivered and no longer armed.
\* OnSocketEvent() starts with the writable event: the writer is unblocked
\* and the list handed over.
Poll ==
    /\ at = "alarms"
    /\ \E m \in SUBSET (armed \ (IF full THEN {"writable"} ELSE {})) :
          /\ "writable" \in armed /\ ~full => "writable" \in m
          /\ mask' = m
          /\ armed' = armed \ m
          /\ at' = IF "writable" \in m THEN "unblock"
                   ELSE IF "readable" \in m THEN "read" ELSE "late"
          /\ IF "writable" \in m
             THEN wblocked' = FALSE /\ retrying' = blocked /\ blocked' = {}
             ELSE UNCHANGED <<wblocked, retrying, blocked>>
    /\ UNCHANGED <<conns, pending, budget, created, full>>

\* OnWriterUnblocked() gives each listed connection its chance: it unblocks
\* the shared writer again, even if the one before has just been refused.
CanWrite(c) ==
    /\ at = "unblock" /\ c \in retrying
    /\ retrying' = retrying \ {c}
    /\ IF conns[c] = "live" THEN Acts(c, FALSE)
       ELSE wblocked' = FALSE /\ UNCHANGED <<conns, pending, blocked, full, armed>>
    /\ UNCHANGED <<at, budget, created, mask>>

\* Mutant of EndUnblock: the readable half of the mask is forgotten.
EndUnblockSkipsRead ==
    /\ at = "unblock" /\ retrying = {}
    /\ armed' = IF blocked # {} THEN armed \cup {"writable"} ELSE armed
    /\ at' = "late"
    /\ UNCHANGED <<conns, pending, budget, created, blocked, retrying, wblocked,
                   full, mask>>

EndUnblock ==
    /\ at = "unblock" /\ retrying = {}
    /\ armed' = IF blocked # {} THEN armed \cup {"writable"} ELSE armed
    /\ at' = IF "readable" \in mask THEN "read" ELSE "late"
    /\ UNCHANGED <<conns, pending, budget, created, blocked, retrying, wblocked,
                   full, mask>>

\* ProcessPacket() for a connection that exists; a closed one ignores it.
PacketForExisting(c) ==
    /\ at = "read" /\ conns[c] # "absent"
    /\ IF conns[c] = "live" THEN Acts(c, wblocked)
       ELSE UNCHANGED <<conns, pending, blocked, wblocked, full, armed>>
    /\ UNCHANGED <<at, budget, created, retrying, mask>>

\* Mutant of FirstPacket: the bound is checked off by one.
FirstPacketOffByOne(c) ==
    /\ at = "read" /\ conns[c] = "absent"
    /\ Cardinality(Present) <= MaxConcurrent
    /\ budget > 0
    /\ budget' = budget - 1
    /\ created' = created + 1
    /\ \/ Writes(c, wblocked) /\ conns' = [conns EXCEPT ![c] = "live"] /\ UNCHANGED pending
       \/ Closes(c, wblocked)
    /\ UNCHANGED <<at, retrying, mask>>

\* ProcessPacket() for an unknown connection ID that passes the admission
\* checks: the constructor processes the packet, so the connection may write,
\* be blocked, or close before it is in connections_.
FirstPacket(c) ==
    /\ at = "read" /\ conns[c] = "absent"
    /\ Cardinality(Present) < MaxConcurrent
    /\ budget > 0
    /\ budget' = budget - 1
    /\ created' = created + 1
    /\ \/ Writes(c, wblocked) /\ conns' = [conns EXCEPT ![c] = "live"] /\ UNCHANGED pending
       \/ Closes(c, wblocked)
    /\ UNCHANGED <<at, retrying, mask>>

\* The read loop ends and asks for the readable event again.  (Packets that
\* are undersized, unparseable or over a limit are dropped without effect.)
EndRead ==
    /\ at = "read"
    /\ armed' = armed \cup {"readable"}
    /\ at' = "late"
    /\ UNCHANGED <<conns, pending, budget, created, blocked, retrying, wblocked,
                   full, mask>>

EndLoop ==
    /\ at = "late"
    /\ at' = "collect"
    /\ UNCHANGED <<conns, pending, budget, created, blocked, retrying, wblocked,
                   full, armed, mask>>

\* Mutant of CollectGarbage: the budget of the next iteration is not restored.
CollectGarbageKeepsBudget ==
    /\ at = "collect"
    /\ conns' = [c \in Ids |-> IF c \in pending THEN "absent" ELSE conns[c]]
    /\ blocked' = blocked \ pending
    /\ pending' = {}
    /\ at' = "sweep"
    /\ UNCHANGED <<budget, created, retrying, wblocked, full, armed, mask>>

\* CollectGarbage(): what is still listed is removed, with a QUIC_BUG.
CollectGarbage ==
    /\ at = "collect"
    /\ conns' = [c \in Ids |-> IF c \in pending THEN "absent" ELSE conns[c]]
    /\ blocked' = blocked \ pending
    /\ pending' = {}
    /\ budget' = Budget
    /\ at' = "sweep"
    /\ UNCHANGED <<created, retrying, wblocked, full, armed, mask>>

EndSweep ==
    /\ at = "sweep"
    /\ at' = "alarms"
    /\ created' = 0
    /\ UNCHANGED <<conns, pending, budget, blocked, retrying, wblocked, full,
                   armed, mask>>

\* The kernel sends what it holds.
KernelDrains ==
    /\ full
    /\ full' = FALSE
    /\ UNCHANGED <<at, conns, pending, budget, created, blocked, retrying,
                   wblocked, armed, mask>>

Init ==
    /\ at = "alarms"
    /\ conns = [c \in Ids |-> "absent"]
    /\ pending = {}
    /\ budget = Budget
    /\ created = 0
    /\ blocked = {}
    /\ retrying = {}
    /\ wblocked = FALSE
    /\ full = FALSE
    /\ armed = {"readable", "writable"}
    /\ mask = {}

MainLoop == Poll \/ EndUnblock \/ EndRead \/ EndLoop \/ CollectGarbage \/ EndSweep

Next ==
    \/ MainLoop
    \/ KernelDrains
    \/ \E c \in Ids :
          Timer(c) \/ CanWrite(c) \/ PacketForExisting(c) \/ FirstPacket(c)

\* The loop never stops and its read loop ends (packets arrive no faster than
\* they are handled); the kernel sends what its buffer holds.
Fairness ==
    /\ WF_vars(MainLoop)
    /\ WF_vars(KernelDrains)
    /\ WF_vars(\E c \in Ids : CanWrite(c))

Spec == Init /\ [][Next]_vars /\ Fairness

---------------------------------------------------------------------------

TypeOK ==
    /\ at \in Places
    /\ conns \in [Ids -> {"absent", "live", "closed"}]
    /\ pending \subseteq Ids
    /\ budget \in 0..Budget /\ created \in Nat
    /\ blocked \subseteq Ids /\ retrying \subseteq Ids
    /\ wblocked \in BOOLEAN /\ full \in BOOLEAN
    /\ armed \subseteq {"readable", "writable"} /\ mask \subseteq {"readable", "writable"}

\* connections_ never holds more than --max_concurrent_connections entries,
\* the closed ones that wait for CollectGarbage() included.
ConnectionsBounded == Cardinality(Present) <= MaxConcurrent

\* One iteration of the main loop creates at most
\* --max_new_connections_per_event_loop connections, and a client is turned
\* away for the budget only when it has really created that many:
\* CollectGarbage() restores all of it.
CreationBudgeted ==
    /\ created <= Budget
    /\ at = "read" /\ budget = 0 => created = Budget

\* The list of blocked writers holds raw pointers: only to live connections,
\* so that CollectGarbage() never destroys a listed one (its QUIC_BUG is not
\* reached) and OnWriterUnblocked() never calls a destroyed one.
ListedAreAlive ==
    /\ \A c \in blocked : conns[c] = "live"
    /\ retrying \subseteq Present

\* The server stays reachable: while it is not reading, the readable event is
\* subscribed to, or about to be handled in the callback that is running.
StaysReachable ==
    at # "read" => \/ "readable" \in armed
                   \/ at = "unblock" /\ "readable" \in mask

\* No wake-up of the listen socket is lost: the server stays reachable, and
\* while connections wait or the writer believes it is blocked, the writable
\* event is subscribed to or its callback is running.
WakeupArmed ==
    /\ StaysReachable
    /\ blocked # {} \/ wblocked => "writable" \in armed \/ at = "unblock"

\* Everyone who waits for the writer is called back once the kernel drains.
BlockedIsServed == \A c \in Ids : c \in blocked ~> c \notin blocked
===========================================================================
