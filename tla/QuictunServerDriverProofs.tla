--------------------- MODULE QuictunServerDriverProofs ---------------------
(***************************************************************************)
(* The safety invariants of QuictunServerDriver for any number of          *)
(* connection IDs and any limits.                                          *)
(***************************************************************************)
EXTENDS QuictunServerDriver, FiniteSetTheorems, TLAPS

\* Nobody but the temporary list of OnWriterUnblocked() outlives its callback,
\* and lists point at live connections.
ListsInv ==
    /\ \A c \in blocked : conns[c] = "live"
    /\ \A c \in retrying : conns[c] = "live"
    /\ at # "unblock" => retrying = {}

\* What is queued for removal is exactly what has closed.
RemovalInv == \A c \in Ids : c \in pending <=> conns[c] = "closed"

\* The budget and what was spent of it add up, until it is restored.
BudgetInv ==
    /\ created \in 0..Budget
    /\ at # "sweep" => created + budget = Budget
    /\ at = "sweep" => budget = Budget

\* connections_ is finite and within its bound.
BoundInv == IsFiniteSet(Present) /\ Cardinality(Present) <= MaxConcurrent

\* A blocked writer is waiting for the writable event even while its callback
\* runs; listed connections wait for it, or for the end of the callback.
WakeupInv ==
    /\ wblocked => "writable" \in armed
    /\ blocked # {} => "writable" \in armed \/ at = "unblock"

\* The inductive invariant.
IInv == /\ TypeOK /\ ListsInv /\ RemovalInv /\ BudgetInv /\ BoundInv
        /\ WakeupInv /\ StaysReachable

---------------------------------------------------------------------------
(* What a connection may do to the driver, stated once for every action    *)
(* that gives it control.                                                  *)

ActsEffect(c) ==
    /\ conns' \in [Ids -> {"absent", "live", "closed"}]
    /\ pending' \subseteq Ids
    /\ blocked' \subseteq Ids
    /\ \A d \in Ids \ {c} : conns'[d] = conns[d] /\ (d \in blocked' <=> d \in blocked)
    /\ \A d \in Ids \ {c} : d \in pending' <=> d \in pending
    /\ conns'[c] = "closed" \/ conns'[c] = conns[c]
    /\ conns'[c] = "closed" => c \notin blocked' /\ c \in pending'
    /\ conns'[c] # "closed" => (c \in pending' <=> c \in pending)

SocketEffect(wb) ==
    /\ wblocked' \in BOOLEAN /\ full' \in BOOLEAN
    /\ armed' \subseteq {"readable", "writable"}
    /\ armed \subseteq armed'
    /\ wblocked' => wb \/ "writable" \in armed'
    /\ (\E d \in Ids : d \in blocked' /\ d \notin blocked) => "writable" \in armed'

LEMMA WritesEffect ==
    ASSUME TypeOK, NEW c \in Ids, NEW wb \in BOOLEAN, Writes(c, wb)
    PROVE  /\ SocketEffect(wb)
           /\ blocked' \subseteq Ids
           /\ \A d \in Ids \ {c} : d \in blocked' <=> d \in blocked
<1>1. CASE WriteOk(wb)
  BY <1>1 DEF WriteOk, SocketEffect, TypeOK
<1>2. CASE OnWriteBlocked(c, wb)
  BY <1>2 DEF OnWriteBlocked, Refused, SocketEffect, TypeOK
<1> QED BY <1>1, <1>2 DEF Writes

LEMMA ClosesEffect ==
    ASSUME TypeOK, NEW c \in Ids, NEW wb \in BOOLEAN, Closes(c, wb)
    PROVE  SocketEffect(wb) /\ ActsEffect(c) /\ conns'[c] = "closed"
<1>0. \A d \in blocked' : d \in blocked
  BY DEF Closes
<1>1. SocketEffect(wb)
  <2>1. CASE wblocked' = wb /\ UNCHANGED <<full, armed>>
    BY <1>0, <2>1 DEF SocketEffect, TypeOK
  <2>2. CASE Refused(wb)
    BY <1>0, <2>2 DEF Refused, SocketEffect, TypeOK
  <2> QED BY <2>1, <2>2 DEF Closes
<1>2. ActsEffect(c) /\ conns'[c] = "closed"
  BY DEF Closes, ActsEffect, TypeOK
<1> QED BY <1>1, <1>2

LEMMA ActsLemma ==
    ASSUME TypeOK, NEW c \in Ids, NEW wb \in BOOLEAN, Acts(c, wb),
           conns[c] = "live"
    PROVE  SocketEffect(wb) /\ ActsEffect(c)
<1>1. CASE Writes(c, wb) /\ UNCHANGED <<conns, pending>>
  BY <1>1, WritesEffect DEF ActsEffect, TypeOK
<1>2. CASE Closes(c, wb)
  BY <1>2, ClosesEffect
<1> QED BY <1>1, <1>2 DEF Acts

\* A connection that acts changes neither who is in connections_ ...
LEMMA PresentKept ==
    ASSUME TypeOK, NEW c \in Ids, ActsEffect(c), conns[c] = "live"
    PROVE  Present' = Present
  BY DEF Present, ActsEffect, TypeOK

\* ... nor, whatever it does, what the lists guarantee.
LEMMA ActsKeepsLists ==
    ASSUME TypeOK, ListsInv, RemovalInv, NEW c \in Ids, ActsEffect(c),
           conns[c] = "live", retrying' \subseteq retrying, c \notin retrying',
           at' = at
    PROVE  ListsInv' /\ RemovalInv'
<1>1. RemovalInv'
  BY DEF RemovalInv, ActsEffect, TypeOK
<1>2. \A d \in blocked' : conns'[d] = "live"
  BY DEF ListsInv, ActsEffect, TypeOK
<1>3. \A d \in retrying' : conns'[d] = "live"
  BY DEF ListsInv, ActsEffect, TypeOK
<1> QED BY <1>1, <1>2, <1>3 DEF ListsInv

LEMMA SocketKeepsWakeup ==
    ASSUME TypeOK, WakeupInv, StaysReachable, NEW wb \in BOOLEAN, wb => wblocked,
           SocketEffect(wb), blocked' \subseteq Ids, at' = at, mask' = mask
    PROVE  WakeupInv' /\ StaysReachable'
<1>1. wblocked' => "writable" \in armed'
  BY DEF WakeupInv, SocketEffect
<1>2. ASSUME blocked' # {} PROVE "writable" \in armed' \/ at' = "unblock"
  <2>1. CASE blocked # {}
    BY <2>1 DEF WakeupInv, SocketEffect
  <2>2. CASE blocked = {}
    BY <1>2, <2>2 DEF SocketEffect
  <2> QED BY <2>1, <2>2
<1>3. StaysReachable'
  BY DEF StaysReachable, SocketEffect
<1> QED BY <1>1, <1>2, <1>3 DEF WakeupInv

\* Any action that gives control to an existing connection.
LEMMA ActingStep ==
    ASSUME IInv, NEW c \in Ids, NEW wb \in BOOLEAN, wb => wblocked,
           Acts(c, wb), conns[c] = "live",
           retrying' \subseteq retrying, c \notin retrying',
           UNCHANGED <<at, budget, created, mask>>
    PROVE  IInv'
<1> USE DEF IInv
<1>1. SocketEffect(wb) /\ ActsEffect(c)
  BY ActsLemma
<1>2. TypeOK'
  BY <1>1 DEF TypeOK, SocketEffect, ActsEffect
<1>3. ListsInv' /\ RemovalInv'
  BY <1>1, ActsKeepsLists
<1>4. BudgetInv'
  BY DEF BudgetInv
<1>5. BoundInv'
  BY <1>1, PresentKept DEF BoundInv
<1>6. WakeupInv' /\ StaysReachable'
  BY <1>1, SocketKeepsWakeup DEF ActsEffect
<1> QED BY <1>2, <1>3, <1>4, <1>5, <1>6

\* The constructor of a connection, with what it does to the lists.
LEMMA AdmissionStep ==
    ASSUME IInv, NEW c \in Ids, FirstPacket(c)
    PROVE  IInv'
<1> USE DEF IInv
<1>0. conns[c] = "absent" /\ at = "read" /\ retrying = {}
  BY DEF FirstPacket, ListsInv
<1>1. /\ SocketEffect(wblocked)
      /\ blocked' \subseteq Ids /\ pending' \subseteq Ids
      /\ conns' \in [Ids -> {"absent", "live", "closed"}]
      /\ \A d \in Ids \ {c} : /\ conns'[d] = conns[d]
                              /\ d \in blocked' <=> d \in blocked
                              /\ d \in pending' <=> d \in pending
      /\ \/ conns'[c] = "live" /\ pending' = pending
         \/ conns'[c] = "closed" /\ c \notin blocked' /\ c \in pending'
  <2>1. CASE Writes(c, wblocked) /\ conns' = [conns EXCEPT ![c] = "live"] /\ UNCHANGED pending
    <3>1. /\ SocketEffect(wblocked) /\ blocked' \subseteq Ids
          /\ \A d \in Ids \ {c} : d \in blocked' <=> d \in blocked
      BY <2>1, WritesEffect DEF TypeOK
    <3> QED BY <2>1, <3>1 DEF TypeOK
  <2>2. CASE Closes(c, wblocked)
    BY <2>2, ClosesEffect DEF TypeOK, ActsEffect
  <2> QED BY <2>1, <2>2 DEF FirstPacket
<1>2. budget > 0 /\ budget' = budget - 1 /\ created' = created + 1
      /\ at' = at /\ retrying' = retrying /\ mask' = mask
  BY DEF FirstPacket
<1>3. TypeOK'
  <2>1. budget' \in 0..Budget /\ created' \in Nat
    BY <1>2, DriverAssumption DEF TypeOK
  <2> QED BY <1>1, <1>2, <2>1 DEF TypeOK, SocketEffect
<1>4. RemovalInv'
  BY <1>0, <1>1 DEF RemovalInv, TypeOK
<1>5. ListsInv'
  BY <1>0, <1>1, <1>2 DEF ListsInv, TypeOK
<1>6. BudgetInv'
  BY <1>0, <1>2, DriverAssumption DEF BudgetInv, TypeOK
<1>7. BoundInv'
  <2>1. Present' = Present \cup {c} /\ c \notin Present
    BY <1>0, <1>1 DEF Present
  <2>2. Cardinality(Present) < MaxConcurrent /\ IsFiniteSet(Present)
    BY DEF FirstPacket, BoundInv
  <2>3. IsFiniteSet(Present \cup {c}) /\ Cardinality(Present \cup {c}) = Cardinality(Present) + 1
    BY <2>1, <2>2, FS_AddElement
  <2>4. Cardinality(Present) \in Nat
    BY <2>2, FS_CardinalityType
  <2> QED BY <2>1, <2>2, <2>3, <2>4, DriverAssumption DEF BoundInv
<1>8. WakeupInv' /\ StaysReachable'
  BY <1>1, <1>2, SocketKeepsWakeup DEF TypeOK
<1> QED BY <1>3, <1>4, <1>5, <1>6, <1>7, <1>8

LEMMA PollStep ==
    ASSUME IInv, Poll
    PROVE  IInv'
<1> USE DEF IInv
<1>1. PICK m \in SUBSET armed :
          /\ mask' = m
          /\ armed' = armed \ m
          /\ at' = IF "writable" \in m THEN "unblock"
                   ELSE IF "readable" \in m THEN "read" ELSE "late"
          /\ IF "writable" \in m
             THEN wblocked' = FALSE /\ retrying' = blocked /\ blocked' = {}
             ELSE UNCHANGED <<wblocked, retrying, blocked>>
  BY DEF Poll
<1>2. at = "alarms" /\ UNCHANGED <<conns, pending, budget, created, full>>
  BY DEF Poll
<1>3. TypeOK'
  BY <1>1, <1>2 DEF TypeOK, Places
<1>4. ListsInv'
  BY <1>1, <1>2 DEF ListsInv
<1>5. RemovalInv' /\ BudgetInv' /\ BoundInv'
  BY <1>1, <1>2 DEF RemovalInv, BudgetInv, BoundInv, Present
<1>6. WakeupInv'
  BY <1>1, <1>2 DEF WakeupInv
<1>7. StaysReachable'
  BY <1>1, <1>2 DEF StaysReachable
<1> QED BY <1>3, <1>4, <1>5, <1>6, <1>7

LEMMA CollectStep ==
    ASSUME IInv, CollectGarbage
    PROVE  IInv'
<1> USE DEF IInv, CollectGarbage
<1>1. TypeOK'
  BY DriverAssumption DEF TypeOK, Places
<1>2. \A c \in Ids : conns'[c] = IF conns[c] = "closed" THEN "absent" ELSE conns[c]
  BY DEF RemovalInv, TypeOK
<1>3. ListsInv'
  BY <1>2 DEF ListsInv, TypeOK
<1>4. RemovalInv'
  BY <1>2 DEF RemovalInv, TypeOK
<1>5. BudgetInv'
  BY DEF BudgetInv
<1>6. BoundInv'
  <2>1. Present' \subseteq Present
    BY <1>2 DEF Present
  <2>2. IsFiniteSet(Present') /\ Cardinality(Present') <= Cardinality(Present)
    BY <2>1, FS_Subset DEF BoundInv
  <2>3. Cardinality(Present) \in Nat /\ Cardinality(Present') \in Nat
    BY <2>2, FS_CardinalityType DEF BoundInv
  <2> QED BY <2>2, <2>3, DriverAssumption DEF BoundInv
<1>7. WakeupInv' /\ StaysReachable'
  BY DEF WakeupInv, StaysReachable
<1> QED BY <1>1, <1>3, <1>4, <1>5, <1>6, <1>7

LEMMA InitStep == Init => IInv
<1> SUFFICES ASSUME Init PROVE IInv
  OBVIOUS
<1> USE DEF Init
<1>1. TypeOK
  <2>1. budget \in 0..Budget /\ created \in Nat
    BY DriverAssumption
  <2>2. wblocked \in BOOLEAN /\ full \in BOOLEAN
    BY Zenon
  <2> QED BY <2>1, <2>2 DEF TypeOK, Places
<1>2. ListsInv /\ RemovalInv /\ WakeupInv /\ StaysReachable
  BY DEF ListsInv, RemovalInv, WakeupInv, StaysReachable
<1>3. BudgetInv
  BY DriverAssumption DEF BudgetInv
<1>4. BoundInv
  <2>1. Present = {}
    BY DEF Present
  <2> QED BY <2>1, FS_EmptySet, DriverAssumption DEF BoundInv
<1> QED BY <1>1, <1>2, <1>3, <1>4 DEF IInv

LEMMA NextStep == IInv /\ [Next]_vars => IInv'
<1> SUFFICES ASSUME IInv, [Next]_vars PROVE IInv'
  OBVIOUS
<1>1. CASE Poll
  BY <1>1, PollStep
<1>2. CASE EndUnblock
  <2> USE <1>2 DEF EndUnblock, IInv
  <2>1. TypeOK' /\ ListsInv' /\ RemovalInv' /\ BudgetInv'
    BY DEF TypeOK, Places, ListsInv, RemovalInv, BudgetInv
  <2>2. BoundInv'
    BY DEF BoundInv, Present
  <2>3. WakeupInv' /\ StaysReachable'
    BY DEF WakeupInv, StaysReachable
  <2> QED BY <2>1, <2>2, <2>3
<1>3. CASE EndRead
  <2> USE <1>3 DEF EndRead, IInv
  <2>1. TypeOK' /\ ListsInv' /\ RemovalInv' /\ BudgetInv'
    BY DEF TypeOK, Places, ListsInv, RemovalInv, BudgetInv
  <2>2. BoundInv'
    BY DEF BoundInv, Present
  <2>3. WakeupInv' /\ StaysReachable'
    BY DEF WakeupInv, StaysReachable
  <2> QED BY <2>1, <2>2, <2>3
<1>4. CASE EndLoop
  <2> USE <1>4 DEF EndLoop, IInv
  <2>1. TypeOK' /\ ListsInv' /\ RemovalInv' /\ BudgetInv'
    BY DEF TypeOK, Places, ListsInv, RemovalInv, BudgetInv
  <2>2. BoundInv'
    BY DEF BoundInv, Present
  <2>3. WakeupInv' /\ StaysReachable'
    BY DEF WakeupInv, StaysReachable
  <2> QED BY <2>1, <2>2, <2>3
<1>5. CASE CollectGarbage
  BY <1>5, CollectStep
<1>6. CASE EndSweep
  <2> USE <1>6 DEF EndSweep, IInv
  <2>1. TypeOK' /\ ListsInv' /\ RemovalInv'
    BY DEF TypeOK, Places, ListsInv, RemovalInv
  <2>2. BudgetInv'
    BY DriverAssumption DEF BudgetInv
  <2>3. BoundInv'
    BY DEF BoundInv, Present
  <2>4. WakeupInv' /\ StaysReachable'
    BY DEF WakeupInv, StaysReachable
  <2> QED BY <2>1, <2>2, <2>3, <2>4
<1>7. CASE KernelDrains
  <2> USE <1>7 DEF KernelDrains, IInv
  <2>1. TypeOK' /\ ListsInv' /\ RemovalInv' /\ BudgetInv'
    BY DEF TypeOK, ListsInv, RemovalInv, BudgetInv
  <2>2. BoundInv'
    BY DEF BoundInv, Present
  <2>3. WakeupInv' /\ StaysReachable'
    BY DEF WakeupInv, StaysReachable
  <2> QED BY <2>1, <2>2, <2>3
<1>8. ASSUME NEW c \in Ids, Timer(c) PROVE IInv'
  BY <1>8, ActingStep DEF Timer, IInv, TypeOK, ListsInv
<1>9. ASSUME NEW c \in Ids, CanWrite(c) PROVE IInv'
  <2>1. conns[c] = "live"
    BY <1>9 DEF CanWrite, IInv, ListsInv
  <2> QED BY <1>9, <2>1, ActingStep DEF CanWrite
<1>10. ASSUME NEW c \in Ids, PacketForExisting(c) PROVE IInv'
  <2>1. CASE conns[c] = "live"
    BY <1>10, <2>1, ActingStep DEF PacketForExisting, IInv, TypeOK, ListsInv
  <2>2. CASE conns[c] # "live"
    <3>1. UNCHANGED vars
      BY <1>10, <2>2 DEF PacketForExisting, vars
    <3> QED BY <3>1 DEF vars, IInv, TypeOK, ListsInv, RemovalInv, BudgetInv,
                BoundInv, Present, WakeupInv, StaysReachable
  <2> QED BY <2>1, <2>2
<1>11. ASSUME NEW c \in Ids, FirstPacket(c) PROVE IInv'
  BY <1>11, AdmissionStep
<1>12. CASE UNCHANGED vars
  BY <1>12 DEF vars, IInv, TypeOK, ListsInv, RemovalInv, BudgetInv, BoundInv,
     Present, WakeupInv, StaysReachable
<1> QED
  BY <1>1, <1>2, <1>3, <1>4, <1>5, <1>6, <1>7, <1>8, <1>9, <1>10, <1>11, <1>12
  DEF Next, MainLoop

---------------------------------------------------------------------------

LEMMA DriverIInv == Spec => []IInv
  BY InitStep, NextStep, PTL DEF Spec

\* For any set of clients and any limits: connections_ stays within
\* max_concurrent_connections, although connections are counted before their
\* constructor has returned and until CollectGarbage() has destroyed them.
THEOREM AdmissionBounded == Spec => []ConnectionsBounded
<1>1. IInv => ConnectionsBounded
  BY DEF IInv, BoundInv, ConnectionsBounded
<1> QED BY <1>1, DriverIInv, PTL

\* An iteration creates at most its budget, and nobody is turned away for the
\* budget before that many were created.
THEOREM BudgetIsExact == Spec => []CreationBudgeted
<1>1. IInv => CreationBudgeted
  BY DriverAssumption DEF IInv, TypeOK, BudgetInv, CreationBudgeted
<1> QED BY <1>1, DriverIInv, PTL

\* The list of blocked writers and the temporary list of OnWriterUnblocked()
\* only point at connections that are not destroyed: CollectGarbage()'s
\* QUIC_BUG is unreachable.
THEOREM NoDanglingWriter == Spec => []ListedAreAlive
<1>1. IInv => ListedAreAlive
  BY DEF IInv, TypeOK, ListsInv, ListedAreAlive, Present
<1> QED BY <1>1, DriverIInv, PTL

\* The subscriptions of the listen socket are never lost, neither for reading
\* nor for a blocked writer.
THEOREM SubscriptionsKept == Spec => []WakeupArmed
<1>1. IInv => WakeupArmed
  BY DEF IInv, WakeupInv, WakeupArmed
<1> QED BY <1>1, DriverIInv, PTL
===========================================================================
