------------------------- MODULE QuictunIdleTracker -------------------------
(***************************************************************************)
(* The process-wide idle tracker of quictun (QuictunIdleTracker and the    *)
(* parts of QuictunTunnel that drive it, quictun_tunnel.cc).               *)
(*                                                                         *)
(* Every started, unclosed tunnel is linked into exactly one of two        *)
(* intrusive lists, order_ and stalled_order_, oldest activity first.      *)
(* Nothing ever sorts them: a sweep only looks at the front of each list,  *)
(* which is right only while the lists stay sorted by construction.        *)
(*                                                                         *)
(* The buffers of a tunnel are abstracted to the class IsHoldingBuffer()   *)
(* puts it in, which any movement of data may change.                      *)
(***************************************************************************)
EXTENDS Integers, Sequences

CONSTANTS
  Tunnels,        \* every tunnel the process creates
  Connections,    \* the QUIC connections that carry them
  ConnOf,         \* the connection of each tunnel
  Timeout,        \* --tcp_idle_timeout_seconds, in ticks
  StalledTimeout, \* --tcp_stalled_timeout_seconds, capped at Timeout
  MaxNow          \* bound on the clock

ASSUME TrackerAssumption ==
  /\ ConnOf \in [Tunnels -> Connections]
  /\ Timeout \in Nat \ {0}
  /\ StalledTimeout \in 1 .. Timeout
  /\ MaxNow \in Nat

\* order_ and stalled_order_: a tunnel that holds a full buffer is stalled.
Classes == {"order", "stalled"}

VARIABLES
  now,           \* the clock, as ApproximateNow() reads it
  started,       \* started_
  closed,        \* closed_
  filed,         \* stalled_: the class the tunnel is filed under
  lastActivity,  \* last_activity_
  list,          \* list["order"] is order_, list["stalled"] is stalled_order_
  sweep,         \* the list CloseIdleTunnels() is walking, or "off"
  finishing,     \* tunnels with tcp_receive_done_ set: the FIN is written
  doomed,        \* tunnels the Close() of their connection has yet to close
  holding,       \* IsHoldingBuffer(): the class the tunnel's buffers put it in
  moved,         \* history: last data read, or last change of holding
  progressed     \* history: last time any byte of the tunnel moved

histories == <<holding, moved, progressed>>
vars == <<now, started, closed, filed, lastActivity, list, sweep, finishing,
          doomed, holding, moved, progressed>>

-----------------------------------------------------------------------------
(* The lists.                                                              *)

ListOf(l) == {l[i] : i \in DOMAIN l}

\* List::erase(): the list without t, the rest in the order it had.
Erase(l, t) ==
  IF t \in ListOf(l)
  THEN LET i == CHOOSE i \in DOMAIN l : l[i] = t
       IN  [j \in 1 .. (Len(l) - 1) |-> IF j < i THEN l[j] ELSE l[j + 1]]
  ELSE l

\* QuictunIdleTracker::Remove(): a tunnel is linked in one list at most.
Remove(lists, t) == [s \in Classes |-> Erase(lists[s], t)]

\* QuictunIdleTracker::Touch()
Touch(lists, t, s) ==
  IF lists[s] # <<>> /\ lists[s][Len(lists[s])] = t
  THEN lists
  ELSE [Remove(lists, t) EXCEPT ![s] = Append(@, t)]

\* QuictunIdleTracker::Refile()
Refile(lists, t, s) ==
  IF \E c \in Classes : t \in ListOf(lists[c])
  THEN Touch(lists, t, s)
  ELSE lists

-----------------------------------------------------------------------------
(* What a callback of tunnel t does to the tracker. A callback runs with   *)
(* the clock standing still, so the two calls NoteActivity() and           *)
(* UpdateIdleClass() it is made of see the same now.                       *)

\* Mutant of UpdateIdleClass(): a change of class keeps the old timestamp.
UpdateIdleClassKeepsTime(t, h, cls, at, lists) ==
  /\ lastActivity' = [lastActivity EXCEPT ![t] = at]
  /\ filed' = [filed EXCEPT ![t] = h]
  /\ list' = IF closed[t] \/ h = cls THEN lists ELSE Refile(lists, t, h)

\* UpdateIdleClass() with h the value of IsHoldingBuffer(), after the
\* fields have the values given (cls is stalled_, at last_activity_).
UpdateIdleClass(t, h, cls, at, lists) ==
  IF closed[t] \/ h = cls
  THEN /\ filed' = [filed EXCEPT ![t] = cls]
       /\ lastActivity' = [lastActivity EXCEPT ![t] = at]
       /\ list' = lists
  ELSE /\ filed' = [filed EXCEPT ![t] = h]
       /\ lastActivity' = [lastActivity EXCEPT ![t] = now]
       /\ list' = Refile(lists, t, h)

\* Mutant of NoteActivity(): no closed_ guard.
NoteActivityUnguarded(t, h) ==
  UpdateIdleClass(t, h, holding[t], now, Touch(list, t, holding[t]))

\* NoteActivity() on the buffers as they were, then the data is stored and
\* UpdateIdleClass() looks at the buffers as they now are.
NoteActivityThenUpdate(t, h) ==
  IF closed[t]
  THEN UNCHANGED <<filed, lastActivity, list>>
  ELSE UpdateIdleClass(t, h, holding[t], now, Touch(list, t, holding[t]))

\* The main loop is outside any callback.
InMainLoop == sweep = "off" /\ doomed = {}

Moved(t, h) ==
  /\ holding' = [holding EXCEPT ![t] = h]
  /\ moved' = [moved EXCEPT ![t] = now]
  /\ progressed' = [progressed EXCEPT ![t] = now]

\* Start(): the tunnel joins the tracker.
Start(t) ==
  /\ InMainLoop
  /\ ~started[t] /\ ~closed[t]
  /\ started' = [started EXCEPT ![t] = TRUE]
  /\ \E h \in Classes : NoteActivityThenUpdate(t, h) /\ Moved(t, h)
  /\ UNCHANGED <<now, closed, sweep, finishing, doomed>>

\* ReceiveComplete() with data, or FillQueueFromStream() reading some.
DataArrives(t) ==
  /\ InMainLoop
  /\ started[t] /\ ~closed[t]
  /\ \E h \in Classes : NoteActivityThenUpdate(t, h) /\ Moved(t, h)
  /\ UNCHANGED <<now, started, closed, sweep, finishing, doomed>>

\* MaybeFlushQuicToTcp() handing a chunk to the socket, or
\* OnStreamCanWriteMore() after the stream sent some of its buffer: data left
\* a buffer, which is activity only when IsHoldingBuffer() changes.
DataLeaves(t) ==
  /\ InMainLoop
  /\ started[t] /\ ~closed[t]
  /\ \/ /\ holding[t] = "stalled"
        /\ UpdateIdleClass(t, "order", filed[t], lastActivity[t], list)
        /\ Moved(t, "order")
     \/ /\ UpdateIdleClass(t, holding[t], filed[t], lastActivity[t], list)
        /\ progressed' = [progressed EXCEPT ![t] = now]
        /\ UNCHANGED <<holding, moved>>
  /\ UNCHANGED <<now, started, closed, sweep, finishing, doomed>>

\* The FIN is written: ReceiveComplete() at end of file, or
\* MaybeCloseAfterQuicFin(). From here on the stream no longer calls
\* OnStreamCanWriteMore() ...
Finish(t) ==
  /\ InMainLoop
  /\ started[t] /\ ~closed[t]
  /\ finishing' = finishing \union {t}
  /\ UNCHANGED <<now, started, closed, filed, lastActivity, list, sweep,
                 doomed, histories>>

\* ... so that its send buffer drains without the tunnel noticing.
DrainUnnoticed(t) ==
  /\ InMainLoop
  /\ t \in finishing /\ ~closed[t]
  /\ Moved(t, "order")
  /\ UNCHANGED <<now, started, closed, filed, lastActivity, list, sweep,
                 finishing, doomed>>

\* FillQueueFromStream() when stream_->Read() consumes the FIN of a stream
\* whose write side is done: Read() closes the stream and with it this tunnel,
\* and NoteActivity() and UpdateIdleClass() then run on the closed tunnel.
LateCallback(t) ==
  /\ InMainLoop
  /\ started[t] /\ closed[t]
  /\ \E h \in Classes : NoteActivityThenUpdate(t, h)
  /\ UNCHANGED <<now, started, closed, sweep, finishing, doomed, histories>>

-----------------------------------------------------------------------------
\* Mutant of Close(): the tunnel stays linked.
CloseWithoutUnlink(t) == closed' = [closed EXCEPT ![t] = TRUE] /\ UNCHANGED list

\* QuictunTunnel::Close(), the only place that unlinks.
Close(t) ==
  /\ closed' = [closed EXCEPT ![t] = TRUE]
  /\ list' = Remove(list, t)

Siblings(t) == {u \in Tunnels : u # t /\ ConnOf[u] = ConnOf[t] /\ ~closed[u]}

\* A tunnel ends for a reason of its own: finished, TCP error, dial failed.
CloseTunnel(t) ==
  /\ InMainLoop
  /\ ~closed[t]
  /\ Close(t)
  /\ UNCHANGED <<now, started, filed, lastActivity, sweep, finishing,
                 doomed, histories>>

\* The Close() of a whole connection takes a snapshot of its tunnels ...
ConnectionCloses(c) ==
  /\ InMainLoop
  /\ doomed' = {t \in Tunnels : ConnOf[t] = c /\ ~closed[t]}
  /\ UNCHANGED <<now, started, closed, filed, lastActivity, list, sweep,
                 finishing, histories>>

\* ... and closes them one after the other.
CloseSnapshotEntry(t) ==
  /\ t \in doomed
  /\ Close(t)
  /\ doomed' = doomed \ {t}
  /\ UNCHANGED <<now, started, filed, lastActivity, sweep, finishing,
                 histories>>

-----------------------------------------------------------------------------
(* CloseIdleTunnels(), called by the main loop between event-loop turns.   *)

TimeoutOf(s) == IF s = "stalled" THEN StalledTimeout ELSE Timeout

BeginSweep ==
  /\ InMainLoop
  /\ sweep' = "order"
  /\ UNCHANGED <<now, started, closed, filed, lastActivity, list, finishing,
                 doomed, histories>>

\* One turn of CloseExpired()'s loop on the list of class s: close the front
\* if it has expired. Resetting its stream may fail the whole connection.
CloseFront(s) ==
  /\ doomed = {}
  /\ sweep = s
  /\ list[s] # <<>>
  /\ now - lastActivity[Head(list[s])] >= TimeoutOf(s)
  /\ Close(Head(list[s]))
  /\ doomed' \in {{}, Siblings(Head(list[s]))}
  /\ UNCHANGED <<now, started, filed, lastActivity, sweep, finishing,
                 histories>>

\* Mutant of EndList: an entry whose timeout elapses exactly now is left.
EndListOffByOne(s) ==
  /\ doomed = {}
  /\ sweep = s
  /\ list[s] # <<>> => now - lastActivity[Head(list[s])] <= TimeoutOf(s)
  /\ sweep' = IF s = "order" THEN "stalled" ELSE "off"
  /\ UNCHANGED <<now, started, closed, filed, lastActivity, list, finishing,
                 doomed, histories>>

\* The loop ends: the front has not expired.
EndList(s) ==
  /\ doomed = {}
  /\ sweep = s
  /\ list[s] # <<>> => now - lastActivity[Head(list[s])] < TimeoutOf(s)
  /\ sweep' = IF s = "order" THEN "stalled" ELSE "off"
  /\ UNCHANGED <<now, started, closed, filed, lastActivity, list, finishing,
                 doomed, histories>>

Tick ==
  /\ InMainLoop
  /\ now < MaxNow
  /\ now' = now + 1
  /\ UNCHANGED <<started, closed, filed, lastActivity, list, sweep,
                 finishing, doomed, histories>>

-----------------------------------------------------------------------------
Init ==
  /\ now = 0
  /\ started = [t \in Tunnels |-> FALSE]
  /\ closed = [t \in Tunnels |-> FALSE]
  /\ filed = [t \in Tunnels |-> "order"]
  /\ lastActivity = [t \in Tunnels |-> 0]
  /\ list = [s \in Classes |-> <<>>]
  /\ sweep = "off"
  /\ finishing = {}
  /\ doomed = {}
  /\ holding = [t \in Tunnels |-> "order"]
  /\ moved = [t \in Tunnels |-> 0]
  /\ progressed = [t \in Tunnels |-> 0]

Sweeping == (\E t \in Tunnels : CloseSnapshotEntry(t))
            \/ (\E s \in Classes : CloseFront(s) \/ EndList(s))

Next ==
  \/ \E t \in Tunnels : Start(t) \/ DataArrives(t) \/ DataLeaves(t)
                        \/ Finish(t) \/ DrainUnnoticed(t) \/ LateCallback(t)
                        \/ CloseTunnel(t)
  \/ \E c \in Connections : ConnectionCloses(c)
  \/ BeginSweep
  \/ Sweeping
  \/ Tick

\* The process is single-threaded: a loop it has entered keeps running.
Spec == Init /\ [][Next]_vars /\ WF_vars(Sweeping)

-----------------------------------------------------------------------------
\* Types; no recorded activity lies in the future.
TypeOK ==
  /\ now \in Nat
  /\ started \in [Tunnels -> BOOLEAN]
  /\ closed \in [Tunnels -> BOOLEAN]
  /\ filed \in [Tunnels -> Classes]
  /\ lastActivity \in [Tunnels -> 0 .. now]
  /\ list \in [Classes -> Seq(Tunnels)]
  /\ sweep \in {"off", "order", "stalled"}
  /\ finishing \in SUBSET Tunnels
  /\ doomed \in SUBSET Tunnels
  /\ holding \in [Tunnels -> Classes]
  /\ moved \in [Tunnels -> 0 .. now]
  /\ progressed \in [Tunnels -> 0 .. now]

\* Both lists are ordered oldest activity first, although nothing sorts them:
\* the DCHECK in QuictunIdleTracker::Touch() and the comment on order_.
ListsSorted ==
  \A s \in Classes : \A i, j \in DOMAIN list[s] :
    i < j => lastActivity[list[s][i]] <= lastActivity[list[s][j]]

Open(t) == started[t] /\ ~closed[t]

\* A tunnel is linked exactly while it is started and not closed, once, in the
\* list of its class: the tracker never holds a tunnel that its owner may be
\* about to destroy, and no open tunnel escapes the sweep.
LinkedWhileOpen ==
  /\ \A s \in Classes : \A i, j \in DOMAIN list[s] :
       list[s][i] = list[s][j] => i = j
  /\ \A s \in Classes :
       ListOf(list[s]) = {t \in Tunnels : Open(t) /\ filed[t] = s}

\* Between callbacks an open tunnel is filed where its buffers put it and its
\* timestamp is not older than its last counted movement, until its FIN is
\* written; from then on it may still be filed as stalled when it no longer is,
\* never the reverse.
FiledByBuffers ==
  \A t \in Tunnels : Open(t) =>
    /\ holding[t] = "stalled" => filed[t] = "stalled"
    /\ lastActivity[t] <= progressed[t]
    /\ t \notin finishing => filed[t] = holding[t] /\ moved[t] <= lastActivity[t]

\* What the sweep of CloseIdleTunnels() relies on: both lists are sorted, hold
\* exactly the open tunnels, each once, and file them by their buffers.
TrackerInv == TypeOK /\ ListsSorted /\ LinkedWhileOpen /\ FiledByBuffers

\* When a sweep is over, no open tunnel has gone without any progress for the
\* timeout of the class its buffers put it in: looking only at the front of
\* each list misses nobody.
SweepMissesNobody ==
  [][sweep = "stalled" /\ sweep' = "off" =>
       \A t \in Tunnels : Open(t) => now - progressed[t] < TimeoutOf(holding[t])]_vars

\* The sweep reaps a tunnel only after its class's whole timeout without
\* incoming data and without a change of class, unless its FIN is already
\* written; any other tunnel it closes went down with a reaped one's connection.
SweepReapsOnlyQuiet ==
  [][\A t \in Tunnels :
       /\ sweep # "off" /\ ~closed[t] /\ closed'[t]
       /\ t \notin doomed \union finishing
       => now - moved[t] >= TimeoutOf(holding[t])]_vars

\* The loops of CloseExpired() and of the connection's Close() terminate.
SweepTerminates == sweep # "off" ~> sweep = "off"
=============================================================================
