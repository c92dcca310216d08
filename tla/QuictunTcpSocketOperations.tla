------------------- MODULE QuictunTcpSocketOperations --------------------
(***************************************************************************)
(* The operations of a socket, and the calls that visitors and drivers make*)
(* from inside a callback, preserve the invariant.                         *)
(***************************************************************************)
EXTENDS QuictunTcpSocketInvariant

(* The operations.                                                         *)

\* What is owed, by kind.
LEMMA OwedByKind ==
    ASSUME NEW k
    PROVE  (\A op \in Ops : k.owed[op] = One(Pending(k, op)))
             <=> /\ k.owed["connect"] = IF k.connecting THEN 1 ELSE 0
                 /\ k.owed["receive"] = IF k.receiving THEN 1 ELSE 0
                 /\ k.owed["send"] = IF k.remaining > 0 THEN 1 ELSE 0
<1>1. /\ One(Pending(k, "connect")) = IF k.connecting THEN 1 ELSE 0
      /\ One(Pending(k, "receive")) = IF k.receiving THEN 1 ELSE 0
      /\ One(Pending(k, "send")) = IF k.remaining > 0 THEN 1 ELSE 0
  BY DEF One, Pending
<1> QED BY <1>1 DEF Ops

Results == {"ok", "error", "cancelled"}

\* A completion: the socket is as the operation left it, with one less owed.
LEMMA CompletesEffect ==
    ASSUME TypeOK, NEW s \in Sockets, NEW k \in Socket, NEW op \in Ops,
           NEW result \in Results, NEW rest \in Seq(Frame),
           Completes(s, k, op, result, rest)
    PROVE  /\ sock' \in [Sockets -> Socket]
           /\ \A t \in Sockets \ {s} : sock'[t] = sock[t]
           /\ sock'[s].exists = k.exists /\ sock'[s].fd = k.fd
           /\ sock'[s].connecting = k.connecting /\ sock'[s].receiving = k.receiving
           /\ sock'[s].remaining = k.remaining
           /\ sock'[s].link = k.link
           /\ sock'[s].owed[op] = k.owed[op] - 1
           /\ \A o \in Ops \ {op} : sock'[s].owed[o] = k.owed[o]
           /\ op # "send" => sock'[s].taken = k.taken
           /\ stack' \in Seq(Frame) /\ stack' # <<>>
           /\ Frames(stack') =
                {Completion(s, op, result, IF op = "send" THEN k.taken ELSE 0)} \cup Frames(rest)
<1> DEFINE n == [k EXCEPT !.owed[op] = @ - 1, !.taken = IF op = "send" THEN 0 ELSE @]
           f == Completion(s, op, result, IF op = "send" THEN k.taken ELSE 0)
<1>1. n \in Socket
  <2>1. k.owed \in [Ops -> Int] /\ k.taken \in Nat
    BY DEF Socket
  <2>2. [k.owed EXCEPT ![op] = @ - 1] \in [Ops -> Int]
    BY <2>1
  <2>3. (IF op = "send" THEN 0 ELSE k.taken) \in Nat
    BY <2>1
  <2>4. \A o \in [Ops -> Int], m \in Nat : [k EXCEPT !.owed = o, !.taken = m] \in Socket
    BY DEF Socket
  <2>5. n = [k EXCEPT !.owed = [k.owed EXCEPT ![op] = @ - 1],
                      !.taken = IF op = "send" THEN 0 ELSE k.taken]
    BY DEF Socket
  <2> QED BY <2>2, <2>3, <2>4, <2>5, Zenon
<1>2. /\ n.exists = k.exists /\ n.fd = k.fd
      /\ n.connecting = k.connecting /\ n.receiving = k.receiving
      /\ n.remaining = k.remaining
      /\ n.link = k.link
      /\ n.owed[op] = k.owed[op] - 1
      /\ \A o \in Ops \ {op} : n.owed[o] = k.owed[o]
      /\ op # "send" => n.taken = k.taken
  BY DEF Socket
<1>3. sock' = [sock EXCEPT ![s] = n] /\ stack' = <<f>> \o rest
  BY DEF Completes
<1>4. f \in Frame
  BY SocketAssumption DEF Completion, Frame, Socket, Results
<1> HIDE DEF n, f
<1>5. stack' \in Seq(Frame) /\ stack' # <<>> /\ Frames(stack') = {f} \cup Frames(rest)
  BY <1>3, <1>4, PushFrames
<1>6. sock' \in [Sockets -> Socket] /\ sock'[s] = n /\ \A t \in Sockets \ {s} : sock'[t] = sock[t]
  BY <1>1, <1>3 DEF TypeOK
<1> QED BY <1>2, <1>5, <1>6 DEF f

\* A subscription: the socket is as the operation left it.
LEMMA RearmsEffect ==
    ASSUME TypeOK, NEW s \in Sockets, NEW k \in Socket, k.fd \in Fds, sock[s].fd = k.fd,
           NEW events \in SUBSET Events, NEW rest \in Seq(Frame),
           Rearms(s, k, events, rest)
    PROVE  /\ sock' \in [Sockets -> Socket]
           /\ \A t \in Sockets \ {s} : sock'[t] = sock[t]
           /\ sock'[s] = k
           /\ registrations' \in [Fds -> Registration]
           /\ Keeps(s)
           /\ events \subseteq registrations'[k.fd].events
           /\ stack' = rest
<1>1. /\ sock' \in [Sockets -> Socket]
      /\ \A t \in Sockets \ {s} : sock'[t] = sock[t]
      /\ sock'[s] = k
      /\ stack' = rest
  BY DEF Rearms, TypeOK
<1>2. registrations' = [registrations EXCEPT ![k.fd].events = @ \cup events]
  BY DEF Rearms, RearmSocket
<1>3. registrations \in [Fds -> Registration]
  BY DEF TypeOK
<1>4. registrations' \in [Fds -> Registration]
  BY <1>2, <1>3 DEF Registration
<1>5. /\ \A fd \in Fds : /\ registrations'[fd].handle = registrations[fd].handle
                         /\ registrations'[fd].listener = registrations[fd].listener
                         /\ registrations[fd].events \subseteq registrations'[fd].events
                         /\ registrations'[fd].artificial = registrations[fd].artificial
      /\ events \subseteq registrations'[k.fd].events
  BY <1>2, <1>3 DEF Registration
<1> QED BY <1>1, <1>4, <1>5 DEF Keeps

\* The socket as an operation of this kind finds it: open, connected, with
\* this operation and what was pending before to be reported.
Finds(s, k, op) ==
    /\ k \in Socket
    /\ sock[s].fd # NoFd /\ ~sock[s].connecting
    /\ k.exists = sock[s].exists /\ k.fd = sock[s].fd /\ k.link = sock[s].link
    /\ k.connecting = sock[s].connecting
    /\ op # "receive" => k.receiving = sock[s].receiving
    /\ op # "send" => k.remaining = sock[s].remaining /\ k.taken = sock[s].taken
    /\ k.owed[op] = 1
    /\ \A o \in Ops \ {op} : k.owed[o] = sock[s].owed[o]

\* What follows the operation: the interrupted calls, less a send half of this
\* socket or with one more.
Follows(s, rest) ==
    /\ rest \in Seq(Frame)
    /\ \A f \in Frames(stack) : f \in Frames(rest) \/ f.sock = s \/ f.call # "sendHalf"
    /\ \A f \in Frames(rest) : f \in Frames(stack) \/ f = SendHalf(s)

Loop(s) ==
    /\ ready' \subseteq ReadyListEntry /\ polled' \in BOOLEAN /\ budget' \in 0..MaxCalls
    /\ Consumes(s)

\* The other operation of the socket is woken without this event.
StillWoken(s, event, rest) ==
    \/ Armed(s, event)
    \/ \E e \in ready' : Lock(e) /\ e.fd = sock[s].fd /\ event \in e.events
    \/ event = "writable" /\ \E f \in Frames(rest) : f.call = "sendHalf" /\ f.sock = s

\* A subscription and what was collected stay when the socket stays open.
LEMMA StillWokenKept ==
    ASSUME IInv, NEW s \in Sockets, sock[s].fd \in Fds, Keeps(s), NEW event, NEW rest,
           StillWoken(s, event, rest)
    PROVE  \/ Armed(s, event)' \/ Collected(s, event)'
           \/ event = "writable" /\ \E f \in Frames(rest) : f.call = "sendHalf" /\ f.sock = s
<1>1. Armed(s, event) => Armed(s, event)'
  BY DEF Armed, Keeps
<1>2. ASSUME NEW e \in ready', Lock(e), e.fd = sock[s].fd, event \in e.events
      PROVE  Collected(s, event)'
  BY <1>2 DEF Collected, Lock, Keeps
<1> QED BY <1>1, <1>2 DEF StillWoken

\* A completion of the socket on top of what it interrupts,
LEMMA PushesCompletion ==
    ASSUME NEW s \in Sockets, NEW rest, Follows(s, rest), NEW f, f.sock = s,
           f.call # "sendHalf", FrameTrue(f)', ~sock'[s].connecting,
           Frames(stack') = {f} \cup Frames(rest)
    PROVE  Pushes(s)
<1>1. SendHalf(s).sock = s /\ FrameTrue(SendHalf(s))'
  BY DEF SendHalf, FrameTrue
<1> QED BY <1>1 DEF Follows, Pushes

\* or what it interrupts alone.
LEMMA PushesRest ==
    ASSUME NEW s \in Sockets, NEW rest, Follows(s, rest), ~sock'[s].connecting,
           stack' = rest
    PROVE  Pushes(s)
<1>1. SendHalf(s).sock = s /\ FrameTrue(SendHalf(s))'
  BY DEF SendHalf, FrameTrue
<1> QED BY <1>1 DEF Follows, Pushes

\* ReceiveInternal() and FinishOrRearmAsyncReceive(), from a call or an event.
LEMMA ReceiveStep ==
    ASSUME IInv, NEW s \in Sockets, NEW k, Finds(s, k, "receive"), NEW rest,
           Follows(s, rest), Loop(s), TryReceive(s, k, rest),
           sock[s].remaining > 0 => StillWoken(s, "writable", rest)
    PROVE  IInv'
<1>1. /\ k \in Socket /\ sock[s] \in Socket /\ k.fd \in Fds /\ sock[s].fd = k.fd
      /\ rest \in Seq(Frame) /\ TypeOK
  BY DEF Finds, Follows, IInv, TypeOK, Socket
<1>2. OpenInv(s) /\ OperationInv(s)
  BY DEF IInv, SocketsInv
<1>3. /\ sock[s].owed["connect"] = 0
      /\ sock[s].owed["send"] = IF sock[s].remaining > 0 THEN 1 ELSE 0
  BY <1>2, OwedByKind DEF OperationInv, Finds
<1>4. /\ k.owed["connect"] = 0 /\ k.owed["receive"] = 1
      /\ k.owed["send"] = IF k.remaining > 0 THEN 1 ELSE 0
  BY <1>3 DEF Finds, Ops
<1>5. k.remaining > 0 => k.taken + k.remaining = SendSize
  BY <1>2 DEF OperationInv, Finds
<1>6. k.exists /\ ~k.connecting /\ k.link = sock[s].link /\ registrations[k.fd].listener = s
  BY <1>2 DEF OpenInv, Finds
<1>7. CASE Readable(k)
  <2>1. PICK left \in {FALSE, k.input} :
           /\ Completes(s, [k EXCEPT !.receiving = FALSE, !.input = left], "receive",
                        IF k.link = "broken" THEN "error" ELSE "ok", rest)
           /\ registrations' = registrations
    BY <1>7 DEF TryReceive
  <2> DEFINE m == [k EXCEPT !.receiving = FALSE, !.input = left]
             result == IF k.link = "broken" THEN "error" ELSE "ok"
             f == Completion(s, "receive", result, 0)
  <2>2. m \in Socket
    BY <1>1 DEF Socket
  <2>3. /\ m.exists = k.exists /\ m.fd = k.fd /\ m.connecting = k.connecting
        /\ m.receiving = FALSE /\ m.remaining = k.remaining /\ m.taken = k.taken
        /\ m.link = k.link /\ m.owed = k.owed
    BY <1>1 DEF Socket
  <2>4. result \in Results
    BY DEF Results
  <2> HIDE DEF m, result
  <2>5. /\ sock' \in [Sockets -> Socket]
        /\ \A t \in Sockets \ {s} : sock'[t] = sock[t]
        /\ sock'[s].exists = k.exists /\ sock'[s].fd = k.fd
        /\ sock'[s].connecting = k.connecting /\ sock'[s].receiving = FALSE
        /\ sock'[s].remaining = k.remaining /\ sock'[s].taken = k.taken
        /\ sock'[s].link = k.link
        /\ sock'[s].owed["receive"] = 0
        /\ sock'[s].owed["connect"] = k.owed["connect"]
        /\ sock'[s].owed["send"] = k.owed["send"]
        /\ stack' \in Seq(Frame)
        /\ Frames(stack') = {f} \cup Frames(rest)
    <3>1. Completes(s, m, "receive", result, rest)
      BY <2>1 DEF m, result
    <3>2. "receive" \in Ops /\ "connect" \in Ops \ {"receive"} /\ "send" \in Ops \ {"receive"}
      BY DEF Ops
    <3> QED BY <1>1, <1>4, <2>2, <2>3, <2>4, <3>1, <3>2, CompletesEffect
  <2>6. TypeOK'
    BY <1>1, <2>1, <2>5 DEF TypeOK, Loop
  <2>7. Keeps(s)
    BY <1>1, <2>1, <2>5 DEF Keeps
  <2>8. SameLink(s)
    BY <1>6, <2>5 DEF SameLink
  <2>9. Pushes(s)
    <3>1. f.sock = s /\ f.call # "sendHalf" /\ FrameTrue(f)'
      BY DEF Completion, FrameTrue
    <3> QED BY <1>6, <2>5, <3>1, PushesCompletion
  <2>10. OpenInv(s)'
    BY <1>1, <1>6, <2>1, <2>5, SocketAssumption DEF OpenInv
  <2>11. OperationInv(s)'
    <3>1. \A op \in Ops : sock'[s].owed[op] = One(Pending(sock'[s], op))
      BY <1>4, <1>6, <2>5, OwedByKind
    <3> QED BY <3>1, <1>5, <1>6, <2>5 DEF OperationInv
  <2>12. WakeInv(s)'
    <3>1. ~sock'[s].receiving /\ ~sock'[s].connecting
      BY <1>6, <2>5
    <3>2. ASSUME sock'[s].remaining > 0
          PROVE  Armed(s, "writable")' \/ Collected(s, "writable")' \/ Halfway(s)'
      <4>1. StillWoken(s, "writable", rest)
        BY <2>5, <3>2 DEF Finds
      <4>2. \/ Armed(s, "writable")' \/ Collected(s, "writable")'
            \/ \E g \in Frames(rest) : g.call = "sendHalf" /\ g.sock = s
        BY <1>1, <2>7, <4>1, StillWokenKept
      <4> QED BY <2>5, <4>2 DEF Halfway
    <3> QED BY <3>1, <3>2 DEF WakeInv
  <2> QED BY <2>5, <2>6, <2>7, <2>8, <2>9, <2>10, <2>11, <2>12, SocketStep DEF Loop
<1>8. CASE ~Readable(k)
  <2> DEFINE m == [k EXCEPT !.receiving = TRUE]
  <2>1. Rearms(s, m, {"readable", "error"}, rest)
    BY <1>8 DEF TryReceive
  <2>2. m \in Socket
    BY <1>1 DEF Socket
  <2>3. /\ m.exists = k.exists /\ m.fd = k.fd /\ m.connecting = k.connecting
        /\ m.receiving = TRUE /\ m.remaining = k.remaining /\ m.taken = k.taken
        /\ m.link = k.link /\ m.owed = k.owed
    BY <1>1 DEF Socket
  <2> HIDE DEF m
  <2>4. /\ sock' \in [Sockets -> Socket]
        /\ \A t \in Sockets \ {s} : sock'[t] = sock[t]
        /\ sock'[s] = m
        /\ registrations' \in [Fds -> Registration]
        /\ Keeps(s)
        /\ {"readable", "error"} \subseteq registrations'[m.fd].events
        /\ stack' = rest
    <3>1. {"readable", "error"} \in SUBSET Events
      BY DEF Events
    <3> QED BY <1>1, <2>1, <2>2, <2>3, <3>1, RearmsEffect
  <2>5. TypeOK'
    BY <1>1, <2>4 DEF TypeOK, Loop
  <2>6. SameLink(s)
    BY <1>6, <2>3, <2>4 DEF SameLink
  <2>7. Pushes(s)
    BY <1>6, <2>3, <2>4, PushesRest
  <2>8. OpenInv(s)'
    BY <1>1, <1>6, <2>3, <2>4, SocketAssumption DEF OpenInv, Keeps
  <2>9. OperationInv(s)'
    <3>1. \A op \in Ops : m.owed[op] = One(Pending(m, op))
      BY <1>4, <1>6, <2>3, OwedByKind
    <3> QED BY <3>1, <1>5, <1>6, <2>3, <2>4 DEF OperationInv
  <2>10. WakeInv(s)'
    <3>1. ~sock'[s].connecting
      BY <1>6, <2>3, <2>4
    <3>2. Armed(s, "readable")'
      BY <2>3, <2>4 DEF Armed
    <3>3. ASSUME sock'[s].remaining > 0
          PROVE  Armed(s, "writable")' \/ Collected(s, "writable")' \/ Halfway(s)'
      <4>1. StillWoken(s, "writable", rest)
        BY <2>3, <2>4, <3>3 DEF Finds
      <4>2. \/ Armed(s, "writable")' \/ Collected(s, "writable")'
            \/ \E g \in Frames(rest) : g.call = "sendHalf" /\ g.sock = s
        BY <1>1, <2>4, <4>1, StillWokenKept
      <4> QED BY <2>4, <4>2 DEF Halfway
    <3> QED BY <3>1, <3>2, <3>3 DEF WakeInv
  <2> QED BY <2>4, <2>5, <2>6, <2>7, <2>8, <2>9, <2>10, SocketStep DEF Loop
<1> QED BY <1>7, <1>8

\* A socket whose send has moved on.
LEMMA SendRecord ==
    ASSUME NEW k \in Socket, NEW r \in 0..SendSize, NEW n \in Nat
    PROVE  /\ [k EXCEPT !.remaining = r] \in Socket
           /\ [k EXCEPT !.remaining = r, !.taken = n] \in Socket
  BY DEF Socket

\* SendInternal() and FinishOrRearmAsyncSend(), from a call or an event.
LEMMA SendStep ==
    ASSUME IInv, NEW s \in Sockets, NEW k, Finds(s, k, "send"), NEW rest,
           NEW left \in 1..SendSize, k.taken + left = SendSize,
           Follows(s, rest), Loop(s), TrySend(s, k, left, rest),
           sock[s].receiving => StillWoken(s, "readable", rest)
    PROVE  IInv'
<1>1. /\ k \in Socket /\ sock[s] \in Socket /\ k.fd \in Fds /\ sock[s].fd = k.fd
      /\ rest \in Seq(Frame) /\ TypeOK
  BY DEF Finds, Follows, IInv, TypeOK, Socket
<1>2. OpenInv(s) /\ OperationInv(s)
  BY DEF IInv, SocketsInv
<1>3. /\ sock[s].owed["connect"] = 0
      /\ sock[s].owed["receive"] = IF sock[s].receiving THEN 1 ELSE 0
  BY <1>2, OwedByKind DEF OperationInv, Finds
<1>4. /\ k.owed["connect"] = 0 /\ k.owed["send"] = 1
      /\ k.owed["receive"] = IF k.receiving THEN 1 ELSE 0
  BY <1>3 DEF Finds, Ops
<1>5. SendSize \in Nat \ {0} /\ k.taken \in Nat /\ left \in Nat
  BY <1>1, SocketAssumption DEF Socket
<1>6. k.exists /\ ~k.connecting /\ k.link = sock[s].link /\ registrations[k.fd].listener = s
  BY <1>2 DEF OpenInv, Finds
<1>7. "send" \in Ops /\ "connect" \in Ops \ {"send"} /\ "receive" \in Ops \ {"send"}
  BY DEF Ops
\* The send is over, with this result.
<1>8. ASSUME NEW m \in Socket, NEW result \in {"ok", "error"},
             m.exists = k.exists, m.fd = k.fd, m.connecting = k.connecting,
             m.receiving = k.receiving, m.remaining = 0, m.link = k.link, m.owed = k.owed,
             result = "ok" => m.taken = SendSize,
             Completes(s, m, "send", result, rest), registrations' = registrations
      PROVE  IInv'
  <2> DEFINE f == Completion(s, "send", result, m.taken)
  <2>1. /\ sock' \in [Sockets -> Socket]
        /\ \A t \in Sockets \ {s} : sock'[t] = sock[t]
        /\ sock'[s].exists = k.exists /\ sock'[s].fd = k.fd
        /\ sock'[s].connecting = k.connecting /\ sock'[s].receiving = k.receiving
        /\ sock'[s].remaining = 0
        /\ sock'[s].link = k.link
        /\ sock'[s].owed["send"] = 0
        /\ sock'[s].owed["connect"] = k.owed["connect"]
        /\ sock'[s].owed["receive"] = k.owed["receive"]
        /\ stack' \in Seq(Frame)
        /\ Frames(stack') = {f} \cup Frames(rest)
    <3>1. result \in Results
      BY DEF Results
    <3> QED BY <1>1, <1>4, <1>7, <1>8, <3>1, CompletesEffect
  <2>2. TypeOK'
    BY <1>1, <1>8, <2>1 DEF TypeOK, Loop
  <2>3. Keeps(s)
    BY <1>1, <1>8, <2>1 DEF Keeps
  <2>4. SameLink(s)
    BY <1>6, <2>1 DEF SameLink
  <2>5. Pushes(s)
    <3>1. f.sock = s /\ f.call # "sendHalf" /\ FrameTrue(f)'
      BY <1>8 DEF Completion, FrameTrue
    <3> QED BY <1>6, <2>1, <3>1, PushesCompletion
  <2>6. OpenInv(s)'
    BY <1>1, <1>6, <1>8, <2>1, SocketAssumption DEF OpenInv
  <2>7. OperationInv(s)'
    <3>1. \A op \in Ops : sock'[s].owed[op] = One(Pending(sock'[s], op))
      BY <1>4, <1>6, <2>1, OwedByKind
    <3> QED BY <3>1, <1>6, <2>1 DEF OperationInv
  <2>8. WakeInv(s)'
    <3>1. ~(sock'[s].remaining > 0) /\ ~sock'[s].connecting
      BY <1>6, <2>1
    <3>2. ASSUME sock'[s].receiving
          PROVE  Armed(s, "readable")' \/ Collected(s, "readable")'
      <4>1. StillWoken(s, "readable", rest)
        BY <2>1, <3>2 DEF Finds
      <4> QED BY <1>1, <2>3, <4>1, StillWokenKept
    <3> QED BY <3>1, <3>2 DEF WakeInv
  <2> QED BY <2>1, <2>2, <2>3, <2>4, <2>5, <2>6, <2>7, <2>8, SocketStep DEF Loop
\* The kernel took some of it.
<1>9. ASSUME NEW n \in 0..left, n < left,
             Rearms(s, [k EXCEPT !.remaining = left - n, !.taken = @ + n],
                    {"writable", "error"}, rest)
      PROVE  IInv'
  <2> DEFINE m == [k EXCEPT !.remaining = left - n, !.taken = @ + n]
  <2>1. left - n \in 1..SendSize /\ k.taken + n \in Nat
    BY <1>5, <1>9
  <2>2. m \in Socket
    <3>1. left - n \in 0..SendSize
      BY <1>5, <2>1
    <3>2. m = [k EXCEPT !.remaining = left - n, !.taken = k.taken + n]
      BY <1>1 DEF Socket
    <3> QED BY <1>1, <2>1, <3>1, <3>2, SendRecord, Zenon
  <2>3. /\ m.exists = k.exists /\ m.fd = k.fd /\ m.connecting = k.connecting
        /\ m.receiving = k.receiving /\ m.remaining = left - n /\ m.taken = k.taken + n
        /\ m.link = k.link /\ m.owed = k.owed
    BY <1>1 DEF Socket
  <2>4. Rearms(s, m, {"writable", "error"}, rest)
    BY <1>9
  <2> HIDE DEF m
  <2>5. /\ sock' \in [Sockets -> Socket]
        /\ \A t \in Sockets \ {s} : sock'[t] = sock[t]
        /\ sock'[s] = m
        /\ registrations' \in [Fds -> Registration]
        /\ Keeps(s)
        /\ {"writable", "error"} \subseteq registrations'[m.fd].events
        /\ stack' = rest
    <3>1. {"writable", "error"} \in SUBSET Events
      BY DEF Events
    <3> QED BY <1>1, <2>2, <2>3, <2>4, <3>1, RearmsEffect
  <2>6. TypeOK'
    BY <1>1, <2>5 DEF TypeOK, Loop
  <2>7. SameLink(s)
    BY <1>6, <2>3, <2>5 DEF SameLink
  <2>8. Pushes(s)
    BY <1>6, <2>3, <2>5, PushesRest
  <2>9. OpenInv(s)'
    BY <1>1, <1>6, <2>3, <2>5, SocketAssumption DEF OpenInv, Keeps
  <2>10. OperationInv(s)'
    <3>1. m.remaining > 0 /\ m.taken + m.remaining = SendSize
      BY <1>5, <2>1, <2>3
    <3>2. \A op \in Ops : m.owed[op] = One(Pending(m, op))
      BY <1>4, <1>6, <2>3, <3>1, OwedByKind
    <3> QED BY <3>1, <3>2, <1>6, <2>3, <2>5 DEF OperationInv
  <2>11. WakeInv(s)'
    <3>1. ~sock'[s].connecting
      BY <1>6, <2>3, <2>5
    <3>2. Armed(s, "writable")'
      BY <2>3, <2>5 DEF Armed
    <3>3. ASSUME sock'[s].receiving
          PROVE  Armed(s, "readable")' \/ Collected(s, "readable")'
      <4>1. StillWoken(s, "readable", rest)
        BY <2>3, <2>5, <3>3 DEF Finds
      <4> QED BY <1>1, <2>5, <4>1, StillWokenKept
    <3> QED BY <3>1, <3>2, <3>3 DEF WakeInv
  <2> QED BY <2>5, <2>6, <2>7, <2>8, <2>9, <2>10, <2>11, SocketStep DEF Loop
<1>10. CASE k.link = "broken"
  <2> DEFINE m == [k EXCEPT !.remaining = 0]
  <2>1. Completes(s, m, "send", "error", rest) /\ registrations' = registrations
    BY <1>10 DEF TrySend
  <2>2. m \in Socket
    <3>1. 0 \in 0..SendSize
      BY <1>5
    <3> QED BY <1>1, <3>1, SendRecord, Zenon
  <2>3. /\ m.exists = k.exists /\ m.fd = k.fd /\ m.connecting = k.connecting
        /\ m.receiving = k.receiving /\ m.remaining = 0 /\ m.link = k.link /\ m.owed = k.owed
    BY <1>1 DEF Socket
  <2> HIDE DEF m
  <2> QED BY <1>8, <2>1, <2>2, <2>3
<1>11. CASE k.link # "broken"
  <2>1. PICK n \in 0..left :
           LET new == [k EXCEPT !.remaining = left - n, !.taken = @ + n]
           IN  \/ /\ n = left
                  /\ Completes(s, new, "send", "ok", rest)
                  /\ registrations' = registrations
               \/ /\ n < left
                  /\ Rearms(s, new, {"writable", "error"}, rest)
    BY <1>11 DEF TrySend
  <2>2. CASE n = left
    <3> DEFINE m == [k EXCEPT !.remaining = left - n, !.taken = @ + n]
    <3>1. Completes(s, m, "send", "ok", rest) /\ registrations' = registrations
      BY <1>5, <2>1, <2>2
    <3>2. left - n = 0 /\ k.taken + n \in Nat /\ k.taken + n = SendSize
      BY <1>5, <2>2
    <3>3. m \in Socket
      <4>1. left - n \in 0..SendSize
        BY <1>5, <3>2
      <4>2. m = [k EXCEPT !.remaining = left - n, !.taken = k.taken + n]
        BY <1>1 DEF Socket
      <4> QED BY <1>1, <3>2, <4>1, <4>2, SendRecord, Zenon
    <3>4. /\ m.exists = k.exists /\ m.fd = k.fd /\ m.connecting = k.connecting
          /\ m.receiving = k.receiving /\ m.remaining = 0 /\ m.link = k.link /\ m.owed = k.owed
          /\ m.taken = SendSize
      BY <1>1, <3>2 DEF Socket
    <3> HIDE DEF m
    <3> QED BY <1>8, <3>1, <3>3, <3>4
  <2>3. CASE n < left
    <3>1. Rearms(s, [k EXCEPT !.remaining = left - n, !.taken = @ + n],
                 {"writable", "error"}, rest)
      BY <1>5, <2>1, <2>3
    <3> QED BY <1>9, <2>3, <3>1, Zenon
  <2> QED BY <1>5, <2>2, <2>3
<1> QED BY <1>10, <1>11

---------------------------------------------------------------------------
(* Calls from a callback.                                                  *)

\* A call consumes nothing from the ready list and returns to its caller.
LEMMA CallsLoop ==
    ASSUME IInv, NEW s \in Sockets, Calls
    PROVE  Loop(s) /\ Follows(s, stack)
<1>1. budget \in 0..MaxCalls /\ MaxCalls \in Nat
  BY SocketAssumption DEF IInv, TypeOK
<1>2. budget' \in 0..MaxCalls
  BY <1>1 DEF Calls
<1> QED BY <1>2 DEF Calls, Loop, Follows, Consumes, IInv, TypeOK

\* Nothing a call does not touch is less awake than before.
LEMMA CallsStillWoken ==
    ASSUME IInv, NEW s \in Sockets, Calls
    PROVE  /\ sock[s].receiving => StillWoken(s, "readable", stack)
           /\ sock[s].remaining > 0 => StillWoken(s, "writable", stack)
<1>1. WakeInv(s) /\ ready' = ready
  BY DEF IInv, SocketsInv, Calls
<1> QED BY <1>1 DEF WakeInv, Collected, Halfway, StillWoken

\* ReceiveAsync().
LEMMA ReceiveAsyncKeeps ==
    ASSUME IInv, NEW s \in Sockets, ReceiveAsync(s)
    PROVE  IInv'
<1> DEFINE k == [sock[s] EXCEPT !.owed["receive"] = @ + 1]
<1>1. sock[s] \in Socket /\ OperationInv(s)
  BY DEF IInv, SocketsInv, TypeOK
<1>2. sock[s].owed["receive"] = 0 /\ sock[s].owed \in [Ops -> Int] /\ "receive" \in Ops
  BY <1>1, OwedByKind DEF ReceiveAsync, OperationInv, Socket, Ops
<1>3. k \in Socket
  BY <1>1, <1>2 DEF Socket
<1>4. Finds(s, k, "receive")
  BY <1>1, <1>2, <1>3 DEF Finds, ReceiveAsync, Socket
<1>5. TryReceive(s, k, stack) /\ Calls
  BY DEF ReceiveAsync
<1> HIDE DEF k
<1> QED BY <1>4, <1>5, CallsLoop, CallsStillWoken, ReceiveStep

\* SendAsync().
LEMMA SendAsyncKeeps ==
    ASSUME IInv, NEW s \in Sockets, SendAsync(s)
    PROVE  IInv'
<1> DEFINE k == [sock[s] EXCEPT !.owed["send"] = @ + 1, !.taken = 0]
<1>1. sock[s] \in Socket /\ OperationInv(s)
  BY DEF IInv, SocketsInv, TypeOK
<1>2. sock[s].owed["send"] = 0 /\ sock[s].owed \in [Ops -> Int] /\ "send" \in Ops
  BY <1>1, OwedByKind DEF SendAsync, OperationInv, Socket, Ops
<1>3. k \in Socket
  <2>1. [sock[s].owed EXCEPT !["send"] = @ + 1] \in [Ops -> Int]
    BY <1>2
  <2>2. \A o \in [Ops -> Int] : [sock[s] EXCEPT !.owed = o, !.taken = 0] \in Socket
    BY <1>1 DEF Socket
  <2>3. k = [sock[s] EXCEPT !.owed = [sock[s].owed EXCEPT !["send"] = @ + 1], !.taken = 0]
    BY <1>1 DEF Socket
  <2> QED BY <2>1, <2>2, <2>3, Zenon
<1>4. Finds(s, k, "send")
  BY <1>1, <1>2, <1>3 DEF Finds, SendAsync, Socket
<1>5. k.taken = 0
  BY <1>1 DEF Socket
<1>6. SendSize \in 1..SendSize /\ 0 + SendSize = SendSize
  BY SocketAssumption
<1>7. TrySend(s, k, SendSize, stack) /\ Calls
  BY DEF SendAsync
<1> HIDE DEF k
<1> QED BY <1>4, <1>5, <1>6, <1>7, CallsLoop, CallsStillWoken, SendStep

\* A new socket object has nothing pending but what it was made for.
\* A new socket has nothing pending, and owes only the call that made it.
LEMMA NewSocketFacts ==
    ASSUME NEW fd \in Fds \cup {NoFd}, NEW op,
           NEW link \in {"none", "pending", "up", "refused", "broken"},
           NEW k, k = NewSocket(fd, link, op)
    PROVE  /\ k \in Socket
           /\ k.exists /\ k.fd = fd /\ ~k.connecting
           /\ ~k.receiving /\ k.remaining = 0 /\ k.link = link
           /\ \A o \in Ops : o # op => k.owed[o] = 0
           /\ \A o \in Ops : o = op => k.owed[o] = 1
<1>1. 0 \in 0..SendSize
  BY SocketAssumption
<1>2. [o \in Ops |-> IF o = op THEN 1 ELSE 0] \in [Ops -> Int]
  OBVIOUS
<1> QED BY <1>1, <1>2 DEF NewSocket, Socket

\* A socket that was not constructed has no descriptor.
LEMMA ClosedUnlessExists ==
    ASSUME IInv, NEW s \in Sockets, ~sock[s].exists
    PROVE  sock[s].fd = NoFd
<1>1. OpenInv(s)
  BY DEF IInv, SocketsInv
<1> QED BY <1>1 DEF OpenInv

\* A new registration for a socket that did not exist.
LEMMA OpensEffect ==
    ASSUME IInv, NEW s \in Sockets, Unused # {}, NEW fd \in FreeFds,
           NEW events \in SUBSET Events, registrations' = RegisterSocket(fd, s, events)
    PROVE  /\ registrations' \in [Fds -> Registration]
           /\ fd \in Fds /\ registrations'[fd].listener = s /\ registrations'[fd].events = events
<1>1. Fresh \in Handles
  BY FreshIsFresh
<1>2. registrations \in [Fds -> Registration] /\ fd \in Fds /\ s \in Listeners
  BY SocketAssumption DEF IInv, TypeOK, FreeFds
<1>3. [handle |-> Fresh, listener |-> s, events |-> events, artificial |-> {}] \in Registration
  BY <1>1, <1>2 DEF Registration
<1> QED BY <1>2, <1>3 DEF RegisterSocket

\* The constructor of QuictunAcceptedTcpSocket.
LEMMA AcceptKeeps ==
    ASSUME IInv, NEW s \in Sockets, Accept(s)
    PROVE  IInv'
<1> DEFINE k(fd) == NewSocket(fd, "up", "none")
<1>1. PICK fd \in FreeFds : /\ sock' = [sock EXCEPT ![s] = k(fd)]
                            /\ registrations' = RegisterSocket(fd, s, {})
  BY DEF Accept
<1>2. Unused # {} /\ ~sock[s].exists /\ stack' = stack /\ Calls
  BY DEF Accept
<1>3. /\ registrations' \in [Fds -> Registration]
      /\ fd \in Fds /\ registrations'[fd].listener = s
  BY <1>1, <1>2, OpensEffect
<1>a. fd \in Fds \cup {NoFd} /\ "up" \in {"none", "pending", "up", "refused", "broken"}
  BY <1>3
<1>b. k(fd) = NewSocket(fd, "up", "none")
  OBVIOUS
<1> HIDE DEF k
<1>4. k(fd) \in Socket
  BY <1>a, <1>b, NewSocketFacts
<1>5. /\ k(fd).exists /\ k(fd).fd = fd /\ ~k(fd).connecting
      /\ ~k(fd).receiving /\ k(fd).remaining = 0 /\ k(fd).link = "up"
      /\ \A o \in Ops : k(fd).owed[o] = 0
  <2>1. \A o \in Ops : o # "none"
    BY DEF Ops
  <2>2. /\ k(fd).exists /\ k(fd).fd = fd /\ ~k(fd).connecting
        /\ ~k(fd).receiving /\ k(fd).remaining = 0 /\ k(fd).link = "up"
        /\ \A o \in Ops : o # "none" => k(fd).owed[o] = 0
    BY <1>a, <1>b, NewSocketFacts
  <2> QED BY <2>1, <2>2
<1>6. /\ sock' \in [Sockets -> Socket] /\ sock'[s] = k(fd)
      /\ \A t \in Sockets \ {s} : sock'[t] = sock[t]
  BY <1>1, <1>4 DEF IInv, TypeOK
<1>7. Loop(s) /\ Follows(s, stack)
  BY <1>2, CallsLoop
<1>8. TypeOK'
  BY <1>2, <1>3, <1>6, <1>7 DEF TypeOK, Loop, Follows
<1>9. sock[s].fd = NoFd
  BY <1>2, ClosedUnlessExists
<1>10. Opens(s)
  <2>1. {} \in SUBSET Events
    OBVIOUS
  <2> QED BY <1>1, <1>2, <1>5, <1>6, <1>9, <2>1 DEF Opens
<1>11. SameLink(s)
  BY <1>2, <1>5, <1>6 DEF SameLink
<1>12. Pushes(s)
  BY <1>2 DEF Pushes
<1>13. OpenInv(s)'
  BY <1>3, <1>5, <1>6, SocketAssumption DEF OpenInv
<1>14. OperationInv(s)'
  <2>1. k(fd).owed["connect"] = 0 /\ k(fd).owed["receive"] = 0 /\ k(fd).owed["send"] = 0
    BY <1>5 DEF Ops
  <2>2. \A op \in Ops : k(fd).owed[op] = One(Pending(k(fd), op))
    BY <1>5, <2>1, OwedByKind
  <2> QED BY <1>5, <1>6, <2>2 DEF OperationInv
<1>15. WakeInv(s)'
  BY <1>5, <1>6 DEF WakeInv
<1> QED BY <1>6, <1>7, <1>8, <1>10, <1>11, <1>12, <1>13, <1>14, <1>15, SocketStep DEF Loop

\* ConnectAsync(): over at once, or under way.
LEMMA ConnectAsyncKeeps ==
    ASSUME IInv, NEW s \in Sockets, ConnectAsync(s)
    PROVE  IInv'
<1> DEFINE k(fd, link) == NewSocket(fd, link, "connect")
<1>1. Unused # {} /\ ~sock[s].exists /\ Calls
  BY DEF ConnectAsync
<1>2. sock[s].fd = NoFd
  BY <1>1, ClosedUnlessExists
<1>3. Loop(s) /\ Follows(s, stack) /\ TypeOK /\ stack \in Seq(Frame)
  BY <1>1, CallsLoop DEF IInv, TypeOK
<1>4. /\ "connect" \in Ops
      /\ "receive" \in Ops /\ "receive" # "connect"
      /\ "send" \in Ops /\ "send" # "connect"
  BY DEF Ops
<1>5. ASSUME NEW fd \in Fds \cup {NoFd}, NEW link \in {"none", "pending", "up"}
      PROVE  /\ k(fd, link) \in Socket
             /\ k(fd, link).exists /\ k(fd, link).fd = fd
             /\ ~k(fd, link).connecting /\ ~k(fd, link).receiving
             /\ k(fd, link).remaining = 0 /\ k(fd, link).link = link
             /\ k(fd, link).owed["connect"] = 1 /\ k(fd, link).owed["receive"] = 0
             /\ k(fd, link).owed["send"] = 0
  <2> DEFINE m == k(fd, link)
  <2>a. link \in {"none", "pending", "up", "refused", "broken"} /\ m = NewSocket(fd, link, "connect")
    OBVIOUS
  <2> HIDE DEF m
  <2>1. /\ m \in Socket
        /\ m.exists /\ m.fd = fd /\ ~m.connecting
        /\ ~m.receiving /\ m.remaining = 0 /\ m.link = link
        /\ \A o \in Ops : o # "connect" => m.owed[o] = 0
        /\ \A o \in Ops : o = "connect" => m.owed[o] = 1
    BY <2>a, NewSocketFacts
  <2>2. m.owed["connect"] = 1 /\ m.owed["receive"] = 0 /\ m.owed["send"] = 0
    BY <1>4, <2>1
  <2> QED BY <2>1, <2>2 DEF m
<1> HIDE DEF k
\* It is over at once.
<1>6. ASSUME NEW fd \in Fds \cup {NoFd}, NEW link \in {"none", "up"},
             NEW result \in {"ok", "error"}, result = "ok" <=> link = "up",
             Completes(s, k(fd, link), "connect", result, stack),
             fd = NoFd => registrations' = registrations,
             fd # NoFd => fd \in FreeFds /\ registrations' = RegisterSocket(fd, s, {})
      PROVE  IInv'
  <2> DEFINE f == Completion(s, "connect", result, 0)
  <2>1. /\ sock' \in [Sockets -> Socket]
        /\ \A t \in Sockets \ {s} : sock'[t] = sock[t]
        /\ sock'[s].exists /\ sock'[s].fd = fd
        /\ ~sock'[s].connecting /\ ~sock'[s].receiving
        /\ sock'[s].remaining = 0
        /\ sock'[s].link = link
        /\ sock'[s].owed["connect"] = 0 /\ sock'[s].owed["receive"] = 0
        /\ sock'[s].owed["send"] = 0
        /\ stack' \in Seq(Frame)
        /\ Frames(stack') = {f} \cup Frames(stack)
    <3> DEFINE m == k(fd, link)
    <3>1. /\ m \in Socket /\ m.exists /\ m.fd = fd /\ ~m.connecting
          /\ ~m.receiving /\ m.remaining = 0 /\ m.link = link
          /\ m.owed["connect"] = 1 /\ m.owed["receive"] = 0 /\ m.owed["send"] = 0
      BY <1>5
    <3>2. result \in Results /\ Completes(s, m, "connect", result, stack)
      BY <1>6 DEF Results
    <3> HIDE DEF m
    <3>3. /\ sock' \in [Sockets -> Socket]
          /\ \A t \in Sockets \ {s} : sock'[t] = sock[t]
          /\ sock'[s].exists = m.exists /\ sock'[s].fd = m.fd
          /\ sock'[s].connecting = m.connecting /\ sock'[s].receiving = m.receiving
          /\ sock'[s].remaining = m.remaining
          /\ sock'[s].link = m.link
          /\ sock'[s].owed["connect"] = 0 /\ sock'[s].owed["receive"] = 0
          /\ sock'[s].owed["send"] = 0
      <4>1. "receive" \in Ops \ {"connect"} /\ "send" \in Ops \ {"connect"}
        BY <1>4
      <4>2. m \in Socket /\ m.owed["connect"] - 1 = 0
            /\ m.owed["receive"] = 0 /\ m.owed["send"] = 0
        BY <3>1
      <4> QED BY <1>3, <1>4, <4>2, <3>2, <4>1, CompletesEffect
    <3>4. /\ stack' \in Seq(Frame)
          /\ Frames(stack') = {f} \cup Frames(stack)
      BY <1>3, <1>4, <3>1, <3>2, CompletesEffect
    <3> QED BY <1>4, <3>1, <3>3, <3>4
  <2>2. /\ registrations' \in [Fds -> Registration]
        /\ fd # NoFd => registrations'[fd].listener = s
    <3>1. CASE fd = NoFd
      BY <1>3, <1>6, <3>1 DEF TypeOK
    <3>2. CASE fd # NoFd
      <4>1. {} \in SUBSET Events
        OBVIOUS
      <4> QED BY <1>1, <1>6, <3>2, <4>1, OpensEffect
    <3> QED BY <3>1, <3>2
  <2>3. TypeOK'
    BY <1>3, <2>1, <2>2 DEF TypeOK, Loop
  <2>4. Keeps(s) \/ Opens(s)
    <3>1. CASE fd = NoFd
      BY <1>2, <1>6, <2>1, <3>1 DEF Keeps
    <3>2. CASE fd # NoFd
      <4>1. {} \in SUBSET Events
        OBVIOUS
      <4> QED BY <1>1, <1>2, <1>6, <2>1, <3>2, <4>1 DEF Opens
    <3> QED BY <3>1, <3>2
  <2>5. SameLink(s)
    BY <1>1, <2>1 DEF SameLink
  <2>6. Pushes(s)
    <3>1. f.sock = s /\ f.call # "sendHalf" /\ FrameTrue(f)'
      BY <1>6, <2>1 DEF Completion, FrameTrue
    <3> QED BY <1>3, <2>1, <3>1, PushesCompletion
  <2>7. OpenInv(s)'
    BY <2>1, <2>2 DEF OpenInv
  <2>8. OperationInv(s)'
    <3>1. \A op \in Ops : sock'[s].owed[op] = One(Pending(sock'[s], op))
      BY <2>1, OwedByKind
    <3> QED BY <3>1, <2>1 DEF OperationInv
  <2>9. WakeInv(s)'
    BY <2>1 DEF WakeInv
  <2> QED BY <1>3, <2>1, <2>3, <2>4, <2>5, <2>6, <2>7, <2>8, <2>9, SocketStep DEF Loop
<1>7. CASE Completes(s, k(NoFd, "none"), "connect", "error", stack) /\ registrations' = registrations
  BY <1>6, <1>7, SocketAssumption
\* It is under way.
<1>8. ASSUME NEW fd \in FreeFds,
             sock' = [sock EXCEPT ![s] = [k(fd, "pending") EXCEPT !.connecting = TRUE]],
             registrations' = RegisterSocket(fd, s, {"writable", "error"}),
             stack' = stack
      PROVE  IInv'
  <2> DEFINE m == [k(fd, "pending") EXCEPT !.connecting = TRUE]
  <2>1. fd \in Fds /\ fd # NoFd
    BY SocketAssumption DEF FreeFds
  <2> DEFINE n == k(fd, "pending")
  <2>a. /\ n \in Socket /\ n.exists /\ n.fd = fd /\ ~n.receiving
        /\ n.remaining = 0 /\ n.link = "pending"
        /\ n.owed["connect"] = 1 /\ n.owed["receive"] = 0 /\ n.owed["send"] = 0
    BY <1>5, <2>1
  <2> HIDE DEF n
  <2>b. m = [n EXCEPT !.connecting = TRUE]
    BY DEF n
  <2>2. m \in Socket
    BY <2>a, <2>b DEF Socket
  <2>3. /\ m.exists /\ m.fd = fd /\ m.connecting /\ ~m.receiving
        /\ m.remaining = 0 /\ m.link = "pending" /\ m.owed["connect"] = 1
        /\ m.owed["receive"] = 0 /\ m.owed["send"] = 0
    BY <2>a, <2>b DEF Socket
  <2> HIDE DEF m
  <2>4. /\ sock' \in [Sockets -> Socket] /\ sock'[s] = m
        /\ \A t \in Sockets \ {s} : sock'[t] = sock[t]
    BY <1>3, <1>8, <2>2 DEF TypeOK, m
  <2>5. {"writable", "error"} \in SUBSET Events
    BY DEF Events
  <2>6. /\ registrations' \in [Fds -> Registration]
        /\ registrations'[fd].listener = s
        /\ registrations'[fd].events = {"writable", "error"}
    BY <1>1, <1>8, <2>5, OpensEffect
  <2>7. TypeOK'
    BY <1>3, <1>8, <2>4, <2>6 DEF TypeOK, Loop
  <2>8. Opens(s)
    BY <1>1, <1>2, <1>8, <2>3, <2>4, <2>5 DEF Opens
  <2>9. SameLink(s)
    BY <1>1, <2>3, <2>4 DEF SameLink
  <2>10. Pushes(s)
    BY <1>8 DEF Pushes
  <2>11. OpenInv(s)'
    BY <2>1, <2>3, <2>4, <2>6 DEF OpenInv
  <2>12. OperationInv(s)'
    <3>1. \A op \in Ops : m.owed[op] = One(Pending(m, op))
      BY <2>3, OwedByKind
    <3> QED BY <3>1, <2>3, <2>4 DEF OperationInv
  <2>13. WakeInv(s)'
    BY <2>3, <2>4, <2>6 DEF WakeInv, Armed
  <2> QED BY <1>3, <2>4, <2>7, <2>8, <2>9, <2>10, <2>11, <2>12, <2>13, SocketStep DEF Loop
<1>9. ASSUME NEW fd \in FreeFds, Completes(s, k(fd, "up"), "connect", "ok", stack),
             registrations' = RegisterSocket(fd, s, {})
      PROVE  IInv'
  <2>1. fd \in Fds /\ fd # NoFd
    BY SocketAssumption DEF FreeFds
  <2> QED BY <1>6, <1>9, <2>1
<1> QED BY <1>7, <1>8, <1>9 DEF ConnectAsync, k

\* Disconnect(): everything pending is reported cancelled.
LEMMA DisconnectKeeps ==
    ASSUME IInv, NEW s \in Sockets, Disconnect(s)
    PROVE  IInv'
<1> DEFINE k == sock[s]
           m == [k EXCEPT !.fd = NoFd, !.connecting = FALSE, !.receiving = FALSE,
                          !.remaining = 0,
                          !.owed = [op \in Ops |-> k.owed[op] - One(Pending(k, op))]]
           Cancelled(op) == IF Pending(k, op) THEN <<Completion(s, op, "cancelled", 0)>> ELSE <<>>
<1>1. /\ Calls /\ k.fd # NoFd /\ registrations' = UnregisterSocket(k.fd)
      /\ sock' = [sock EXCEPT ![s] = m]
      /\ stack' = Cancelled("connect") \o Cancelled("receive") \o Cancelled("send") \o stack
  BY DEF Disconnect
<1>2. Loop(s) /\ Follows(s, stack) /\ TypeOK /\ stack \in Seq(Frame) /\ k \in Socket
  BY <1>1, CallsLoop DEF IInv, TypeOK
<1>3. OpenInv(s) /\ OperationInv(s)
  BY DEF IInv, SocketsInv
<1>4. \A op \in Ops : One(Pending(k, op)) \in Int /\ k.owed[op] = One(Pending(k, op))
  BY <1>3 DEF OperationInv, One
<1>5. m \in Socket
  <2>1. \A o \in [Ops -> Int], n \in 0..SendSize :
           [k EXCEPT !.fd = NoFd, !.connecting = FALSE, !.receiving = FALSE,
                     !.remaining = n, !.owed = o] \in Socket
    BY <1>2 DEF Socket
  <2>2. 0 \in 0..SendSize
    BY SocketAssumption
  <2>3. [op \in Ops |-> k.owed[op] - One(Pending(k, op))] \in [Ops -> Int]
    BY <1>4
  <2> QED BY <2>1, <2>2, <2>3, Zenon
<1>6. /\ m.exists = k.exists /\ m.fd = NoFd /\ ~m.connecting /\ ~m.receiving
      /\ m.remaining = 0 /\ m.link = k.link
      /\ m.owed = [op \in Ops |-> k.owed[op] - One(Pending(k, op))]
  BY <1>2 DEF Socket
<1>7. m.owed["connect"] = 0 /\ m.owed["receive"] = 0 /\ m.owed["send"] = 0
  BY <1>4, <1>6 DEF Ops
<1> HIDE DEF m
<1>8. /\ sock' \in [Sockets -> Socket] /\ sock'[s] = m
      /\ \A t \in Sockets \ {s} : sock'[t] = sock[t]
  BY <1>1, <1>2, <1>5 DEF TypeOK
<1>9. registrations' \in [Fds -> Registration]
  <2>1. Unregistered \in Registration
    BY DEF Unregistered, Registration
  <2> QED BY <1>1, <1>2, <2>1 DEF TypeOK, UnregisterSocket
<1>10. ASSUME NEW op \in Ops
       PROVE  /\ Cancelled(op) \in Seq(Frame)
              /\ \A f \in Frames(Cancelled(op)) :
                    f.sock = s /\ f.call # "sendHalf" /\ FrameTrue(f)'
  <2>1. CASE Pending(k, op)
    <3> DEFINE f == Completion(s, op, "cancelled", 0)
    <3>1. f \in Frame
      BY SocketAssumption DEF Completion, Frame
    <3>2. f.sock = s /\ f.call # "sendHalf" /\ FrameTrue(f)'
      BY DEF Completion, FrameTrue, Ops
    <3> HIDE DEF f
    <3>3. Cancelled(op) = <<f>>
      BY <2>1 DEF f
    <3>4. <<f>> \in Seq(Frame) /\ Frames(<<f>>) = {f}
      BY <3>1, OneFrame
    <3> QED BY <3>2, <3>3, <3>4
  <2>2. CASE ~Pending(k, op)
    <3>1. Cancelled(op) = <<>>
      BY <2>2
    <3> QED BY <3>1, NoFrames
  <2> QED BY <2>1, <2>2
<1>11. "connect" \in Ops /\ "receive" \in Ops /\ "send" \in Ops
  BY DEF Ops
<1> DEFINE a == Cancelled("connect")
           b == Cancelled("receive")
           c == Cancelled("send")
<1>12. a \in Seq(Frame) /\ b \in Seq(Frame) /\ c \in Seq(Frame)
  BY <1>10, <1>11
<1>13. \A f \in Frames(a) \cup Frames(b) \cup Frames(c) :
          f.sock = s /\ f.call # "sendHalf" /\ FrameTrue(f)'
  BY <1>10, <1>11
<1>14. stack' = a \o b \o c \o stack
  BY <1>1
<1> HIDE DEF a, b, c
<1>15. /\ stack' \in Seq(Frame)
       /\ Frames(stack') = Frames(a) \cup Frames(b) \cup Frames(c) \cup Frames(stack)
  <2> DEFINE ab == a \o b
             abc == ab \o c
  <2>1. ab \in Seq(Frame) /\ Frames(ab) = Frames(a) \cup Frames(b)
    BY <1>12, ConcatFrames
  <2>a. stack' = abc \o stack
    BY <1>14
  <2> HIDE DEF ab
  <2>2. abc \in Seq(Frame) /\ Frames(abc) = Frames(ab) \cup Frames(c)
    BY <1>12, <2>1, ConcatFrames
  <2> HIDE DEF abc
  <2>3. stack' \in Seq(Frame) /\ Frames(stack') = Frames(abc) \cup Frames(stack)
    BY <1>2, <2>a, <2>2, ConcatFrames
  <2> QED BY <2>1, <2>2, <2>3
<1>16. TypeOK'
  BY <1>2, <1>8, <1>9, <1>15 DEF TypeOK, Loop
<1>17. Closes(s)
  BY <1>1, <1>6, <1>8 DEF Closes
<1>18. SameLink(s)
  BY <1>1, <1>3, <1>6, <1>8 DEF SameLink, OpenInv
<1>19. Pushes(s)
  BY <1>13, <1>15 DEF Pushes
<1>20. OpenInv(s)'
  BY <1>6, <1>8 DEF OpenInv
<1>21. OperationInv(s)'
  <2>1. \A op \in Ops : m.owed[op] = One(Pending(m, op))
    BY <1>6, <1>7, OwedByKind
  <2> QED BY <2>1, <1>6, <1>8 DEF OperationInv
<1>22. WakeInv(s)'
  BY <1>6, <1>8 DEF WakeInv
<1> QED BY <1>2, <1>8, <1>16, <1>17, <1>18, <1>19, <1>20, <1>21, <1>22, SocketStep DEF Loop
===========================================================================
