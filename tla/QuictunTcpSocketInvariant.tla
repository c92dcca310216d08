-------------------- MODULE QuictunTcpSocketInvariant --------------------
(***************************************************************************)
(* The inductive invariant of the TCP sockets over the poll event loop, and*)
(* what a step of one socket has to establish for it.                      *)
(***************************************************************************)
EXTENDS QuictunTcpSocket, SequenceTheorems, TLAPS

\* Registrations and sockets point at each other.
RegistrationInv ==
    \A fd \in Fds :
        /\ registrations[fd].handle = NoHandle <=> registrations[fd].listener = NoListener
        /\ registrations[fd].listener = Driver <=> fd = DriverFd
        /\ registrations[fd].listener \in Sockets => sock[registrations[fd].listener].fd = fd
        /\ fd # DriverFd => registrations[fd].artificial = {}

OpenInv(s) ==
    IF sock[s].fd = NoFd
    THEN ~sock[s].connecting /\ ~sock[s].receiving /\ sock[s].remaining = 0
    ELSE sock[s].exists /\ registrations[sock[s].fd].listener = s

\* What is owed is what is pending, a send is accounted for to the byte, and
\* a socket that is connecting does nothing else.
OperationInv(s) ==
    /\ \A op \in Ops : sock[s].owed[op] = One(Pending(sock[s], op))
    /\ sock[s].remaining > 0 => sock[s].taken + sock[s].remaining = SendSize
    /\ sock[s].connecting =>
          ~sock[s].receiving /\ sock[s].remaining = 0 /\ sock[s].link # "none"

\* An event that was collected and will still reach the socket, and a send
\* half of OnSocketEvent() that is still to come.
Collected(s, event) == \E e \in ready : Lock(e) /\ e.fd = sock[s].fd /\ event \in e.events
Halfway(s) == \E f \in Frames(stack) : f.call = "sendHalf" /\ f.sock = s
Armed(s, event) == event \in registrations[sock[s].fd].events

\* A pending operation is waiting for its event, or its event is on the way.
WakeInv(s) ==
    /\ sock[s].receiving => Armed(s, "readable") \/ Collected(s, "readable")
    /\ sock[s].connecting => Armed(s, "writable") \/ Collected(s, "writable")
    /\ sock[s].remaining > 0 =>
          Armed(s, "writable") \/ Collected(s, "writable") \/ Halfway(s)

\* An event collected for a socket that is connecting means it has its answer.
AnswerInv ==
    \A e \in ready : \A s \in Sockets :
        Lock(e) /\ e.fd = sock[s].fd /\ sock[s].connecting => sock[s].link # "pending"

\* Sockets with a call on the stack exist; those in the send half are not
\* connecting.
StackInv ==
    \A f \in Frames(stack) :
        f.call # "driver" =>
            /\ f.sock \in Sockets /\ sock[f.sock].exists
            /\ f.call = "sendHalf" => ~sock[f.sock].connecting

\* The inductive invariant.
SocketsInv == \A s \in Sockets : OpenInv(s) /\ OperationInv(s) /\ WakeInv(s)

IInv ==
    /\ TypeOK /\ RegistrationInv /\ SocketsInv /\ AnswerInv /\ StackInv
    /\ CompletionsAreTrue
    /\ ready # {} => polled

---------------------------------------------------------------------------
(* The frames of a stack.                                                  *)

\* Calls on top of others.
LEMMA ConcatFrames ==
    ASSUME NEW S, NEW top \in Seq(S), NEW rest \in Seq(S)
    PROVE  /\ top \o rest \in Seq(S)
           /\ Frames(top \o rest) = Frames(top) \cup Frames(rest)
<1> DEFINE st == top \o rest
<1>1. /\ st \in Seq(S) /\ Len(st) = Len(top) + Len(rest)
      /\ \A i \in 1..(Len(top) + Len(rest)) :
            st[i] = IF i <= Len(top) THEN top[i] ELSE rest[i - Len(top)]
  BY ConcatProperties
<1>2. /\ Len(top) \in Nat /\ DOMAIN top = 1..Len(top)
      /\ Len(rest) \in Nat /\ DOMAIN rest = 1..Len(rest)
      /\ DOMAIN st = 1..(Len(top) + Len(rest))
  BY <1>1, LenProperties
<1>3. ASSUME NEW i \in DOMAIN st PROVE st[i] \in Frames(top) \cup Frames(rest)
  <2>1. CASE i <= Len(top)
    <3>1. i \in DOMAIN top /\ st[i] = top[i]
      BY <1>1, <1>2, <2>1
    <3> QED BY <3>1 DEF Frames
  <2>2. CASE ~(i <= Len(top))
    <3>1. i - Len(top) \in DOMAIN rest /\ st[i] = rest[i - Len(top)]
      BY <1>1, <1>2, <2>2
    <3> QED BY <3>1 DEF Frames
  <2> QED BY <2>1, <2>2
<1>4. ASSUME NEW i \in DOMAIN top PROVE i \in DOMAIN st /\ top[i] = st[i]
  BY <1>1, <1>2
<1>5. ASSUME NEW i \in DOMAIN rest
      PROVE  i + Len(top) \in DOMAIN st /\ rest[i] = st[i + Len(top)]
  BY <1>1, <1>2
<1> HIDE DEF st
<1>6. Frames(st) \subseteq Frames(top) \cup Frames(rest)
  BY <1>3 DEF Frames
<1>7. Frames(top) \subseteq Frames(st)
  BY <1>4 DEF Frames
<1>8. Frames(rest) \subseteq Frames(st)
  BY <1>5 DEF Frames
<1> QED BY <1>1, <1>6, <1>7, <1>8 DEF st

\* One call,
LEMMA OneFrame ==
    ASSUME NEW S, NEW f \in S
    PROVE  <<f>> \in Seq(S) /\ Frames(<<f>>) = {f}
  BY DEF Frames

\* none,
LEMMA NoFrames == Frames(<<>>) = {}
  BY DEF Frames

\* and one on top of others.
LEMMA PushFrames ==
    ASSUME NEW S, NEW f \in S, NEW rest \in Seq(S)
    PROVE  /\ <<f>> \o rest \in Seq(S)
           /\ <<f>> \o rest # <<>>
           /\ Frames(<<f>> \o rest) = {f} \cup Frames(rest)
<1> DEFINE one == <<f>>
<1>a. one \in Seq(S) /\ Frames(one) = {f}
  BY OneFrame
<1> HIDE DEF one
<1>b. /\ one \o rest \in Seq(S)
      /\ Frames(one \o rest) = Frames(one) \cup Frames(rest)
  BY <1>a, ConcatFrames
<1>1. /\ <<f>> \o rest \in Seq(S)
      /\ Frames(<<f>> \o rest) = {f} \cup Frames(rest)
  BY <1>a, <1>b DEF one
<1>2. <<f>> \o rest # <<>>
  BY <1>1, NoFrames
<1> QED BY <1>1, <1>2

\* A call that returns.
LEMMA PopFrames ==
    ASSUME NEW S, NEW st \in Seq(S), st # <<>>
    PROVE  /\ Head(st) \in S /\ Tail(st) \in Seq(S)
           /\ Frames(st) = {Head(st)} \cup Frames(Tail(st))
<1>1. /\ Head(st) \in S /\ Tail(st) \in Seq(S)
      /\ Len(Tail(st)) = Len(st) - 1
      /\ \A i \in 1..Len(Tail(st)) : Tail(st)[i] = st[i + 1]
  BY HeadTailProperties
<1>2. Len(st) \in Nat \ {0} /\ DOMAIN st = 1..Len(st) /\ DOMAIN Tail(st) = 1..Len(Tail(st))
  BY <1>1, LenProperties, EmptySeq
<1>3. Head(st) = st[1] /\ 1 \in DOMAIN st
  BY <1>2
<1>4. \A i \in DOMAIN st : st[i] \in {Head(st)} \cup Frames(Tail(st))
  <2> SUFFICES ASSUME NEW i \in DOMAIN st PROVE st[i] \in {Head(st)} \cup Frames(Tail(st))
    OBVIOUS
  <2>1. CASE i = 1
    BY <2>1, <1>3
  <2>2. CASE i # 1
    <3>1. i - 1 \in DOMAIN Tail(st) /\ st[i] = Tail(st)[i - 1]
      BY <2>2, <1>1, <1>2
    <3> QED BY <3>1 DEF Frames
  <2> QED BY <2>1, <2>2
<1>5. \A i \in DOMAIN Tail(st) : Tail(st)[i] = st[i + 1] /\ i + 1 \in DOMAIN st
  BY <1>1, <1>2
<1>6. Frames(st) = {Head(st)} \cup Frames(Tail(st))
  BY <1>3, <1>4, <1>5 DEF Frames
<1> QED BY <1>1, <1>6

---------------------------------------------------------------------------
(* Steps of one socket: what they do to the registrations and to the       *)
(* stack, stated once for every action.                                    *)

\* A frame is true when what it reports is.
FrameTrue(f) ==
    f.call = "complete" =>
        /\ f.op = "send" /\ f.result = "ok" => f.taken = SendSize
        /\ f.op = "connect" /\ f.result = "ok" => sock[f.sock].link \in {"up", "broken"}
        /\ f.op = "connect" /\ f.result = "error" =>
              sock[f.sock].link \in {"none", "refused", "broken"}

\* The socket keeps its descriptor and may subscribe to more,
Keeps(s) ==
    /\ sock'[s].fd = sock[s].fd
    /\ \A fd \in Fds : /\ registrations'[fd].handle = registrations[fd].handle
                       /\ registrations'[fd].listener = registrations[fd].listener
                       /\ registrations[fd].events \subseteq registrations'[fd].events
                       /\ registrations'[fd].artificial = registrations[fd].artificial

\* closes it,
Closes(s) ==
    /\ sock[s].fd # NoFd /\ sock'[s].fd = NoFd
    /\ registrations' = UnregisterSocket(sock[s].fd)

\* or opens one.
Opens(s) ==
    /\ sock[s].fd = NoFd /\ sock'[s].fd \in FreeFds /\ Unused # {}
    /\ \E events \in SUBSET Events :
          registrations' = RegisterSocket(sock'[s].fd, s, events)

\* Frames of this socket, true ones, come; those of its send half may go.
Pushes(s) ==
    /\ \A f \in Frames(stack) :
          f \in Frames(stack') \/ f.sock = s \/ f.call # "sendHalf"
    /\ \A f \in Frames(stack') :
          \/ f \in Frames(stack)
          \/ /\ f.sock = s
             /\ FrameTrue(f)'
             /\ f.call = "sendHalf" => ~sock'[s].connecting

\* The kernel's side stays; only a new socket starts to connect.
SameLink(s) ==
    /\ sock'[s].exists
    /\ sock[s].exists => /\ sock'[s].link = sock[s].link
                         /\ sock'[s].connecting => sock[s].connecting

Consumes(s) ==
    /\ ready' \subseteq ready
    /\ \A e \in ready \ ready' : ~Lock(e) \/ e.fd = sock[s].fd
    /\ ready' # {} => polled'

\* A new Registration is not what an entry of the list refers to.
LEMMA FreshIsFresh ==
    ASSUME Unused # {}
    PROVE  Fresh \in Handles /\ \A e \in ready : e.handle # Fresh
  BY DEF Fresh, Unused

\* The descriptors of other sockets are theirs.
LEMMA OwnDescriptor ==
    ASSUME IInv, NEW s \in Sockets, NEW t \in Sockets, s # t, sock[t].fd # NoFd
    PROVE  sock[t].fd \in Fds /\ sock[t].fd # sock[s].fd
<1>1. sock[t] \in Socket
  BY DEF IInv, TypeOK
<1>2. sock[t].fd \in Fds
  BY <1>1 DEF Socket
<1>3. OpenInv(s) /\ OpenInv(t)
  BY DEF IInv, SocketsInv
<1> QED BY <1>2, <1>3 DEF OpenInv

\* Whatever a socket does, the registration of another keeps its identity and
\* its subscriptions.
LEMMA OthersRegistered ==
    ASSUME IInv, NEW s \in Sockets, NEW t \in Sockets, s # t, sock[t].fd # NoFd,
           sock' \in [Sockets -> Socket],
           Keeps(s) \/ Closes(s) \/ Opens(s)
    PROVE  LET r == registrations[sock[t].fd]
               n == registrations'[sock[t].fd]
           IN  n.handle = r.handle /\ n.listener = r.listener /\ r.events \subseteq n.events
<1>1. sock[t].fd \in Fds /\ sock[t].fd # sock[s].fd
  BY OwnDescriptor
<1>2. registrations \in [Fds -> Registration]
  BY DEF IInv, TypeOK
<1>3. CASE Keeps(s)
  BY <1>1, <1>3 DEF Keeps
<1>4. CASE Closes(s)
  BY <1>1, <1>2, <1>4 DEF Closes, UnregisterSocket
<1>5. CASE Opens(s)
  <2>1. registrations[sock[t].fd].listener = t
    BY DEF IInv, SocketsInv, OpenInv
  <2>2. registrations[sock[t].fd].handle # NoHandle
    BY <2>1, <1>1, LoopAssumption, SocketAssumption DEF IInv, RegistrationInv
  <2>3. sock[t].fd # sock'[s].fd
    BY <2>2, <1>5 DEF Opens, FreeFds
  <2> QED BY <1>1, <1>2, <1>5, <2>3 DEF Opens, RegisterSocket
<1> QED BY <1>3, <1>4, <1>5

\* The other sockets keep their invariants,
LEMMA OthersKept ==
    ASSUME IInv, NEW s \in Sockets, NEW t \in Sockets, s # t,
           sock' \in [Sockets -> Socket], sock'[t] = sock[t],
           Keeps(s) \/ Closes(s) \/ Opens(s), Pushes(s), Consumes(s)
    PROVE  OpenInv(t)' /\ OperationInv(t)' /\ WakeInv(t)'
<1>1. OpenInv(t) /\ OperationInv(t) /\ WakeInv(t)
  BY DEF IInv, SocketsInv
<1>2. OperationInv(t)'
  BY <1>1 DEF OperationInv
<1>3. CASE sock[t].fd = NoFd
  <2>1. OpenInv(t)'
    BY <1>1, <1>3 DEF OpenInv
  <2>2. WakeInv(t)'
    BY <1>1, <1>3 DEF WakeInv, OpenInv
  <2> QED BY <1>2, <2>1, <2>2
<1>4. CASE sock[t].fd # NoFd
  <2>1. LET r == registrations[sock[t].fd]
            n == registrations'[sock[t].fd]
        IN  n.handle = r.handle /\ n.listener = r.listener /\ r.events \subseteq n.events
    BY <1>4, OthersRegistered
  <2>2. OpenInv(t)'
    BY <1>1, <1>4, <2>1 DEF OpenInv
  <2>3. ASSUME NEW event, Armed(t, event) PROVE Armed(t, event)'
    BY <2>1, <2>3 DEF Armed
  <2>4. ASSUME NEW event, Collected(t, event) PROVE Collected(t, event)'
    <3>1. PICK e \in ready : Lock(e) /\ e.fd = sock[t].fd /\ event \in e.events
      BY <2>4 DEF Collected
    <3>2. e.fd # sock[s].fd
      BY <3>1, <1>4, OwnDescriptor
    <3>3. e \in ready'
      BY <3>1, <3>2 DEF Consumes
    <3>4. Lock(e)'
      BY <3>1, <2>1 DEF Lock
    <3> QED BY <3>1, <3>3, <3>4 DEF Collected
  <2>5. Halfway(t) => Halfway(t)'
    BY DEF Halfway, Pushes
  <2>6. WakeInv(t)'
    BY <1>1, <2>3, <2>4, <2>5 DEF WakeInv
  <2> QED BY <1>2, <2>2, <2>6
<1> QED BY <1>3, <1>4

\* registrations and sockets still agree,
LEMMA RegistrationsKept ==
    ASSUME IInv, NEW s \in Sockets, sock' \in [Sockets -> Socket],
           \A t \in Sockets \ {s} : sock'[t] = sock[t],
           Keeps(s) \/ Closes(s) \/ Opens(s)
    PROVE  RegistrationInv'
<1> SUFFICES ASSUME NEW fd \in Fds
             PROVE  /\ registrations'[fd].handle = NoHandle
                         <=> registrations'[fd].listener = NoListener
                    /\ registrations'[fd].listener = Driver <=> fd = DriverFd
                    /\ registrations'[fd].listener \in Sockets =>
                          sock'[registrations'[fd].listener].fd = fd
                    /\ fd # DriverFd => registrations'[fd].artificial = {}
  BY DEF RegistrationInv
<1>1. /\ registrations[fd].handle = NoHandle <=> registrations[fd].listener = NoListener
      /\ registrations[fd].listener = Driver <=> fd = DriverFd
      /\ registrations[fd].listener \in Sockets => sock[registrations[fd].listener].fd = fd
      /\ fd # DriverFd => registrations[fd].artificial = {}
  BY DEF IInv, RegistrationInv
<1>2. registrations \in [Fds -> Registration]
  BY DEF IInv, TypeOK
<1>3. /\ NoListener \notin Sockets /\ NoListener # Driver /\ Driver \notin Sockets
      /\ NoHandle \notin Handles /\ NoFd \notin Fds
  BY LoopAssumption, SocketAssumption
<1>4. CASE Keeps(s)
  BY <1>1, <1>4 DEF Keeps
<1>5. CASE Closes(s)
  <2>1. OpenInv(s) /\ sock[s].fd # NoFd
    BY <1>5 DEF IInv, SocketsInv, Closes
  <2>2. registrations[sock[s].fd].listener = s
    BY <2>1 DEF OpenInv
  <2>3. CASE fd = sock[s].fd
    <3>1. registrations'[fd] = Unregistered
      BY <2>3, <1>2, <1>5 DEF Closes, UnregisterSocket
    <3>2. /\ registrations'[fd].handle = NoHandle /\ registrations'[fd].listener = NoListener
          /\ registrations'[fd].artificial = {}
      BY <3>1 DEF Unregistered
    <3>3. fd # DriverFd
      BY <2>2, <2>3, <1>1, <1>3
    <3> QED BY <3>2, <3>3, <1>3
  <2>4. CASE fd # sock[s].fd
    <3>1. registrations'[fd] = registrations[fd]
      BY <2>4, <1>2, <1>5 DEF Closes, UnregisterSocket
    <3>2. registrations[fd].listener # s
      BY <1>1, <2>4
    <3> QED BY <1>1, <3>1, <3>2
  <2> QED BY <2>3, <2>4
<1>6. CASE Opens(s)
  <2>1. PICK events \in SUBSET Events :
           registrations' = RegisterSocket(sock'[s].fd, s, events)
    BY <1>6 DEF Opens
  <2>2. sock'[s].fd \in Fds /\ registrations[sock'[s].fd].handle = NoHandle
    BY <1>6 DEF Opens, FreeFds
  <2>3. Fresh \in Handles
    BY <1>6, FreshIsFresh DEF Opens
  <2>4. CASE fd = sock'[s].fd
    <3>1. /\ registrations'[fd].handle = Fresh /\ registrations'[fd].listener = s
          /\ registrations'[fd].artificial = {}
      BY <2>1, <2>4, <1>2 DEF RegisterSocket
    <3>2. fd # DriverFd
      BY <1>1, <1>3, <2>2, <2>4
    <3> QED BY <3>1, <3>2, <2>3, <2>4, <1>3
  <2>5. CASE fd # sock'[s].fd
    <3>1. registrations'[fd] = registrations[fd]
      BY <2>1, <2>5, <1>2 DEF RegisterSocket
    <3>2. registrations[fd].listener # s
      BY <1>1, <1>3, <1>6 DEF Opens
    <3> QED BY <1>1, <3>1, <3>2
  <2> QED BY <2>4, <2>5
<1> QED BY <1>4, <1>5, <1>6

\* collected events still mean what they meant,
LEMMA AnswersKept ==
    ASSUME IInv, NEW s \in Sockets, sock' \in [Sockets -> Socket],
           \A t \in Sockets \ {s} : sock'[t] = sock[t],
           Keeps(s) \/ Closes(s) \/ Opens(s), SameLink(s), Consumes(s)
    PROVE  AnswerInv'
<1> SUFFICES ASSUME NEW e \in ready', NEW t \in Sockets,
                    Lock(e)', e.fd = sock'[t].fd, sock'[t].connecting
             PROVE  sock'[t].link # "pending"
  BY DEF AnswerInv
<1>1. e \in ready /\ e \in ReadyListEntry
  BY DEF Consumes, IInv, TypeOK
<1>2. e.fd \in Fds /\ e.handle \in Handles
  BY <1>1 DEF ReadyListEntry
<1>3. sock[t].link # "pending" \/ ~Lock(e) \/ e.fd # sock[t].fd \/ ~sock[t].connecting
  BY <1>1 DEF IInv, AnswerInv
<1>4. CASE t # s
  <2>1. sock[t].fd # NoFd
    BY <1>2, <1>4, SocketAssumption
  <2>2. registrations'[sock[t].fd].handle = registrations[sock[t].fd].handle
    BY <1>4, <2>1, OthersRegistered
  <2> QED BY <1>3, <1>4, <2>2 DEF Lock
<1>5. CASE t = s
  <2>1. CASE Keeps(s)
    <3>1. Lock(e) /\ e.fd = sock[s].fd
      BY <1>2, <1>5, <2>1 DEF Keeps, Lock
    <3>2. sock[s].exists
      BY <3>1, <1>2, SocketAssumption DEF IInv, SocketsInv, OpenInv
    <3> QED BY <1>3, <1>5, <3>1, <3>2 DEF SameLink
  <2>2. CASE Closes(s)
    BY <1>2, <1>5, <2>2, SocketAssumption DEF Closes
  <2>3. CASE Opens(s)
    <3>1. PICK events \in SUBSET Events :
             registrations' = RegisterSocket(sock'[s].fd, s, events)
      BY <2>3 DEF Opens
    <3>2. registrations'[e.fd].handle = Fresh
      BY <3>1, <1>2, <1>5 DEF RegisterSocket, IInv, TypeOK
    <3>3. e.handle # Fresh
      BY <1>1, <2>3, FreshIsFresh DEF Opens
    <3> QED BY <3>2, <3>3 DEF Lock
  <2> QED BY <2>1, <2>2, <2>3
<1> QED BY <1>4, <1>5

\* and so do the calls on the stack.
LEMMA StackKept ==
    ASSUME IInv, NEW s \in Sockets, sock' \in [Sockets -> Socket],
           \A t \in Sockets \ {s} : sock'[t] = sock[t],
           SameLink(s), Pushes(s)
    PROVE  StackInv' /\ CompletionsAreTrue'
<1> SUFFICES ASSUME NEW f \in Frames(stack')
             PROVE  /\ f.call # "driver" =>
                          /\ f.sock \in Sockets /\ sock'[f.sock].exists
                          /\ f.call = "sendHalf" => ~sock'[f.sock].connecting
                    /\ FrameTrue(f)'
  BY DEF StackInv, CompletionsAreTrue, FrameTrue
<1>1. CASE f \in Frames(stack)
  <2>1. FrameTrue(f)
    BY <1>1 DEF IInv, CompletionsAreTrue, FrameTrue
  <2>2. CASE f.call = "driver"
    BY <2>2 DEF FrameTrue
  <2>3. CASE f.call # "driver"
    <3>1. /\ f.sock \in Sockets /\ sock[f.sock].exists
          /\ f.call = "sendHalf" => ~sock[f.sock].connecting
      BY <1>1, <2>3 DEF IInv, StackInv
    <3>2. sock'[f.sock].exists /\ sock'[f.sock].link = sock[f.sock].link
      BY <3>1 DEF SameLink
    <3>3. sock'[f.sock].connecting => sock[f.sock].connecting
      BY <3>1 DEF SameLink
    <3>4. FrameTrue(f)'
      BY <2>1, <3>2 DEF FrameTrue
    <3>5. f.call = "sendHalf" => ~sock'[f.sock].connecting
      BY <3>1, <3>3
    <3> QED BY <3>1, <3>2, <3>4, <3>5
  <2> QED BY <2>2, <2>3
<1>2. CASE f \notin Frames(stack)
  BY <1>2 DEF Pushes, SameLink
<1> QED BY <1>1, <1>2

\* A step of one socket keeps the invariant if it does so for that socket.
LEMMA SocketStep ==
    ASSUME IInv, NEW s \in Sockets, TypeOK',
           \A t \in Sockets \ {s} : sock'[t] = sock[t],
           Keeps(s) \/ Closes(s) \/ Opens(s),
           SameLink(s), Pushes(s), Consumes(s),
           OpenInv(s)', OperationInv(s)', WakeInv(s)'
    PROVE  IInv'
<1>1. sock' \in [Sockets -> Socket]
  BY DEF TypeOK
<1>2. SocketsInv'
  <2>1. ASSUME NEW t \in Sockets, t # s PROVE OpenInv(t)' /\ OperationInv(t)' /\ WakeInv(t)'
    BY <1>1, <2>1, OthersKept
  <2> QED BY <2>1 DEF SocketsInv
<1>3. RegistrationInv'
  BY <1>1, RegistrationsKept
<1>4. AnswerInv'
  BY <1>1, AnswersKept
<1>5. StackInv' /\ CompletionsAreTrue'
  BY <1>1, StackKept
<1>6. (ready # {} => polled)'
  BY DEF Consumes
<1> QED BY <1>2, <1>3, <1>4, <1>5, <1>6 DEF IInv
===========================================================================
