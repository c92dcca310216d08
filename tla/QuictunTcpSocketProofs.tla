--------------------- MODULE QuictunTcpSocketProofs ----------------------
(***************************************************************************)
(* The safety of the TCP sockets over the poll event loop, for any number  *)
(* of sockets, descriptors and calls, and sends of any size.               *)
(***************************************************************************)
EXTENDS QuictunTcpSocketOperations

(* Events.                                                                 *)

\* Registrations as they are after a step in which no socket takes part.
QuietRegistrations ==
    \A fd \in Fds : /\ registrations'[fd].handle = registrations[fd].handle
                    /\ registrations'[fd].listener = registrations[fd].listener
                    /\ registrations[fd].events \subseteq registrations'[fd].events
                    /\ fd # DriverFd =>
                         registrations'[fd].artificial = registrations[fd].artificial

\* Such a step preserves the invariant.
LEMMA QuietStep ==
    ASSUME IInv, TypeOK', sock' = sock, QuietRegistrations,
           ready' \subseteq ready, ready' # {} => polled',
           \A e \in ready \ ready' : ~Lock(e) \/ \A s \in Sockets : e.fd # sock[s].fd,
           \A f \in Frames(stack) : f \in Frames(stack') \/ f.call # "sendHalf",
           \A f \in Frames(stack') : f \in Frames(stack) \/ f.call = "driver"
    PROVE  IInv'
<1>1. RegistrationInv'
  BY DEF IInv, RegistrationInv, QuietRegistrations
<1>2. ASSUME NEW e \in ready, Lock(e) PROVE Lock(e)'
  BY <1>2 DEF Lock, IInv, TypeOK, ReadyListEntry, QuietRegistrations
<1>3. ASSUME NEW e \in ready', Lock(e)' PROVE e \in ready /\ Lock(e)
  BY <1>3 DEF Lock, IInv, TypeOK, ReadyListEntry, QuietRegistrations
<1>4. ASSUME NEW s \in Sockets PROVE OpenInv(s)' /\ OperationInv(s)' /\ WakeInv(s)'
  <2>1. OpenInv(s) /\ OperationInv(s) /\ WakeInv(s) /\ sock[s] \in Socket
    BY DEF IInv, SocketsInv, TypeOK
  <2>2. OperationInv(s)'
    BY <2>1 DEF OperationInv
  <2>3. CASE sock[s].fd = NoFd
    <3>1. OpenInv(s)'
      BY <2>1, <2>3 DEF OpenInv
    <3>2. WakeInv(s)'
      BY <2>1, <2>3 DEF WakeInv, OpenInv
    <3> QED BY <2>2, <3>1, <3>2
  <2>4. CASE sock[s].fd # NoFd
    <3>1. sock[s].fd \in Fds
      BY <2>1, <2>4 DEF Socket
    <3>2. OpenInv(s)'
      BY <2>1, <2>4, <3>1 DEF OpenInv, QuietRegistrations
    <3>3. ASSUME NEW event, Armed(s, event) PROVE Armed(s, event)'
      BY <3>1, <3>3 DEF Armed, QuietRegistrations
    <3>4. ASSUME NEW event, Collected(s, event) PROVE Collected(s, event)'
      BY <1>2, <3>4 DEF Collected
    <3>5. Halfway(s) => Halfway(s)'
      BY DEF Halfway
    <3>6. WakeInv(s)'
      BY <2>1, <3>3, <3>4, <3>5 DEF WakeInv
    <3> QED BY <2>2, <3>2, <3>6
  <2> QED BY <2>3, <2>4
<1>5. AnswerInv'
  BY <1>3 DEF IInv, AnswerInv
<1>6. StackInv'
  BY DEF IInv, StackInv
<1>7. CompletionsAreTrue'
  BY DEF IInv, CompletionsAreTrue
<1> QED BY <1>1, <1>4, <1>5, <1>6, <1>7 DEF IInv, SocketsInv

\* The callback of a completion, or of a driver, returns.
LEMMA ReturnsKeeps ==
    ASSUME IInv, Returns
    PROVE  IInv'
<1>1. /\ Head(stack) \in Frame /\ Tail(stack) \in Seq(Frame)
      /\ Frames(stack) = {Head(stack)} \cup Frames(Tail(stack))
  BY PopFrames DEF Returns, IInv, TypeOK
<1>2. /\ Head(stack).call # "sendHalf" /\ stack' = Tail(stack)
      /\ UNCHANGED <<registrations, ready, sock, polled>>
  BY DEF Returns
<1>3. budget' \in 0..MaxCalls
  BY SocketAssumption DEF Returns, IInv, TypeOK
<1>4. TypeOK'
  BY <1>1, <1>2, <1>3 DEF IInv, TypeOK
<1>5. QuietRegistrations
  BY <1>2 DEF QuietRegistrations
<1> QED BY <1>1, <1>2, <1>4, <1>5, QuietStep DEF IInv

\* The send half of OnSocketEvent().
LEMMA OnSocketEventSendsKeeps ==
    ASSUME IInv, OnSocketEventSends
    PROVE  IInv'
<1> DEFINE rest == Tail(stack)
<1>a. stack # <<>> /\ Head(stack).call = "sendHalf"
  BY DEF OnSocketEventSends
<1>2. /\ Head(stack) \in Frame /\ rest \in Seq(Frame)
      /\ Frames(stack) = {Head(stack)} \cup Frames(rest)
  BY <1>a, PopFrames DEF IInv, TypeOK
<1>b. PICK s \in Sockets : s = Head(stack).sock /\ sock[s].exists /\ ~sock[s].connecting
  BY <1>a, <1>2 DEF IInv, StackInv
<1>3. s \in Sockets /\ sock[s].exists /\ ~sock[s].connecting
  BY <1>b
<1>1. /\ IF sock[s].remaining > 0 THEN TrySend(s, sock[s], sock[s].remaining, rest)
         ELSE stack' = rest /\ UNCHANGED <<sock, registrations>>
      /\ budget' = IF stack' = <<>> THEN 0 ELSE budget
      /\ UNCHANGED <<ready, polled>>
  BY <1>b DEF OnSocketEventSends
<1> HIDE DEF rest
<1>4. Follows(s, rest)
  BY <1>2, <1>b DEF Follows
<1>5. budget' \in 0..MaxCalls
  BY <1>1, SocketAssumption DEF IInv, TypeOK
<1>6. Loop(s)
  BY <1>1, <1>5 DEF Loop, Consumes, IInv, TypeOK
<1>7. /\ OpenInv(s) /\ OperationInv(s) /\ WakeInv(s)
      /\ sock[s] \in Socket
  BY <1>3 DEF IInv, SocketsInv, TypeOK
<1>8. sock[s].receiving => StillWoken(s, "readable", rest)
  BY <1>1, <1>7 DEF WakeInv, Collected, StillWoken
<1>9. CASE sock[s].remaining > 0
  <2>1. sock[s].fd # NoFd
    BY <1>7, <1>9 DEF OpenInv
  <2>2. sock[s].remaining \in 1..SendSize /\ sock[s].taken + sock[s].remaining = SendSize
    BY <1>7, <1>9, SocketAssumption DEF OperationInv, Socket
  <2>3. sock[s].owed["send"] = 1
    BY <1>7, <1>9, OwedByKind DEF OperationInv
  <2>4. Finds(s, sock[s], "send")
    BY <1>3, <1>7, <2>1, <2>3 DEF Finds
  <2>5. TrySend(s, sock[s], sock[s].remaining, rest)
    BY <1>1, <1>9
  <2> QED BY <1>3, <1>4, <1>6, <1>8, <2>2, <2>4, <2>5, SendStep
<1>10. CASE ~(sock[s].remaining > 0)
  <2>1. stack' = rest /\ UNCHANGED <<sock, registrations>>
    BY <1>1, <1>10
  <2>2. TypeOK'
    BY <1>1, <1>2, <1>5, <2>1 DEF IInv, TypeOK
  <2>3. Keeps(s) /\ SameLink(s)
    BY <1>3, <2>1 DEF Keeps, SameLink
  <2>4. Pushes(s)
    BY <1>3, <1>4, <2>1, PushesRest
  <2>5. OpenInv(s)'
    BY <1>7, <2>1 DEF OpenInv
  <2>6. OperationInv(s)'
    BY <1>7, <2>1 DEF OperationInv
  <2>7. WakeInv(s)'
    <3>1. ASSUME NEW event, Collected(s, event) PROVE Collected(s, event)'
      BY <1>1, <2>1, <3>1 DEF Collected, Lock
    <3>2. ASSUME NEW event, Armed(s, event) PROVE Armed(s, event)'
      BY <2>1, <3>2 DEF Armed
    <3> QED BY <1>3, <1>7, <1>10, <2>1, <3>1, <3>2 DEF WakeInv
  <2> QED BY <1>3, <1>6, <2>1, <2>2, <2>3, <2>4, <2>5, <2>6, <2>7, SocketStep DEF Loop
<1> QED BY <1>9, <1>10

\* The entry of a ready list that RunReadyCallbacks() runs for a socket is one
\* for its present descriptor.
LEMMA OwnEntry ==
    ASSUME IInv, NEW e \in ready, Lock(e), registrations[e.fd].listener # Driver
    PROVE  /\ registrations[e.fd].listener \in Sockets
           /\ sock[registrations[e.fd].listener].fd = e.fd
           /\ e.fd \in Fds
<1>1. e.fd \in Fds /\ e.handle \in Handles
  BY DEF IInv, TypeOK, ReadyListEntry
<1>2. registrations[e.fd] \in Registration
  BY <1>1 DEF IInv, TypeOK
<1>3. registrations[e.fd].handle # NoHandle
  BY <1>1, LoopAssumption DEF Lock
<1>4. registrations[e.fd].listener # NoListener
  BY <1>1, <1>3 DEF IInv, RegistrationInv
<1>5. registrations[e.fd].listener \in Sockets
  BY <1>2, <1>4, SocketAssumption DEF Registration
<1> QED BY <1>1, <1>5 DEF IInv, RegistrationInv

\* A callback while nothing else runs.
Callback(s, e) ==
    /\ stack = <<>> /\ e \in ready /\ Lock(e) /\ ready' = ready \ {e}
    /\ s \in Sockets /\ sock[s].fd = e.fd /\ e.fd \in Fds
    /\ Loop(s)

\* OnSocketEvent() while connecting: the answer is there.
LEMMA ConnectEventKeeps ==
    ASSUME IInv, NEW s, NEW e, Callback(s, e), sock[s].connecting, ConnectEvent(s)
    PROVE  IInv'
<1> DEFINE m(result) == [sock[s] EXCEPT !.connecting = FALSE,
                                        !.fd = IF result = "ok" THEN @ ELSE NoFd]
<1>1. PICK result \in ConnectResults(sock[s]) :
         /\ Completes(s, m(result), "connect", result, <<>>)
         /\ IF result = "ok" THEN registrations' = registrations
            ELSE registrations' = UnregisterSocket(sock[s].fd)
  BY Zenon DEF ConnectEvent
<1>2. /\ s \in Sockets /\ sock[s].fd = e.fd /\ e.fd \in Fds /\ sock[s].fd # NoFd
      /\ stack = <<>> /\ <<>> \in Seq(Frame) /\ sock[s] \in Socket /\ TypeOK
  BY SocketAssumption DEF Callback, IInv, TypeOK
<1>3. OpenInv(s) /\ OperationInv(s)
  BY <1>2 DEF IInv, SocketsInv
<1>4. sock[s].link \in {"up", "refused", "broken"}
  <2>1. sock[s].link # "pending"
    BY <1>2 DEF IInv, AnswerInv, Callback
  <2>2. sock[s].link # "none"
    BY <1>3 DEF OperationInv
  <2> QED BY <1>2, <2>1, <2>2 DEF Socket
<1>5. /\ result \in {"ok", "error"}
      /\ result = "ok" => sock[s].link = "up"
      /\ result = "error" => sock[s].link \in {"refused", "broken"}
  BY <1>4 DEF ConnectResults
<1>6. sock[s].exists /\ ~sock[s].receiving /\ sock[s].remaining = 0
  BY <1>2, <1>3 DEF OpenInv, OperationInv
<1>7. sock[s].owed["connect"] = 1 /\ sock[s].owed["receive"] = 0 /\ sock[s].owed["send"] = 0
  BY <1>3, <1>6, OwedByKind DEF OperationInv
<1> DEFINE fd == IF result = "ok" THEN sock[s].fd ELSE NoFd
           n == m(result)
           f == Completion(s, "connect", result, 0)
<1>8. n = [sock[s] EXCEPT !.connecting = FALSE, !.fd = fd] /\ fd \in Fds \cup {NoFd}
  BY <1>2 DEF Socket
<1> HIDE DEF fd
<1>9. /\ n \in Socket /\ n.exists = sock[s].exists /\ n.fd = fd /\ ~n.connecting
      /\ n.receiving = sock[s].receiving /\ n.remaining = sock[s].remaining
      /\ n.link = sock[s].link /\ n.owed = sock[s].owed
  BY <1>2, <1>8 DEF Socket
<1>10. Completes(s, n, "connect", result, <<>>)
  BY <1>1
<1> HIDE DEF n
<1>11. /\ sock' \in [Sockets -> Socket]
       /\ \A t \in Sockets \ {s} : sock'[t] = sock[t]
       /\ sock'[s].exists = n.exists /\ sock'[s].fd = n.fd
       /\ sock'[s].connecting = n.connecting /\ sock'[s].receiving = n.receiving
       /\ sock'[s].remaining = n.remaining
       /\ sock'[s].link = n.link
       /\ sock'[s].owed["connect"] = n.owed["connect"] - 1
       /\ sock'[s].owed["receive"] = n.owed["receive"]
       /\ sock'[s].owed["send"] = n.owed["send"]
       /\ stack' \in Seq(Frame)
       /\ Frames(stack') = {f} \cup Frames(<<>>)
  <2>1. "connect" \in Ops /\ "receive" \in Ops \ {"connect"} /\ "send" \in Ops \ {"connect"}
    BY DEF Ops
  <2>2. result \in Results /\ n \in Socket
    BY <1>5, <1>9 DEF Results
  <2> DEFINE none == <<>>
  <2>3. none \in Seq(Frame) /\ Completes(s, n, "connect", result, none)
    BY <1>2, <1>10
  <2> HIDE DEF none
  <2>4. stack' \in Seq(Frame) /\ Frames(stack') = {f} \cup Frames(none)
    BY <1>2, <2>1, <2>2, <2>3, CompletesEffect
  <2>5. /\ sock' \in [Sockets -> Socket]
        /\ \A t \in Sockets \ {s} : sock'[t] = sock[t]
        /\ sock'[s].exists = n.exists /\ sock'[s].fd = n.fd
        /\ sock'[s].connecting = n.connecting /\ sock'[s].receiving = n.receiving
        /\ sock'[s].remaining = n.remaining
        /\ sock'[s].link = n.link
        /\ sock'[s].owed["connect"] = n.owed["connect"] - 1
        /\ sock'[s].owed["receive"] = n.owed["receive"]
        /\ sock'[s].owed["send"] = n.owed["send"]
    BY <1>2, <2>1, <2>2, <2>3, CompletesEffect
  <2> QED BY <2>4, <2>5 DEF none
<1>12. /\ sock'[s].exists /\ ~sock'[s].connecting /\ ~sock'[s].receiving
       /\ sock'[s].remaining = 0 /\ sock'[s].fd = fd /\ sock'[s].link = sock[s].link
       /\ sock'[s].owed["connect"] = 0 /\ sock'[s].owed["receive"] = 0
       /\ sock'[s].owed["send"] = 0
  BY <1>6, <1>7, <1>9, <1>11
<1>13. /\ Keeps(s) \/ Closes(s)
       /\ registrations' \in [Fds -> Registration]
       /\ fd # NoFd => registrations'[fd].listener = s
  <2>1. CASE result = "ok"
    <3>1. fd = sock[s].fd /\ registrations' = registrations
      BY <1>1, <2>1 DEF fd
    <3>2. Keeps(s)
      BY <1>12, <3>1 DEF Keeps
    <3> QED BY <1>2, <1>3, <3>1, <3>2 DEF OpenInv, TypeOK
  <2>2. CASE result # "ok"
    <3>1. fd = NoFd /\ registrations' = UnregisterSocket(sock[s].fd)
      BY <1>1, <2>2 DEF fd
    <3>2. Closes(s)
      BY <1>2, <1>12, <3>1 DEF Closes
    <3>3. Unregistered \in Registration
      BY DEF Unregistered, Registration
    <3> QED BY <1>2, <3>1, <3>2, <3>3 DEF TypeOK, UnregisterSocket
  <2> QED BY <2>1, <2>2
<1>14. TypeOK'
  BY <1>2, <1>11, <1>13 DEF TypeOK, Loop, Callback
<1>15. SameLink(s)
  BY <1>6, <1>12 DEF SameLink
<1>16. Pushes(s)
  <2>1. f.sock = s /\ f.call # "sendHalf" /\ FrameTrue(f)'
    BY <1>5, <1>12 DEF Completion, FrameTrue
  <2> QED BY <1>2, <1>11, <2>1, NoFrames DEF Pushes
<1>17. OpenInv(s)'
  BY <1>12, <1>13 DEF OpenInv
<1>18. OperationInv(s)'
  <2>1. \A op \in Ops : sock'[s].owed[op] = One(Pending(sock'[s], op))
    BY <1>12, OwedByKind
  <2> QED BY <2>1, <1>12 DEF OperationInv
<1>19. WakeInv(s)'
  BY <1>12 DEF WakeInv
<1> QED BY <1>2, <1>11, <1>13, <1>14, <1>15, <1>16, <1>17, <1>18, <1>19, SocketStep
        DEF Loop, Callback

\* OnSocketEvent(): what the entry's events do not cover is still to be woken.
LEMMA OnSocketEventKeeps ==
    ASSUME IInv, NEW s, NEW e, Callback(s, e), OnSocketEvent(s, e.events)
    PROVE  IInv'
<1> DEFINE sends == e.events \cap {"writable", "error"} # {}
           rest == IF sends THEN <<SendHalf(s)>> ELSE <<>>
<1>1. /\ s \in Sockets /\ sock[s].fd = e.fd /\ e.fd \in Fds /\ sock[s].fd # NoFd
      /\ stack = <<>> /\ sock[s] \in Socket /\ Loop(s)
  BY SocketAssumption DEF Callback, IInv, TypeOK
<1>2. OpenInv(s) /\ OperationInv(s) /\ WakeInv(s)
  BY <1>1 DEF IInv, SocketsInv
<1>3. /\ rest \in Seq(Frame)
      /\ \A f \in Frames(rest) : f = SendHalf(s)
      /\ sends => SendHalf(s) \in Frames(rest)
      /\ rest # <<>> => sends
      /\ sends => rest # <<>>
  <2>1. SendHalf(s) \in Frame
    BY <1>1, SocketAssumption DEF SendHalf, Frame, Ops
  <2>2. CASE sends
    <3>1. rest = <<SendHalf(s)>>
      BY <2>2
    <3>2. <<SendHalf(s)>> \in Seq(Frame) /\ Frames(<<SendHalf(s)>>) = {SendHalf(s)}
      BY <2>1, OneFrame
    <3>3. rest # <<>>
      BY <3>1, <3>2, NoFrames
    <3> QED BY <2>2, <3>1, <3>2, <3>3
  <2>3. CASE ~sends
    BY <2>3, NoFrames
  <2> QED BY <2>2, <2>3
<1>4. IF sock[s].connecting /\ rest # <<>> THEN ConnectEvent(s)
      ELSE IF sock[s].receiving /\ e.events \cap {"readable", "error"} # {}
      THEN TryReceive(s, sock[s], rest)
      ELSE stack' = rest /\ UNCHANGED <<sock, registrations>>
  BY DEF OnSocketEvent
<1> HIDE DEF rest
<1>5. Follows(s, rest)
  BY <1>1, <1>3, NoFrames DEF Follows
\* What was collected for the socket is on the list still, or in this entry.
<1>6. ASSUME NEW event, Collected(s, event), event \notin e.events
      PROVE  \E d \in ready' : Lock(d) /\ d.fd = sock[s].fd /\ event \in d.events
  BY <1>6 DEF Collected, Callback
<1>7. sock[s].remaining > 0 => StillWoken(s, "writable", rest)
  <2> SUFFICES ASSUME sock[s].remaining > 0 PROVE StillWoken(s, "writable", rest)
    OBVIOUS
  <2>1. Armed(s, "writable") \/ Collected(s, "writable")
    BY <1>1, <1>2, NoFrames DEF WakeInv, Halfway
  <2>2. CASE "writable" \in e.events
    <3>1. SendHalf(s) \in Frames(rest) /\ SendHalf(s).call = "sendHalf" /\ SendHalf(s).sock = s
      BY <1>3, <2>2 DEF SendHalf
    <3> QED BY <3>1 DEF StillWoken
  <2>3. CASE "writable" \notin e.events
    BY <1>6, <2>1, <2>3 DEF StillWoken
  <2> QED BY <2>2, <2>3
<1>8. CASE sock[s].connecting /\ rest # <<>>
  BY <1>4, <1>8, ConnectEventKeeps
<1>9. CASE /\ ~(sock[s].connecting /\ rest # <<>>)
           /\ sock[s].receiving /\ e.events \cap {"readable", "error"} # {}
  <2>1. TryReceive(s, sock[s], rest)
    BY <1>4, <1>9
  <2>2. ~sock[s].connecting /\ sock[s].owed["receive"] = 1
    BY <1>2, <1>9, OwedByKind DEF OperationInv
  <2>3. Finds(s, sock[s], "receive")
    BY <1>1, <2>2 DEF Finds
  <2> QED BY <1>1, <1>5, <1>7, <2>1, <2>3, ReceiveStep
<1>10. CASE /\ ~(sock[s].connecting /\ rest # <<>>)
            /\ ~(sock[s].receiving /\ e.events \cap {"readable", "error"} # {})
  <2>1. stack' = rest /\ sock' = sock /\ registrations' = registrations
    BY <1>4, <1>10
  <2>2. TypeOK'
    BY <1>1, <1>3, <2>1 DEF IInv, TypeOK, Loop
  <2>3. Keeps(s) /\ SameLink(s)
    BY <1>1, <1>2, <2>1 DEF Keeps, SameLink, OpenInv
  <2>4. Pushes(s)
    <3>1. CASE rest = <<>>
      BY <1>1, <2>1, <3>1, NoFrames DEF Pushes
    <3>2. CASE rest # <<>>
      BY <1>1, <1>5, <1>10, <2>1, <3>2, PushesRest
    <3> QED BY <3>1, <3>2
  <2>5. OpenInv(s)'
    BY <1>2, <2>1 DEF OpenInv
  <2>6. OperationInv(s)'
    BY <1>2, <2>1 DEF OperationInv
  <2>7. WakeInv(s)'
    <3>1. ASSUME NEW event, Armed(s, event) \/ Collected(s, event), event \notin e.events
          PROVE  Armed(s, event)' \/ Collected(s, event)'
      <4>1. StillWoken(s, event, <<>>)
        BY <1>6, <3>1 DEF StillWoken
      <4> QED BY <1>1, <2>3, <4>1, StillWokenKept, NoFrames
    <3>2. ASSUME sock'[s].receiving PROVE Armed(s, "readable")' \/ Collected(s, "readable")'
      BY <1>2, <1>10, <2>1, <3>1, <3>2 DEF WakeInv
    <3>3. ASSUME sock'[s].connecting PROVE Armed(s, "writable")' \/ Collected(s, "writable")'
      <4>1. "writable" \notin e.events
        BY <1>3, <1>10, <2>1, <3>3
      <4> QED BY <1>2, <2>1, <3>1, <3>3, <4>1 DEF WakeInv
    <3>4. ASSUME sock'[s].remaining > 0
          PROVE  Armed(s, "writable")' \/ Collected(s, "writable")' \/ Halfway(s)'
      <4>1. StillWoken(s, "writable", rest)
        BY <1>7, <2>1, <3>4
      <4> QED BY <1>1, <2>1, <2>3, <4>1, StillWokenKept DEF Halfway
    <3> QED BY <3>2, <3>3, <3>4 DEF WakeInv
  <2> QED BY <1>1, <2>1, <2>2, <2>3, <2>4, <2>5, <2>6, <2>7, SocketStep DEF Loop
<1> QED BY <1>8, <1>9, <1>10

\* RunReadyCallbacks(), one entry: stale, of a driver, or of a socket.
LEMMA RunReadyCallbackKeeps ==
    ASSUME IInv, RunReadyCallback
    PROVE  IInv'
<1>1. PICK e \in ready :
         /\ ready' = ready \ {e}
         /\ IF ~Lock(e) THEN UNCHANGED <<registrations, sock, stack>>
            ELSE IF registrations[e.fd].listener = Driver THEN DriverEvent
            ELSE OnSocketEvent(registrations[e.fd].listener, e.events)
  BY DEF RunReadyCallback
<1>2. /\ polled /\ polled' = polled /\ stack = <<>>
      /\ budget' = IF stack' = <<>> THEN 0 ELSE MaxCalls
  BY DEF RunReadyCallback
<1>3. budget' \in 0..MaxCalls
  BY <1>2, SocketAssumption
<1>4. /\ ready' \subseteq ReadyListEntry /\ polled' \in BOOLEAN /\ TypeOK
  BY <1>1, <1>2 DEF IInv, TypeOK
<1>5. CASE ~Lock(e)
  <2>1. UNCHANGED <<registrations, sock, stack>>
    BY <1>1, <1>5
  <2>2. TypeOK'
    BY <1>3, <1>4, <2>1 DEF TypeOK
  <2>3. QuietRegistrations
    BY <2>1 DEF QuietRegistrations
  <2> QED BY <1>1, <1>2, <1>5, <2>1, <2>2, <2>3, QuietStep
<1>6. CASE Lock(e) /\ registrations[e.fd].listener = Driver
  <2>1. DriverEvent
    BY <1>1, <1>6
  <2>2. /\ e.fd \in Fds /\ DriverFd \in Fds /\ registrations \in [Fds -> Registration]
    BY SocketAssumption DEF IInv, TypeOK, ReadyListEntry
  <2>3. e.fd = DriverFd
    BY <1>6, <2>2 DEF IInv, RegistrationInv
  <2>4. \A s \in Sockets : e.fd # sock[s].fd
    BY <2>2, <2>3, SocketAssumption DEF IInv, SocketsInv, OpenInv, RegistrationInv
  <2>5. /\ registrations' \in [Fds -> Registration]
        /\ QuietRegistrations
    BY <2>1, <2>2 DEF DriverEvent, RearmSocket, Registration, Events, QuietRegistrations
  <2>6. sock' = sock /\ stack' \in Seq(Frame) /\ Frames(stack') = {DriverFrame}
    <3>1. DriverFrame \in Frame
      BY SocketAssumption DEF DriverFrame, Frame, Ops
    <3>2. <<DriverFrame>> \in Seq(Frame) /\ Frames(<<DriverFrame>>) = {DriverFrame}
      BY <3>1, OneFrame
    <3> QED BY <2>1, <3>2 DEF DriverEvent
  <2>7. TypeOK'
    BY <1>3, <1>4, <2>5, <2>6 DEF TypeOK
  <2>8. DriverFrame.call = "driver"
    BY DEF DriverFrame
  <2> QED BY <1>1, <1>2, <2>4, <2>5, <2>6, <2>7, <2>8, NoFrames, QuietStep
<1>7. CASE Lock(e) /\ registrations[e.fd].listener # Driver
  <2>1. PICK s \in Sockets : s = registrations[e.fd].listener /\ sock[s].fd = e.fd /\ e.fd \in Fds
    BY <1>7, OwnEntry
  <2>2. OnSocketEvent(s, e.events)
    BY <1>1, <1>7, <2>1
  <2>3. Loop(s)
    BY <1>1, <1>2, <1>3, <1>4, <2>1 DEF Loop, Consumes
  <2>4. Callback(s, e)
    BY <1>1, <1>2, <1>7, <2>1, <2>3 DEF Callback
  <2> QED BY <2>2, <2>4, OnSocketEventKeeps
<1> QED BY <1>5, <1>6, <1>7

\* ProcessIoEvents(): what is no longer armed is on the list.
LEMMA ProcessIoEventsKeeps ==
    ASSUME IInv, ProcessIoEvents
    PROVE  IInv'
<1> DEFINE revents(room, packets) ==
              [fd \in Fds |->
                 IF registrations[fd].listener \in Sockets
                 THEN LET s == registrations[fd].listener IN Reported(sock[s], s \in room)
                 ELSE IF packets THEN {"readable"} ELSE {}]
<1>1. PICK room \in SUBSET Sockets, packets \in BOOLEAN : CollectReady(revents(room, packets))
  BY DEF ProcessIoEvents
<1>2. ~polled /\ stack = <<>> /\ polled' = TRUE /\ UNCHANGED <<sock, stack, budget>>
  BY DEF ProcessIoEvents
<1>3. ready = {} /\ registrations \in [Fds -> Registration] /\ sock \in [Sockets -> Socket]
  BY <1>2 DEF IInv, TypeOK
<1> DEFINE d(fd) == Delivered(fd, revents(room, packets)[fd])
<1>4. /\ ready' = {[fd |-> fd, handle |-> registrations[fd].handle, events |-> d(fd)] :
                    fd \in {f \in Fds \ FreeFds : d(f) # {}}}
      /\ registrations' = [fd \in Fds |-> [registrations[fd] EXCEPT !.events = @ \ d(fd),
                                                                   !.artificial = {}]]
  BY <1>1, Zenon DEF CollectReady
<1>5. ASSUME NEW fd \in Fds, registrations[fd].listener \in Sockets,
             sock[registrations[fd].listener].link = "pending"
      PROVE  d(fd) = {}
  <2>1. fd # DriverFd
    BY <1>5, SocketAssumption DEF IInv, RegistrationInv
  <2>2. registrations[fd].artificial = {}
    BY <2>1 DEF IInv, RegistrationInv
  <2>3. revents(room, packets)[fd] = {}
    BY <1>5 DEF Reported
  <2> QED BY <2>2, <2>3 DEF Delivered
<1>6. \A fd \in Fds : d(fd) \subseteq Events
  BY <1>3 DEF Delivered, Registration
<1> HIDE DEF d
<1>7. \A fd \in Fds :
         /\ registrations'[fd] \in Registration
         /\ registrations'[fd].handle = registrations[fd].handle
         /\ registrations'[fd].listener = registrations[fd].listener
         /\ registrations'[fd].events = registrations[fd].events \ d(fd)
         /\ registrations'[fd].artificial = {}
  BY <1>3, <1>4 DEF Registration
<1>8. registrations' \in [Fds -> Registration]
  BY <1>4, <1>7, Zenon
<1>9. ready' \subseteq ReadyListEntry
  <2> SUFFICES ASSUME NEW fd \in Fds \ FreeFds
               PROVE  [fd |-> fd, handle |-> registrations[fd].handle, events |-> d(fd)]
                         \in ReadyListEntry
    BY <1>4, Zenon
  <2>1. registrations[fd].handle \in Handles
    BY <1>3 DEF Registration, FreeFds
  <2> QED BY <1>6, <2>1 DEF ReadyListEntry
<1>10. TypeOK'
  BY <1>2, <1>8, <1>9 DEF IInv, TypeOK
<1>11. RegistrationInv'
  BY <1>2, <1>7 DEF IInv, RegistrationInv
<1>12. ASSUME NEW s \in Sockets PROVE OpenInv(s)' /\ OperationInv(s)' /\ WakeInv(s)'
  <2>1. OpenInv(s) /\ OperationInv(s) /\ WakeInv(s) /\ sock[s] \in Socket /\ sock'[s] = sock[s]
    BY <1>2, <1>3 DEF IInv, SocketsInv
  <2>2. OperationInv(s)'
    BY <2>1 DEF OperationInv
  <2>3. CASE sock[s].fd = NoFd
    <3>1. OpenInv(s)'
      BY <2>1, <2>3 DEF OpenInv
    <3>2. WakeInv(s)'
      BY <2>1, <2>3 DEF WakeInv, OpenInv
    <3> QED BY <2>2, <3>1, <3>2
  <2>4. CASE sock[s].fd # NoFd
    <3> DEFINE fd == sock[s].fd
    <3>1. fd \in Fds /\ registrations[fd].listener = s
      BY <2>1, <2>4 DEF Socket, OpenInv
    <3>2. fd \notin FreeFds
      BY <3>1, LoopAssumption, SocketAssumption DEF FreeFds, IInv, RegistrationInv
    <3>3. OpenInv(s)'
      BY <1>7, <2>1, <2>4, <3>1 DEF OpenInv
    <3>4. ASSUME NEW event, Armed(s, event) PROVE Armed(s, event)' \/ Collected(s, event)'
      <4>1. CASE event \in d(fd)
        <5> DEFINE e == [fd |-> fd, handle |-> registrations[fd].handle, events |-> d(fd)]
        <5>1. e \in ready'
          BY <1>4, <3>1, <3>2, <4>1, Zenon
        <5>2. e.handle = registrations[fd].handle /\ e.fd = fd /\ e.events = d(fd)
          OBVIOUS
        <5> HIDE DEF e
        <5>3. registrations'[e.fd].handle = e.handle
          BY <1>7, <3>1, <5>2
        <5> QED BY <2>1, <4>1, <5>1, <5>2, <5>3 DEF Collected, Lock
      <4>2. CASE event \notin d(fd)
        <5>1. event \in registrations[fd].events
          BY <3>4 DEF Armed
        <5> HIDE DEF fd
        <5>2. event \in registrations'[fd].events
          BY <1>7, <3>1, <4>2, <5>1
        <5> QED BY <2>1, <5>2 DEF Armed, fd
      <4> QED BY <4>1, <4>2
    <3>5. ~Halfway(s) /\ \A event : ~Collected(s, event)
      BY <1>2, <1>3, NoFrames DEF Halfway, Collected
    <3>6. WakeInv(s)'
      BY <2>1, <3>4, <3>5 DEF WakeInv
    <3> QED BY <2>2, <3>3, <3>6
  <2> QED BY <2>3, <2>4
<1>13. AnswerInv'
  <2> SUFFICES ASSUME NEW e \in ready', NEW s \in Sockets, Lock(e)', e.fd = sock'[s].fd,
                      sock'[s].connecting
               PROVE  sock'[s].link # "pending"
    BY DEF AnswerInv
  <2>1. PICK fd \in Fds : e = [fd |-> fd, handle |-> registrations[fd].handle, events |-> d(fd)]
                          /\ d(fd) # {}
    BY <1>4, Zenon
  <2>2. sock[s].fd = fd /\ fd # NoFd
    BY <1>2, <2>1, SocketAssumption
  <2>3. registrations[fd].listener = s
    BY <2>2 DEF IInv, SocketsInv, OpenInv
  <2> QED BY <1>2, <1>5, <2>1, <2>3
<1>14. StackInv' /\ CompletionsAreTrue'
  BY <1>2, NoFrames DEF StackInv, CompletionsAreTrue
<1> QED BY <1>2, <1>10, <1>11, <1>12, <1>13, <1>14 DEF IInv, SocketsInv

\* The alarms.
LEMMA ProcessAlarmsKeeps ==
    ASSUME IInv, ProcessAlarms
    PROVE  IInv'
<1>1. /\ polled /\ ready = {} /\ stack = <<>> /\ polled' = FALSE
      /\ stack' = <<DriverFrame>> /\ budget' = MaxCalls /\ UNCHANGED <<ready, sock>>
  BY DEF ProcessAlarms
<1>2. DriverFd \in Fds /\ registrations \in [Fds -> Registration]
  BY SocketAssumption DEF IInv, TypeOK
<1>3. /\ registrations' \in [Fds -> Registration]
      /\ QuietRegistrations
  BY <1>2 DEF ProcessAlarms, ArtificiallyNotifyEvent, Registration, Events, QuietRegistrations
<1>4. stack' \in Seq(Frame) /\ Frames(stack') = {DriverFrame}
  <2>1. DriverFrame \in Frame
    BY SocketAssumption DEF DriverFrame, Frame, Ops
  <2>2. <<DriverFrame>> \in Seq(Frame) /\ Frames(<<DriverFrame>>) = {DriverFrame}
    BY <2>1, OneFrame
  <2> QED BY <1>1, <2>2
<1>5. budget' \in 0..MaxCalls
  BY <1>1, SocketAssumption
<1>6. TypeOK'
  BY <1>1, <1>3, <1>4, <1>5 DEF IInv, TypeOK
<1>7. DriverFrame.call = "driver"
  BY DEF DriverFrame
<1>8. /\ sock' = sock /\ ready' \subseteq ready /\ (ready' # {} => polled')
      /\ \A e \in ready \ ready' : ~Lock(e) \/ \A s \in Sockets : e.fd # sock[s].fd
  BY <1>1
<1>9. /\ \A f \in Frames(stack) : f \in Frames(stack') \/ f.call # "sendHalf"
      /\ \A f \in Frames(stack') : f \in Frames(stack) \/ f.call = "driver"
  BY <1>1, <1>4, <1>7, NoFrames
<1> QED BY <1>3, <1>6, <1>8, <1>9, QuietStep

---------------------------------------------------------------------------
(* The owner and the kernel.                                               *)

\* A socket that is destroyed was closed: nothing refers to it.
LEMMA DestroyKeeps ==
    ASSUME IInv, NEW s \in Sockets, Destroy(s)
    PROVE  IInv'
<1>1. /\ ready = {} /\ stack = <<>> /\ sock[s].fd = NoFd
      /\ sock' = [sock EXCEPT ![s] = Destroyed]
      /\ UNCHANGED <<registrations, ready, stack, polled, budget>>
  BY DEF Destroy
<1>2. Destroyed \in Socket
  <2>1. 0 \in 0..SendSize
    BY SocketAssumption
  <2> QED BY <2>1 DEF Destroyed, Socket
<1>3. /\ Destroyed.fd = NoFd /\ ~Destroyed.connecting /\ ~Destroyed.receiving
      /\ Destroyed.remaining = 0
      /\ \A op \in Ops : Destroyed.owed[op] = 0
  BY DEF Destroyed
<1> DEFINE k == Destroyed
<1>4. /\ sock' \in [Sockets -> Socket] /\ sock'[s] = k
      /\ \A t \in Sockets \ {s} : sock'[t] = sock[t]
  BY <1>1, <1>2 DEF IInv, TypeOK
<1> HIDE DEF k
<1>5. TypeOK'
  BY <1>1, <1>4 DEF IInv, TypeOK
<1>6. RegistrationInv'
  <2>1. ASSUME NEW fd \in Fds, registrations[fd].listener \in Sockets
        PROVE  sock'[registrations[fd].listener].fd = fd
    BY <1>1, <1>4, <2>1, SocketAssumption DEF IInv, RegistrationInv
  <2> QED BY <1>1, <2>1 DEF IInv, RegistrationInv
<1>7. ASSUME NEW t \in Sockets PROVE OpenInv(t)' /\ OperationInv(t)' /\ WakeInv(t)'
  <2>1. CASE t = s
    <3>1. /\ k.fd = NoFd /\ ~k.connecting /\ ~k.receiving /\ k.remaining = 0
          /\ k.owed["connect"] = 0 /\ k.owed["receive"] = 0 /\ k.owed["send"] = 0
      BY <1>3 DEF k, Ops
    <3>2. \A op \in Ops : k.owed[op] = One(Pending(k, op))
      BY <3>1, OwedByKind
    <3>3. OpenInv(t)'
      BY <1>4, <2>1, <3>1 DEF OpenInv
    <3>4. OperationInv(t)'
      BY <1>4, <2>1, <3>1, <3>2 DEF OperationInv
    <3>5. WakeInv(t)'
      BY <1>4, <2>1, <3>1 DEF WakeInv
    <3> QED BY <3>3, <3>4, <3>5
  <2>2. CASE t # s
    <3>1. OpenInv(t) /\ OperationInv(t) /\ WakeInv(t) /\ sock'[t] = sock[t]
      BY <1>4, <2>2 DEF IInv, SocketsInv
    <3>2. OpenInv(t)'
      BY <1>1, <3>1 DEF OpenInv
    <3>3. OperationInv(t)'
      BY <3>1 DEF OperationInv
    <3>4. WakeInv(t)'
      BY <1>1, <3>1 DEF WakeInv, Armed, Collected, Halfway, Lock
    <3> QED BY <3>2, <3>3, <3>4
  <2> QED BY <2>1, <2>2
<1>8. AnswerInv' /\ StackInv' /\ CompletionsAreTrue'
  BY <1>1, NoFrames DEF AnswerInv, StackInv, CompletionsAreTrue
<1> QED BY <1>1, <1>5, <1>6, <1>7, <1>8 DEF IInv, SocketsInv

\* The kernel's side of a connection goes on; an answer that was given stays.
LEMMA KernelKeeps ==
    ASSUME IInv, NEW s \in Sockets, Kernel(s)
    PROVE  IInv'
<1> DEFINE k == sock[s]
           n == sock'[s]
<1>1. UNCHANGED <<registrations, ready, stack, polled, budget>> /\ k \in Socket
  BY DEF Kernel, IInv, TypeOK
<1>2. /\ sock' \in [Sockets -> Socket]
      /\ \A t \in Sockets \ {s} : sock'[t] = sock[t]
      /\ n.exists = k.exists /\ n.fd = k.fd /\ n.connecting = k.connecting
      /\ n.receiving = k.receiving /\ n.remaining = k.remaining /\ n.owed = k.owed
      /\ n.taken = k.taken
      /\ \/ k.link = "pending" /\ n.link \in {"up", "refused"}
         \/ k.link = "up" /\ n.link \in {"up", "broken"}
  <2>1. CASE k.link = "pending" /\ \E l \in {"up", "refused"} : sock' = [sock EXCEPT ![s].link = l]
    <3>1. PICK l \in {"up", "refused"} : sock' = [sock EXCEPT ![s].link = l]
      BY <2>1
    <3> QED BY <2>1, <3>1 DEF IInv, TypeOK, Socket
  <2>2. CASE k.link = "up" /\ sock' = [sock EXCEPT ![s].link = "broken"]
    BY <2>2 DEF IInv, TypeOK, Socket
  <2>3. CASE k.link = "up" /\ sock' = [sock EXCEPT ![s].input = TRUE]
    BY <2>3 DEF IInv, TypeOK, Socket
  <2> QED BY <2>1, <2>2, <2>3 DEF Kernel
<1>3. TypeOK'
  BY <1>1, <1>2 DEF IInv, TypeOK
<1>4. \A t \in Sockets :
         /\ sock'[t].exists = sock[t].exists /\ sock'[t].fd = sock[t].fd
         /\ sock'[t].connecting = sock[t].connecting /\ sock'[t].receiving = sock[t].receiving
         /\ sock'[t].remaining = sock[t].remaining /\ sock'[t].owed = sock[t].owed
         /\ sock'[t].taken = sock[t].taken
         /\ sock[t].link # "none" => sock'[t].link # "none"
         /\ sock[t].link # "pending" => sock'[t].link # "pending"
         /\ sock[t].link \in {"up", "broken"} => sock'[t].link \in {"up", "broken"}
         /\ sock[t].link \in {"none", "refused", "broken"} =>
               sock'[t].link \in {"none", "refused", "broken"}
  BY <1>2
<1>5. RegistrationInv'
  BY <1>1, <1>4 DEF IInv, RegistrationInv
<1>6. ASSUME NEW t \in Sockets PROVE OpenInv(t)' /\ OperationInv(t)' /\ WakeInv(t)'
  <2>1. OpenInv(t) /\ OperationInv(t) /\ WakeInv(t)
    BY DEF IInv, SocketsInv
  <2>2. OpenInv(t)'
    <3>1. /\ sock'[t].exists = sock[t].exists /\ sock'[t].fd = sock[t].fd
          /\ sock'[t].connecting = sock[t].connecting /\ sock'[t].receiving = sock[t].receiving
          /\ sock'[t].remaining = sock[t].remaining
      BY <1>4
    <3> QED BY <1>1, <2>1, <3>1 DEF OpenInv
  <2>3. OperationInv(t)'
    <3>1. \A op \in Ops : sock'[t].owed[op] = One(Pending(sock'[t], op))
      BY <1>4, <2>1 DEF OperationInv, One, Pending, Ops
    <3> QED BY <1>4, <2>1, <3>1 DEF OperationInv
  <2>4. ASSUME NEW event, Collected(t, event) PROVE Collected(t, event)'
    BY <1>1, <1>4, <2>4 DEF Collected, Lock
  <2>5. ASSUME NEW event, Armed(t, event) PROVE Armed(t, event)'
    BY <1>1, <1>4, <2>5 DEF Armed
  <2>6. Halfway(t) => Halfway(t)'
    BY <1>1 DEF Halfway
  <2>7. WakeInv(t)'
    <3>1. /\ sock'[t].connecting = sock[t].connecting /\ sock'[t].receiving = sock[t].receiving
          /\ sock'[t].remaining = sock[t].remaining
      BY <1>4
    <3> QED BY <2>1, <2>4, <2>5, <2>6, <3>1 DEF WakeInv
  <2> QED BY <2>2, <2>3, <2>7
<1>7. AnswerInv'
  <2> SUFFICES ASSUME NEW e \in ready, NEW t \in Sockets,
                      Lock(e), e.fd = sock[t].fd, sock[t].connecting
               PROVE  sock'[t].link # "pending"
    BY <1>1, <1>4 DEF AnswerInv, Lock
  <2>1. sock[t].link # "pending"
    BY DEF IInv, AnswerInv
  <2> QED BY <1>4, <2>1
<1>8. StackInv'
  BY <1>1, <1>4 DEF IInv, StackInv
<1>9. CompletionsAreTrue'
  <2> SUFFICES ASSUME NEW f \in Frames(stack), f.call = "complete"
               PROVE  /\ f.op = "send" /\ f.result = "ok" => f.taken = SendSize
                      /\ f.op = "connect" /\ f.result = "ok" => sock'[f.sock].link \in {"up", "broken"}
                      /\ f.op = "connect" /\ f.result = "error" =>
                            sock'[f.sock].link \in {"none", "refused", "broken"}
    BY <1>1 DEF CompletionsAreTrue
  <2>1. f.sock \in Sockets
    BY DEF IInv, StackInv
  <2> QED BY <1>4, <2>1 DEF IInv, CompletionsAreTrue
<1> QED BY <1>1, <1>3, <1>5, <1>6, <1>7, <1>8, <1>9 DEF IInv, SocketsInv

---------------------------------------------------------------------------
(* The theorems.                                                           *)

\* Only the driver's descriptor is registered, and there is no socket.
LEMMA InitEstablishes ==
    ASSUME Init
    PROVE  IInv
<1> DEFINE h == CHOOSE x \in Handles : TRUE
           r == [handle |-> h, listener |-> Driver, events |-> {"readable"}, artificial |-> {}]
<1>1. h \in Handles
  <2>1. \E x \in Handles : TRUE
    BY SocketAssumption
  <2> QED BY <2>1, Zenon
<1> HIDE DEF h
<1>2. r \in Registration /\ Unregistered \in Registration
  BY <1>1, SocketAssumption DEF Registration, Unregistered, Events
<1>3. /\ r.handle # NoHandle /\ r.listener = Driver /\ r.artificial = {}
      /\ Driver \notin Sockets /\ Driver # NoListener
  BY <1>1, LoopAssumption, SocketAssumption
<1>4. /\ Unregistered.handle = NoHandle /\ Unregistered.listener = NoListener
      /\ Unregistered.artificial = {} /\ NoListener \notin Sockets
  BY LoopAssumption, SocketAssumption DEF Unregistered
<1>5. registrations = [fd \in Fds |-> IF fd = DriverFd THEN r ELSE Unregistered]
  BY DEF Init, h
<1>6. /\ ready = {} /\ sock = [s \in Sockets |-> Destroyed] /\ stack = <<>>
      /\ polled = FALSE /\ budget = 0
  BY DEF Init
<1> HIDE DEF r
<1>7. registrations \in [Fds -> Registration]
  BY <1>2, <1>5
<1>8. Destroyed \in Socket
  <2>1. 0 \in 0..SendSize
    BY SocketAssumption
  <2> QED BY <2>1 DEF Destroyed, Socket
<1>9. TypeOK
  <2>1. sock \in [Sockets -> Socket]
    BY <1>6, <1>8
  <2>2. polled \in BOOLEAN
    BY <1>6
  <2>4. ready \subseteq ReadyListEntry
    BY <1>6
  <2>5. stack \in Seq(Frame)
    BY <1>6
  <2>3. budget \in 0..MaxCalls
    BY <1>6, SocketAssumption
  <2> QED BY <1>7, <2>1, <2>2, <2>3, <2>4, <2>5 DEF TypeOK
<1>10. RegistrationInv
  <2> SUFFICES ASSUME NEW fd \in Fds
               PROVE  /\ registrations[fd].handle = NoHandle
                             <=> registrations[fd].listener = NoListener
                      /\ registrations[fd].listener = Driver <=> fd = DriverFd
                      /\ registrations[fd].listener \notin Sockets
                      /\ registrations[fd].artificial = {}
    BY DEF RegistrationInv
  <2>1. CASE fd = DriverFd
    <3>1. registrations[fd] = r
      BY <1>5, <2>1
    <3> QED BY <1>3, <2>1, <3>1
  <2>2. CASE fd # DriverFd
    <3>1. registrations[fd] = Unregistered
      BY <1>5, <2>2
    <3> QED BY <1>3, <1>4, <2>2, <3>1
  <2> QED BY <2>1, <2>2
<1>11. ASSUME NEW s \in Sockets PROVE OpenInv(s) /\ OperationInv(s) /\ WakeInv(s)
  <2> DEFINE k == sock[s]
  <2>1. /\ k.fd = NoFd /\ ~k.connecting /\ ~k.receiving /\ k.remaining = 0
        /\ k.owed["connect"] = 0 /\ k.owed["receive"] = 0 /\ k.owed["send"] = 0
    BY <1>6 DEF Destroyed, Ops
  <2>2. \A op \in Ops : k.owed[op] = One(Pending(k, op))
    BY <2>1, OwedByKind
  <2>3. OpenInv(s)
    BY <2>1 DEF OpenInv
  <2>4. OperationInv(s)
    BY <2>1, <2>2 DEF OperationInv
  <2>5. WakeInv(s)
    BY <2>1 DEF WakeInv
  <2> QED BY <2>3, <2>4, <2>5
<1>12. AnswerInv /\ StackInv /\ CompletionsAreTrue
  BY <1>6, NoFrames DEF AnswerInv, StackInv, CompletionsAreTrue
<1> QED BY <1>6, <1>9, <1>10, <1>11, <1>12 DEF IInv, SocketsInv

\* Every step of the sockets, the loop, the owner and the kernel preserves it.
LEMMA StepKeeps ==
    ASSUME IInv, [Next]_vars
    PROVE  IInv'
<1>1. CASE UNCHANGED vars
  <2>1. UNCHANGED <<registrations, ready, sock, stack, polled, budget>>
    BY <1>1 DEF vars
  <2>2. TypeOK'
    BY <2>1 DEF IInv, TypeOK
  <2>3. ready' # {} => polled'
    BY <2>1 DEF IInv
  <2>4. QuietRegistrations
    BY <2>1 DEF QuietRegistrations
  <2> QED BY <2>1, <2>2, <2>3, <2>4, QuietStep
<1>2. ASSUME NEW s \in Sockets,
             \/ Accept(s) \/ ConnectAsync(s) \/ ReceiveAsync(s) \/ SendAsync(s)
             \/ Disconnect(s) \/ Destroy(s) \/ Kernel(s)
      PROVE  IInv'
  BY <1>2, AcceptKeeps, ConnectAsyncKeeps, ReceiveAsyncKeeps, SendAsyncKeeps,
     DisconnectKeeps, DestroyKeeps, KernelKeeps
<1>3. CASE Returns
  BY <1>3, ReturnsKeeps
<1>4. CASE OnSocketEventSends
  BY <1>4, OnSocketEventSendsKeeps
<1>5. CASE ProcessIoEvents
  BY <1>5, ProcessIoEventsKeeps
<1>6. CASE RunReadyCallback
  BY <1>6, RunReadyCallbackKeeps
<1>7. CASE ProcessAlarms
  BY <1>7, ProcessAlarmsKeeps
<1> QED BY <1>1, <1>2, <1>3, <1>4, <1>5, <1>6, <1>7 DEF Next

\* The invariant holds throughout.
LEMMA Inductive == Spec => []IInv
<1>1. Init => IInv
  BY InitEstablishes
<1>2. IInv /\ [Next]_vars => IInv'
  BY StepKeeps
<1> QED BY <1>1, <1>2, PTL DEF Spec

\* It says that a socket keeps its promises.
LEMMA Promises == IInv => SocketInv
<1> SUFFICES ASSUME IInv PROVE SocketInv
  OBVIOUS
<1>1. TypeOK
  BY DEF IInv
<1>2. OneCompletionPerOperation
  BY DEF IInv, SocketsInv, OperationInv, OneCompletionPerOperation
<1>3. RegisteredWhileOpen
  <2>1. ASSUME NEW s \in Sockets
        PROVE  /\ IF sock[s].fd = NoFd
                  THEN ~sock[s].connecting /\ ~sock[s].receiving /\ sock[s].remaining = 0
                  ELSE registrations[sock[s].fd].listener = s
               /\ sock[s].fd # NoFd => sock[s].exists
    <3>1. OpenInv(s)
      BY DEF IInv, SocketsInv
    <3> QED BY <3>1 DEF OpenInv
  <2>2. ASSUME NEW fd \in Fds, registrations[fd].listener \in Sockets
        PROVE  /\ sock[registrations[fd].listener].exists
               /\ sock[registrations[fd].listener].fd = fd
    <3>1. sock[registrations[fd].listener].fd = fd /\ fd # NoFd
      BY <2>2, SocketAssumption DEF IInv, RegistrationInv
    <3> QED BY <2>1, <2>2, <3>1
  <2> QED BY <2>1, <2>2 DEF RegisteredWhileOpen
<1>4. PendingIsArmed
  <2> SUFFICES ASSUME stack = <<>>, ready = {}, NEW s \in Sockets
               PROVE  /\ sock[s].receiving => "readable" \in registrations[sock[s].fd].events
                      /\ sock[s].remaining > 0 \/ sock[s].connecting =>
                            "writable" \in registrations[sock[s].fd].events
    BY DEF PendingIsArmed
  <2>1. WakeInv(s) /\ ~Halfway(s) /\ \A event : ~Collected(s, event)
    BY NoFrames DEF IInv, SocketsInv, Halfway, Collected
  <2> QED BY <2>1 DEF WakeInv, Armed
<1> QED BY <1>1, <1>2, <1>3, <1>4 DEF SocketInv

\* Whatever visitors and drivers do from inside callbacks, every operation of
\* a QuictunAcceptedTcpSocket or an EventLoopConnectingClientSocket is reported
\* once, is armed while it is pending, and none is left on a closed socket.
THEOREM SocketSafety == Spec => []SocketInv
  BY Inductive, Promises, PTL

\* Whatever is closed and reopened while events are on the ready list, a send
\* is reported complete only when the kernel has taken all of it, and a connect
\* only with the answer the kernel gave to it.
THEOREM TruthfulCompletions == Spec => []CompletionsAreTrue
<1>1. IInv => CompletionsAreTrue
  BY DEF IInv
<1> QED BY <1>1, Inductive, PTL
===========================================================================
