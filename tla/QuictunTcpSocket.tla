-------------------------- MODULE QuictunTcpSocket --------------------------
(***************************************************************************)
(* The two TCP sockets of quictun over the poll event loop:                *)
(* QuictunAcceptedTcpSocket on a descriptor the listener accepted, and     *)
(* EventLoopConnectingClientSocket, which dials.  Connect, receive and     *)
(* send complete inline or when a one-shot event comes; from inside a      *)
(* completion the visitor may start operations and disconnect, on this     *)
(* socket or on another.  stack holds the callbacks that have not returned *)
(* and the rest of the calls they interrupt, innermost first.  The drivers *)
(* are reduced to one more listener, which may do what a visitor may.      *)
(***************************************************************************)
EXTENDS QuicPollEventLoop, Integers, Sequences

CONSTANTS
    Sockets,    \* socket objects that exist at a time
    Driver,     \* the driver, listener of its own descriptor
    DriverFd,   \* the descriptor of its listening or UDP socket
    NoFd,       \* kInvalidSocketFd
    SendSize,   \* bytes of one send
    MaxCalls    \* bound on the calls made from the callbacks of one event

ASSUME SocketAssumption ==
    /\ Listeners = Sockets \cup {Driver} /\ Driver \notin Sockets
    /\ Handles # {}
    /\ DriverFd \in Fds /\ NoFd \notin Fds
    /\ SendSize \in Nat \ {0} /\ MaxCalls \in Nat

VARIABLES
    sock,       \* the socket objects, and what the kernel knows of each
    stack,      \* calls that have not returned
    polled,     \* RunEventLoopOnce() is past its poll()
    budget      \* calls the current callbacks may still make

vars == <<registrations, ready, sock, stack, polled, budget>>

Ops == {"connect", "receive", "send"}

\* A socket object.  sending (send_data_ has a value) is remaining > 0.
\* owed: operations started less completions delivered, by kind.
\* taken: bytes of the current send the kernel has taken.
\* link: the kernel's connection, once there is one; input: it has data, or
\* the end of it, to read.
Socket ==
    [exists : BOOLEAN, fd : Fds \cup {NoFd},
     connecting : BOOLEAN, receiving : BOOLEAN, remaining : 0..SendSize,
     owed : [Ops -> Int], taken : Nat,
     link : {"none", "pending", "up", "refused", "broken"},
     input : BOOLEAN]

Destroyed ==
    [exists |-> FALSE, fd |-> NoFd,
     connecting |-> FALSE, receiving |-> FALSE, remaining |-> 0,
     owed |-> [op \in Ops |-> 0], taken |-> 0, link |-> "none", input |-> FALSE]

\* A socket object as it is constructed; op is what its owner asks of it first.
NewSocket(fd, link, op) ==
    [exists |-> TRUE, fd |-> fd,
     connecting |-> FALSE, receiving |-> FALSE, remaining |-> 0,
     owed |-> [o \in Ops |-> IF o = op THEN 1 ELSE 0], taken |-> 0,
     link |-> link, input |-> FALSE]

Init ==
    /\ registrations = [fd \in Fds |->
          IF fd = DriverFd
          THEN [handle |-> CHOOSE h \in Handles : TRUE, listener |-> Driver,
                events |-> {"readable"}, artificial |-> {}]
          ELSE Unregistered]
    /\ ready = {}
    /\ sock = [s \in Sockets |-> Destroyed]
    /\ stack = <<>>
    /\ polled = FALSE
    /\ budget = 0

\* Frames: a completion of the visitor; the send half of OnSocketEvent()
\* still to come; an event or alarm of a driver.
Completion(s, op, result, n) ==
    [call |-> "complete", sock |-> s, op |-> op, result |-> result, taken |-> n]
SendHalf(s) == [call |-> "sendHalf", sock |-> s, op |-> "send", result |-> "ok", taken |-> 0]
DriverFrame == [call |-> "driver", sock |-> Driver, op |-> "send", result |-> "ok", taken |-> 0]

\* A driver, or a visitor inside a completion that is not a cancellation,
\* makes a call.
Calls ==
    /\ stack # <<>> /\ Head(stack).call # "sendHalf" /\ Head(stack).result # "cancelled"
    /\ budget > 0
    /\ budget' = budget - 1
    /\ UNCHANGED <<ready, polled>>

\* The operation is over, as k says, and the visitor is told.
Completes(s, k, op, result, rest) ==
    /\ sock' = [sock EXCEPT ![s] = [k EXCEPT !.owed[op] = @ - 1,
                                             !.taken = IF op = "send" THEN 0 ELSE @]]
    /\ stack' = <<Completion(s, op, result, IF op = "send" THEN k.taken ELSE 0)>> \o rest

\* The operation goes on, as k says, when one of these events comes.
Rearms(s, k, events, rest) ==
    /\ sock' = [sock EXCEPT ![s] = k]
    /\ registrations' = RearmSocket(k.fd, events)
    /\ stack' = rest

---------------------------------------------------------------------------

\* What a read on the descriptor finds.
Readable(k) == k.link = "broken" \/ k.input

\* Mutant of TryReceive: nobody asks for the event.
TryReceiveUnarmed(s, k, rest) ==
    IF Readable(k)
    THEN \E left \in {FALSE, k.input} :
            /\ Completes(s, [k EXCEPT !.receiving = FALSE, !.input = left], "receive",
                         IF k.link = "broken" THEN "error" ELSE "ok", rest)
            /\ UNCHANGED registrations
    ELSE Rearms(s, [k EXCEPT !.receiving = TRUE], {}, rest)

\* ReceiveInternal() and FinishOrRearmAsyncReceive(): some or all of the data,
\* the end of it or an error; or nothing yet.
TryReceive(s, k, rest) ==
    IF Readable(k)
    THEN \E left \in {FALSE, k.input} :
            /\ Completes(s, [k EXCEPT !.receiving = FALSE, !.input = left], "receive",
                         IF k.link = "broken" THEN "error" ELSE "ok", rest)
            /\ UNCHANGED registrations
    ELSE Rearms(s, [k EXCEPT !.receiving = TRUE], {"readable", "error"}, rest)

\* SendInternal() and FinishOrRearmAsyncSend(): the kernel takes all of what is
\* left, some of it or nothing, or fails.
TrySend(s, k, left, rest) ==
    IF k.link = "broken"
    THEN /\ Completes(s, [k EXCEPT !.remaining = 0], "send", "error", rest)
         /\ UNCHANGED registrations
    ELSE \E n \in 0..left :
            LET new == [k EXCEPT !.remaining = left - n, !.taken = @ + n]
            IN  \/ /\ n = left
                   /\ Completes(s, new, "send", "ok", rest)
                   /\ UNCHANGED registrations
                \/ /\ n < left
                   /\ Rearms(s, new, {"writable", "error"}, rest)

ReceiveAsync(s) ==
    /\ Calls
    /\ sock[s].fd # NoFd /\ ~sock[s].connecting /\ ~sock[s].receiving
    /\ TryReceive(s, [sock[s] EXCEPT !.owed["receive"] = @ + 1], stack)

SendAsync(s) ==
    /\ Calls
    /\ sock[s].fd # NoFd /\ ~sock[s].connecting /\ sock[s].remaining = 0
    /\ TrySend(s, [sock[s] EXCEPT !.owed["send"] = @ + 1, !.taken = 0], SendSize, stack)

\* A socket for an accepted descriptor: registered, with nothing armed.
Accept(s) ==
    /\ Calls
    /\ ~sock[s].exists /\ Unused # {}
    /\ \E fd \in FreeFds :
          /\ sock' = [sock EXCEPT ![s] = NewSocket(fd, "up", "none")]
          /\ registrations' = RegisterSocket(fd, s, {})
    /\ UNCHANGED stack

\* A socket that is to dial, and its ConnectAsync(): Open() or connect() fails
\* at once, connects at once, or is under way.
ConnectAsync(s) ==
    /\ Calls
    /\ ~sock[s].exists /\ Unused # {}
    /\ \/ /\ Completes(s, NewSocket(NoFd, "none", "connect"), "connect", "error", stack)
          /\ UNCHANGED registrations
       \/ \E fd \in FreeFds :
             \/ /\ Completes(s, NewSocket(fd, "up", "connect"), "connect", "ok", stack)
                /\ registrations' = RegisterSocket(fd, s, {})
             \/ /\ sock' = [sock EXCEPT ![s] = [NewSocket(fd, "pending", "connect")
                                                  EXCEPT !.connecting = TRUE]]
                /\ registrations' = RegisterSocket(fd, s, {"writable", "error"})
                /\ UNCHANGED stack

\* Mutant of Disconnect: a pending receive is dropped without a callback.
DisconnectSilent(s) ==
    /\ Calls
    /\ sock[s].fd # NoFd
    /\ registrations' = UnregisterSocket(sock[s].fd)
    /\ sock' = [sock EXCEPT ![s].fd = NoFd, ![s].connecting = FALSE,
                            ![s].receiving = FALSE, ![s].remaining = 0]
    /\ UNCHANGED stack

\* The operations a socket has pending, in the order Disconnect() reports them.
Pending(k, op) ==
    CASE op = "connect" -> k.connecting
      [] op = "receive" -> k.receiving
      [] op = "send" -> k.remaining > 0

One(b) == IF b THEN 1 ELSE 0

\* Disconnect(): every operation is over before any is reported cancelled.
Disconnect(s) ==
    /\ Calls
    /\ sock[s].fd # NoFd
    /\ registrations' = UnregisterSocket(sock[s].fd)
    /\ LET k == sock[s]
           Cancelled(op) == IF Pending(k, op) THEN <<Completion(s, op, "cancelled", 0)>> ELSE <<>>
       IN  /\ sock' = [sock EXCEPT ![s] =
                 [k EXCEPT !.fd = NoFd, !.connecting = FALSE, !.receiving = FALSE,
                           !.remaining = 0,
                           !.owed = [op \in Ops |-> @[op] - One(Pending(k, op))]]]
           /\ stack' = Cancelled("connect") \o Cancelled("receive") \o Cancelled("send") \o stack

\* A callback returns.
Returns ==
    /\ stack # <<>> /\ Head(stack).call # "sendHalf"
    /\ stack' = Tail(stack)
    /\ budget' = IF Tail(stack) = <<>> THEN 0 ELSE budget
    /\ UNCHANGED <<registrations, ready, sock, polled>>

---------------------------------------------------------------------------

\* GetConnectResult(): what the pending error and the one-byte peek say.  On a
\* connection that is still under way either answer is wrong.
ConnectResults(k) ==
    CASE k.link = "up" -> {"ok"}
      [] k.link \in {"refused", "broken"} -> {"error"}
      [] OTHER -> {"ok", "error"}

\* OnSocketEvent() while connecting: FinishOrRearmAsyncConnect().
ConnectEvent(s) ==
    \E result \in ConnectResults(sock[s]) :
       /\ Completes(s, [sock[s] EXCEPT !.connecting = FALSE,
                                       !.fd = IF result = "ok" THEN @ ELSE NoFd],
                    "connect", result, <<>>)
       /\ IF result = "ok" THEN UNCHANGED registrations
          ELSE registrations' = UnregisterSocket(sock[s].fd)

\* OnSocketEvent(): the receive half; the send half comes after whatever the
\* visitor does.
OnSocketEvent(s, events) ==
    LET rest == IF events \cap {"writable", "error"} # {} THEN <<SendHalf(s)>> ELSE <<>>
    IN  IF sock[s].connecting /\ rest # <<>> THEN ConnectEvent(s)
        ELSE IF sock[s].receiving /\ events \cap {"readable", "error"} # {}
        THEN TryReceive(s, sock[s], rest)
        ELSE /\ stack' = rest
             /\ UNCHANGED <<sock, registrations>>

\* OnSocketEvent(), the send half, if something is still to be sent.
OnSocketEventSends ==
    /\ stack # <<>> /\ Head(stack).call = "sendHalf"
    /\ LET s == Head(stack).sock
       IN  IF sock[s].remaining > 0 THEN TrySend(s, sock[s], sock[s].remaining, Tail(stack))
           ELSE /\ stack' = Tail(stack)
                /\ UNCHANGED <<sock, registrations>>
    /\ budget' = IF stack' = <<>> THEN 0 ELSE budget
    /\ UNCHANGED <<ready, polled>>

\* A driver's own event: it asks for the next one, or pauses accepting.
DriverEvent ==
    /\ \/ registrations' = RearmSocket(DriverFd, {"readable"})
       \/ UNCHANGED registrations
    /\ stack' = <<DriverFrame>>
    /\ UNCHANGED sock

\* RunReadyCallbacks(), one entry.
RunReadyCallback ==
    /\ polled /\ stack = <<>>
    /\ \E e \in ready :
          /\ ready' = ready \ {e}
          /\ IF ~Lock(e) THEN UNCHANGED <<registrations, sock, stack>>
             ELSE IF registrations[e.fd].listener = Driver THEN DriverEvent
             ELSE OnSocketEvent(registrations[e.fd].listener, e.events)
    /\ budget' = IF stack' = <<>> THEN 0 ELSE MaxCalls
    /\ UNCHANGED polled

\* poll() on the descriptor of a socket; room: its send buffer has room, as it
\* does before anything was sent.
Reported(k, room) ==
    CASE k.link = "up" -> (IF k.input THEN {"readable"} ELSE {})
                          \cup (IF room \/ k.connecting THEN {"writable"} ELSE {})
      [] k.link = "pending" -> {}
      [] OTHER -> Events

\* ProcessIoEvents() up to the callbacks.
ProcessIoEvents ==
    /\ ~polled /\ stack = <<>>
    /\ \E room \in SUBSET Sockets, packets \in BOOLEAN :
          CollectReady([fd \in Fds |->
              IF registrations[fd].listener \in Sockets
              THEN LET s == registrations[fd].listener IN Reported(sock[s], s \in room)
              ELSE IF packets THEN {"readable"} ELSE {}])
    /\ polled' = TRUE
    /\ UNCHANGED <<sock, stack, budget>>

\* The rest of an iteration: alarms, among them the one that ends a pause of
\* accepting, which may call the sockets as well.
ProcessAlarms ==
    /\ polled /\ ready = {} /\ stack = <<>>
    /\ polled' = FALSE
    /\ \/ UNCHANGED registrations
       \/ /\ "readable" \notin registrations[DriverFd].events
          /\ registrations' = ArtificiallyNotifyEvent(DriverFd, {"readable"})
    /\ stack' = <<DriverFrame>>
    /\ budget' = MaxCalls
    /\ UNCHANGED <<ready, sock>>

\* The owner destroys a disconnected socket, outside the event loop.
Destroy(s) ==
    /\ ready = {} /\ stack = <<>>
    /\ sock[s].exists /\ sock[s].fd = NoFd
    /\ sock' = [sock EXCEPT ![s] = Destroyed]
    /\ UNCHANGED <<registrations, ready, stack, polled, budget>>

\* The kernel: a connection is made or refused, data or the end of it comes,
\* a connection breaks.
Kernel(s) ==
    /\ sock[s].fd # NoFd
    /\ \/ /\ sock[s].link = "pending"
          /\ \E l \in {"up", "refused"} : sock' = [sock EXCEPT ![s].link = l]
       \/ /\ sock[s].link = "up"
          /\ sock' = [sock EXCEPT ![s].link = "broken"]
       \/ /\ sock[s].link = "up" /\ ~sock[s].input
          /\ sock' = [sock EXCEPT ![s].input = TRUE]
    /\ UNCHANGED <<registrations, ready, stack, polled, budget>>

Next ==
    \/ \E s \in Sockets :
          \/ Accept(s) \/ ConnectAsync(s) \/ ReceiveAsync(s) \/ SendAsync(s)
          \/ Disconnect(s) \/ Destroy(s) \/ Kernel(s)
    \/ Returns \/ OnSocketEventSends
    \/ ProcessIoEvents \/ RunReadyCallback \/ ProcessAlarms

Spec == Init /\ [][Next]_vars

\* The thread goes on: callbacks return, and the loop goes round.
FairSpec ==
    /\ Spec
    /\ WF_vars(Returns) /\ WF_vars(OnSocketEventSends)
    /\ WF_vars(ProcessIoEvents) /\ WF_vars(RunReadyCallback) /\ WF_vars(ProcessAlarms)

---------------------------------------------------------------------------

Frames(st) == {st[i] : i \in DOMAIN st}

Frame == [call : {"complete", "sendHalf", "driver"}, sock : Listeners, op : Ops,
          result : {"ok", "error", "cancelled"}, taken : Nat]

TypeOK ==
    /\ registrations \in [Fds -> Registration]
    /\ ready \subseteq ReadyListEntry
    /\ sock \in [Sockets -> Socket]
    /\ stack \in Seq(Frame)
    /\ polled \in BOOLEAN
    /\ budget \in 0..MaxCalls

\* Every operation that was started is reported exactly once, or is still
\* pending: neither nested callbacks nor Disconnect() lose or repeat one.
OneCompletionPerOperation ==
    \A s \in Sockets : \A op \in Ops : sock[s].owed[op] = One(Pending(sock[s], op))

\* Descriptors and listeners agree: what is registered is open and its
\* listener exists; a disconnected socket is not registered and has nothing
\* pending.
RegisteredWhileOpen ==
    /\ \A fd \in Fds : registrations[fd].listener \in Sockets =>
          sock[registrations[fd].listener].exists
            /\ sock[registrations[fd].listener].fd = fd
    /\ \A s \in Sockets :
          IF sock[s].fd = NoFd
          THEN ~sock[s].connecting /\ ~sock[s].receiving /\ sock[s].remaining = 0
          ELSE registrations[sock[s].fd].listener = s

\* Between callbacks a pending operation has its events subscribed to: it can
\* be woken, whatever was consumed together with another operation's event.
PendingIsArmed ==
    stack = <<>> /\ ready = {} =>
        \A s \in Sockets :
            /\ sock[s].receiving => "readable" \in registrations[sock[s].fd].events
            /\ sock[s].remaining > 0 \/ sock[s].connecting =>
                  "writable" \in registrations[sock[s].fd].events

\* What a tunnel takes for granted of its socket: one completion for each
\* operation, a wake-up for each that is pending, no callback of a socket
\* that is gone.
SocketInv ==
    TypeOK /\ OneCompletionPerOperation /\ RegisteredWhileOpen /\ PendingIsArmed

\* What a completion reports is what happened, also when the event that led to
\* it was collected before its descriptor number was closed and given out
\* again: a send is complete when the kernel has taken all of it, a connect
\* when there is a connection; and a connect fails only when it was refused.
CompletionsAreTrue ==
    \A f \in Frames(stack) :
        f.call = "complete" =>
            /\ f.op = "send" /\ f.result = "ok" => f.taken = SendSize
            /\ f.op = "connect" /\ f.result = "ok" => sock[f.sock].link \in {"up", "broken"}
            /\ f.op = "connect" /\ f.result = "error" =>
                  sock[f.sock].link \in {"none", "refused", "broken"}

\* A receive that has something to report is reported, and so is a connect
\* that has its answer.
OperationsComplete ==
    \A s \in Sockets :
        /\ sock[s].receiving /\ Readable(sock[s]) ~> ~sock[s].receiving
        /\ sock[s].connecting /\ sock[s].link # "pending" ~> ~sock[s].connecting
===========================================================================
