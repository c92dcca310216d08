------------------------- MODULE QuicPollEventLoop -------------------------
(***************************************************************************)
(* QuicPollEventLoop: one-shot registrations of descriptors, and the list  *)
(* of callbacks that one poll() collects and RunReadyCallbacks() then      *)
(* runs.  A callback may close descriptors, and open new ones under the    *)
(* same numbers, while entries for them are still on the list; an entry    *)
(* holds a weak pointer to the Registration it was made from.  A handle is *)
(* the identity of a Registration.  The list is a set: its order is left   *)
(* open.                                                                   *)
(***************************************************************************)
EXTENDS Naturals

CONSTANTS
    Fds,        \* descriptor numbers
    Listeners,  \* QuicSocketEventListeners
    Handles     \* Registration objects, including freed ones still referred to

CONSTANTS NoHandle, NoListener

ASSUME LoopAssumption == NoHandle \notin Handles /\ NoListener \notin Listeners

VARIABLES
    registrations,  \* registrations_, with Unregistered for a number not in it
    ready           \* ready_list

Events == {"readable", "writable", "error"}

Unregistered ==
    [handle |-> NoHandle, listener |-> NoListener, events |-> {}, artificial |-> {}]

Registration ==
    [handle : Handles \cup {NoHandle}, listener : Listeners \cup {NoListener},
     events : SUBSET Events, artificial : SUBSET Events]

ReadyListEntry == [fd : Fds, handle : Handles, events : SUBSET Events]

---------------------------------------------------------------------------

\* A descriptor number is free for the kernel to give out.
FreeFds == {fd \in Fds : registrations[fd].handle = NoHandle}

\* A new Registration is none that is registered or referred to.  (Bound:
\* Handles; there must be one left.)
Unused == {h \in Handles : /\ \A fd \in Fds : registrations[fd].handle # h
                           /\ \A e \in ready : e.handle # h}

Fresh == CHOOSE h \in Handles : h \in Unused

\* RegisterSocket(), RearmSocket(), ArtificiallyNotifyEvent() and
\* UnregisterSocket(): the registrations after the call.
RegisterSocket(fd, listener, events) ==
    [registrations EXCEPT ![fd] =
        [handle |-> Fresh, listener |-> listener, events |-> events, artificial |-> {}]]

RearmSocket(fd, events) ==
    [registrations EXCEPT ![fd].events = @ \cup events]

ArtificiallyNotifyEvent(fd, events) ==
    [registrations EXCEPT ![fd].artificial = @ \cup events]

UnregisterSocket(fd) ==
    [registrations EXCEPT ![fd] = Unregistered]

---------------------------------------------------------------------------

\* DispatchIoEvent(): what of the events the kernel reports is delivered.
Delivered(fd, reported) ==
    (reported \cup registrations[fd].artificial)
        \cap (registrations[fd].events \cup registrations[fd].artificial)

\* ProcessIoEvents() up to the callbacks: everything armed that is reported
\* goes on the list and is no longer armed.  revents is poll()'s answer.
CollectReady(revents) ==
    /\ ready' = {[fd |-> fd, handle |-> registrations[fd].handle,
                  events |-> Delivered(fd, revents[fd])] :
                 fd \in {f \in Fds \ FreeFds : Delivered(f, revents[f]) # {}}}
    /\ registrations' =
         [fd \in Fds |-> [registrations[fd] EXCEPT
                            !.events = @ \ Delivered(fd, revents[fd]),
                            !.artificial = {}]]

\* Mutant of Lock: the entry is looked up by its descriptor number.
LockByNumber(e) == registrations[e.fd].handle # NoHandle

\* RunReadyCallbacks(): entry.registration.lock() succeeds.
Lock(e) == registrations[e.fd].handle = e.handle

===========================================================================
