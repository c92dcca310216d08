--------------------- MODULE QuictunReusableSessionCache ---------------------
(***************************************************************************)
(* QuictunReusableSessionCache: the one resumption ticket that all the     *)
(* connections of a client share.  A connection looks the ticket up when   *)
(* it starts its handshake, may learn that its early data is rejected, and *)
(* inserts the tickets and tokens that the server sends it, while others   *)
(* are at any other point of theirs.                                       *)
(***************************************************************************)
EXTENDS Naturals

CONSTANTS
    Conns,        \* connections
    MaxTickets,   \* bound on the tickets the server issues
    MaxTokens,    \* bound on the address validation tokens it issues
    Lifetime,     \* seconds a ticket is valid
    MaxTime       \* bound on the wall clock, in seconds

ASSUME CacheAssumption ==
    MaxTickets \in Nat /\ MaxTokens \in Nat /\ Lifetime \in Nat /\ MaxTime \in Nat

VARIABLES
    session,      \* session_: at most one ticket
    params,       \* params_ and application_state_, by the ticket they came with
    token,        \* token_: at most one token
    now,          \* the wall clock, which may be set back
    issued,       \* tickets issued
    tokens,       \* tokens issued
    conn,         \* what each connection got from Lookup(), and where it is
    rejected,     \* tickets whose early data the server has rejected
    retried       \* a ticket was handed out for early data after its rejection

vars == <<session, params, token, now, issued, tokens, conn, rejected,
          retried>>

Tickets == [id : 1..MaxTickets, time : 0..MaxTime, early : BOOLEAN]

\* A connection: tickets, params and tokens are sets of at most one.
NewConn == [at |-> "new", ticket |-> {}, params |-> {}, token |-> {}]

Init ==
    /\ session = {} /\ params = {} /\ token = {}
    /\ now \in 0..MaxTime
    /\ issued = 0 /\ tokens = 0
    /\ conn = [c \in Conns |-> NewConn]
    /\ rejected = {} /\ retried = FALSE

\* IsSessionStillValid().
IsSessionStillValid(s) == ~(now + 1 < s.time \/ now >= s.time + Lifetime)

Valid == {s \in session : IsSessionStillValid(s)}

---------------------------------------------------------------------------

\* Mutant of Insert: the parameters of an earlier ticket are kept.
InsertKeepsParams(c, time, early) ==
    /\ conn[c].at = "handshake" /\ issued < MaxTickets
    /\ issued' = issued + 1
    /\ session' = {[id |-> issued + 1, time |-> time, early |-> early]}
    /\ params' = IF params = {} THEN {issued + 1} ELSE params
    /\ UNCHANGED <<token, now, tokens, conn, rejected, retried>>

\* Insert(): the server sends connection c a ticket, stamped with the time.
Insert(c, time, early) ==
    /\ conn[c].at = "handshake" /\ issued < MaxTickets
    /\ issued' = issued + 1
    /\ session' = {[id |-> issued + 1, time |-> time, early |-> early]}
    /\ params' = {issued + 1}
    /\ UNCHANGED <<token, now, tokens, conn, rejected, retried>>

\* Mutant of Lookup: the token is kept, as the ticket is.
LookupKeepsToken(c) ==
    /\ conn[c].at = "new"
    /\ session' = Valid
    /\ params' = IF Valid = session THEN params ELSE {}
    /\ UNCHANGED token
    /\ conn' = [conn EXCEPT ![c] = [at |-> "handshake", ticket |-> Valid,
                   params |-> IF Valid = {} THEN {} ELSE params,
                   token |-> IF Valid = {} THEN {} ELSE token]]
    /\ retried' = (retried \/ \E s \in Valid : s.early /\ s.id \in rejected)
    /\ UNCHANGED <<now, issued, tokens, rejected>>

\* Lookup(): connection c starts its handshake.  An expired ticket goes, the
\* token stays; the token is given away with a valid ticket only, and once.
Lookup(c) ==
    /\ conn[c].at = "new"
    /\ session' = Valid
    /\ params' = IF Valid = session THEN params ELSE {}
    /\ token' = IF Valid = {} THEN token ELSE {}
    /\ conn' = [conn EXCEPT ![c] = [at |-> "handshake", ticket |-> Valid,
                   params |-> IF Valid = {} THEN {} ELSE params,
                   token |-> IF Valid = {} THEN {} ELSE token]]
    /\ retried' = (retried \/ \E s \in Valid : s.early /\ s.id \in rejected)
    /\ UNCHANGED <<now, issued, tokens, rejected>>

\* Mutant of ClearEarlyData: only the copy the connection holds is changed.
ClearEarlyDataOfOne(c) ==
    /\ conn[c].at = "handshake"
    /\ \E s \in conn[c].ticket : s.early /\ rejected' = rejected \cup {s.id}
    /\ conn' = [conn EXCEPT ![c].ticket = {[s EXCEPT !.early = FALSE] : s \in @}]
    /\ UNCHANGED <<session, params, token, now, issued, tokens, retried>>

\* ClearEarlyData(): the server rejects the early data of connection c; what
\* is cached, that ticket or a later one, is replaced by a copy without it.
ClearEarlyData(c) ==
    /\ conn[c].at = "handshake"
    /\ \E s \in conn[c].ticket : s.early /\ rejected' = rejected \cup {s.id}
    /\ session' = {[s EXCEPT !.early = FALSE] : s \in session}
    /\ conn' = [conn EXCEPT ![c].ticket = {[s EXCEPT !.early = FALSE] : s \in @}]
    /\ UNCHANGED <<params, token, now, issued, tokens, retried>>

\* OnNewTokenReceived(), of a token that is not empty.
OnNewTokenReceived(c) ==
    /\ conn[c].at = "handshake" /\ tokens < MaxTokens
    /\ tokens' = tokens + 1
    /\ token' = {tokens + 1}
    /\ UNCHANGED <<session, params, now, issued, conn, rejected, retried>>

\* RemoveExpiredEntries().
RemoveExpiredEntries ==
    /\ session # Valid
    /\ session' = {} /\ params' = {}
    /\ UNCHANGED <<token, now, issued, tokens, conn, rejected, retried>>

\* Clear().
Clear ==
    /\ session' = {} /\ params' = {} /\ token' = {}
    /\ UNCHANGED <<now, issued, tokens, conn, rejected, retried>>

\* The wall clock moves, in either direction.
SetClock ==
    /\ now' \in 0..MaxTime
    /\ UNCHANGED <<session, params, token, issued, tokens, conn,
                   rejected, retried>>

Next ==
    \/ \E c \in Conns :
          \/ \E early \in BOOLEAN : Insert(c, now, early)
          \/ Lookup(c) \/ ClearEarlyData(c) \/ OnNewTokenReceived(c)
    \/ RemoveExpiredEntries \/ Clear \/ SetClock

Spec == Init /\ [][Next]_vars

---------------------------------------------------------------------------

TypeOK ==
    /\ retried \in BOOLEAN
    /\ session \in SUBSET Tickets /\ params \in SUBSET (1..MaxTickets)
    /\ token \in SUBSET (1..MaxTokens)
    /\ now \in 0..MaxTime /\ issued \in 0..MaxTickets /\ tokens \in 0..MaxTokens
    /\ rejected \in SUBSET (1..MaxTickets)
    /\ conn \in [Conns -> [at : {"new", "handshake"}, ticket : SUBSET Tickets,
                           params : SUBSET (1..MaxTickets), token : SUBSET (1..MaxTokens)]]

\* A connection resumes with the transport parameters that came with the very
\* ticket it was given, however the cache was refilled, stripped of early data
\* or emptied in between.
ResumptionIsConsistent ==
    \A c \in Conns : conn[c].params = {s.id : s \in conn[c].ticket}

\* No two connections are given the same address validation token.
TokenUsedOnce ==
    \A c, d \in Conns : c # d => conn[c].token \cap conn[d].token = {}

\* Once the server has rejected early data under a ticket, no later connection
\* is given that ticket to send early data with, whoever learnt of the
\* rejection and whatever was cached meanwhile.
RejectedNotRetried == ~retried
===========================================================================
