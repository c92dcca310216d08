------------------ MODULE QuictunReusableSessionCacheProofs ------------------
(***************************************************************************)
(* The safety properties of QuictunReusableSessionCache, for any number of *)
(* connections, tickets and tokens and any lifetime.                       *)
(***************************************************************************)
EXTENDS QuictunReusableSessionCache, TLAPS

\* What the cache holds: at most one ticket, the parameters that came with it,
\* and a ticket good for early data is not one that was rejected.
CacheInv ==
    /\ \A s, t \in session : s = t
    /\ params = {s.id : s \in session}
    /\ \A s \in session : s.id <= issued /\ (s.early => s.id \notin rejected)

\* What was given away is not newer than what was issued.
GivenInv ==
    /\ \A c \in Conns : \A s \in conn[c].ticket : s.id <= issued
    /\ \A i \in rejected : i <= issued

\* The token in the cache is at most one, and not one that was given away.
TokenInv ==
    /\ \A i \in token : i <= tokens
    /\ \A c \in Conns : \A i \in conn[c].token : i <= tokens /\ i \notin token

\* The inductive invariant.
IInv ==
    /\ TypeOK
    /\ CacheInv
    /\ GivenInv
    /\ TokenInv
    /\ ResumptionIsConsistent
    /\ TokenUsedOnce
    /\ RejectedNotRetried

\* The cache starts empty.
LEMMA InitInv == Init => IInv
<1> SUFFICES ASSUME Init PROVE IInv
  OBVIOUS
<1>1. TypeOK
  <2>1. NewConn \in [at : {"new", "handshake"}, ticket : SUBSET Tickets,
                     params : SUBSET (1..MaxTickets), token : SUBSET (1..MaxTokens)]
    BY DEF NewConn
  <2>2. issued \in 0..MaxTickets /\ tokens \in 0..MaxTokens /\ now \in 0..MaxTime
    BY CacheAssumption DEF Init
  <2> QED
    BY <2>1, <2>2 DEF Init, TypeOK
<1>2. CacheInv /\ GivenInv /\ TokenInv
  BY DEF Init, CacheInv, GivenInv, TokenInv, NewConn
<1>3. ResumptionIsConsistent /\ TokenUsedOnce /\ RejectedNotRetried
  BY DEF Init, ResumptionIsConsistent, TokenUsedOnce, RejectedNotRetried, NewConn
<1> QED
  BY <1>1, <1>2, <1>3 DEF IInv

\* A valid entry is the whole entry: the cache holds one ticket at most.
LEMMA ValidIsAllOrNothing ==
    ASSUME CacheInv
    PROVE  Valid = {} \/ Valid = session
BY DEF CacheInv, Valid

\* Insert() puts in a ticket the server has just issued, so nobody has been
\* refused with it.
LEMMA InsertInv ==
    ASSUME IInv, NEW c \in Conns, NEW early \in BOOLEAN, Insert(c, now, early)
    PROVE  IInv'
<1>1. TypeOK'
  BY CacheAssumption DEF IInv, TypeOK, Insert, Tickets
<1>2. CacheInv'
  BY CacheAssumption DEF IInv, TypeOK, CacheInv, GivenInv, Insert, Tickets
<1>3. GivenInv'
  BY CacheAssumption DEF IInv, TypeOK, GivenInv, Insert, Tickets
<1>4. TokenInv' /\ ResumptionIsConsistent' /\ TokenUsedOnce' /\ RejectedNotRetried'
  BY DEF IInv, TokenInv, ResumptionIsConsistent, TokenUsedOnce, RejectedNotRetried, Insert
<1> QED
  BY <1>1, <1>2, <1>3, <1>4 DEF IInv

\* Lookup() gives away the ticket with its own parameters, and the token only
\* by taking it out of the cache.
LEMMA LookupInv ==
    ASSUME IInv, NEW c \in Conns, Lookup(c)
    PROVE  IInv'
<1> DEFINE ps == IF Valid = {} THEN {} ELSE params
           tk == IF Valid = {} THEN {} ELSE token
<1>1. Valid = {} \/ Valid = session
  BY ValidIsAllOrNothing DEF IInv
<1>2. Valid \in SUBSET Tickets /\ ps \in SUBSET (1..MaxTickets)
      /\ tk \in SUBSET (1..MaxTokens)
  BY <1>1 DEF IInv, TypeOK
<1>3. /\ conn' = [conn EXCEPT ![c] = [at |-> "handshake", ticket |-> Valid,
                                      params |-> ps, token |-> tk]]
      /\ conn \in [Conns -> [at : {"new", "handshake"}, ticket : SUBSET Tickets,
                     params : SUBSET (1..MaxTickets), token : SUBSET (1..MaxTokens)]]
  BY DEF Lookup, IInv, TypeOK
<1>4. /\ conn'[c].ticket = Valid /\ conn'[c].params = ps /\ conn'[c].token = tk
      /\ \A d \in Conns : d # c => conn'[d] = conn[d]
  BY <1>3
<1>5. /\ session' = Valid /\ UNCHANGED <<now, issued, tokens, rejected>>
      /\ params' = IF Valid = session THEN params ELSE {}
      /\ token' = IF Valid = {} THEN token ELSE {}
  BY DEF Lookup
<1>6. retried' = FALSE
  BY <1>1 DEF Lookup, IInv, RejectedNotRetried, CacheInv, TypeOK
<1>7. TypeOK'
  <2>1. conn' \in [Conns -> [at : {"new", "handshake"}, ticket : SUBSET Tickets,
                     params : SUBSET (1..MaxTickets), token : SUBSET (1..MaxTokens)]]
    BY <1>2, <1>3
  <2> QED
    BY <2>1, <1>2, <1>5, <1>6 DEF IInv, TypeOK
<1>8. CacheInv'
  BY <1>1, <1>5 DEF IInv, CacheInv
<1>9. GivenInv'
  BY <1>1, <1>4, <1>5 DEF IInv, CacheInv, GivenInv
<1>10. TokenInv'
  BY <1>4, <1>5 DEF IInv, TokenInv
<1>11. ResumptionIsConsistent'
  BY <1>1, <1>4 DEF IInv, CacheInv, ResumptionIsConsistent
<1>12. TokenUsedOnce'
  BY <1>4, <1>5 DEF IInv, TokenInv, TokenUsedOnce
<1> QED
  BY <1>6, <1>7, <1>8, <1>9, <1>10, <1>11, <1>12 DEF IInv, RejectedNotRetried

\* Tickets without their early data.
Stripped(T) == {[s EXCEPT !.early = FALSE] : s \in T}

\* A ticket without its early data is the same ticket otherwise.
LEMMA StrippedTicket ==
    ASSUME NEW T \in SUBSET Tickets
    PROVE  /\ Stripped(T) \in SUBSET Tickets
           /\ \A t \in Stripped(T) : ~t.early
           /\ {s.id : s \in Stripped(T)} = {s.id : s \in T}
           /\ (\A s, t \in T : s = t) => (\A s, t \in Stripped(T) : s = t)
<1>1. \A s \in T : /\ [s EXCEPT !.early = FALSE] \in Tickets
                   /\ [s EXCEPT !.early = FALSE].id = s.id
                   /\ [s EXCEPT !.early = FALSE].early = FALSE
  BY DEF Tickets
<1>2. Stripped(T) \in SUBSET Tickets /\ \A t \in Stripped(T) : ~t.early
  BY <1>1 DEF Stripped
<1>3. {s.id : s \in Stripped(T)} = {s.id : s \in T}
  BY <1>1 DEF Stripped
<1>4. (\A s, t \in T : s = t) => (\A s, t \in Stripped(T) : s = t)
  BY DEF Stripped
<1> QED
  BY <1>2, <1>3, <1>4

\* ClearEarlyData() strips whatever is cached, so neither the rejected ticket
\* nor a later one is handed out for early data until the next Insert().
LEMMA ClearEarlyDataInv ==
    ASSUME IInv, NEW c \in Conns, ClearEarlyData(c)
    PROVE  IInv'
<1>1. /\ session' = Stripped(session)
      /\ UNCHANGED <<params, token, now, issued, tokens, retried>>
      /\ conn' = [conn EXCEPT ![c].ticket = Stripped(conn[c].ticket)]
  BY DEF ClearEarlyData, Stripped
<1>2. PICK s \in conn[c].ticket : rejected' = rejected \cup {s.id}
  BY DEF ClearEarlyData
<1>3. session \in SUBSET Tickets /\ conn[c].ticket \in SUBSET Tickets
  BY DEF IInv, TypeOK
<1>4. /\ session' \in SUBSET Tickets
      /\ \A t \in session' : ~t.early
      /\ {t.id : t \in session'} = {t.id : t \in session}
      /\ (\A t, u \in session : t = u) => (\A t, u \in session' : t = u)
  BY <1>1, <1>3, StrippedTicket
<1>5. /\ Stripped(conn[c].ticket) \in SUBSET Tickets
      /\ {t.id : t \in Stripped(conn[c].ticket)} = {t.id : t \in conn[c].ticket}
  BY <1>3, StrippedTicket
<1>6. conn \in [Conns -> [at : {"new", "handshake"}, ticket : SUBSET Tickets,
                     params : SUBSET (1..MaxTickets), token : SUBSET (1..MaxTokens)]]
  BY DEF IInv, TypeOK
<1>7. /\ conn' \in [Conns -> [at : {"new", "handshake"}, ticket : SUBSET Tickets,
                     params : SUBSET (1..MaxTickets), token : SUBSET (1..MaxTokens)]]
      /\ conn'[c].ticket = Stripped(conn[c].ticket)
      /\ \A d \in Conns : /\ conn'[d].params = conn[d].params
                          /\ conn'[d].token = conn[d].token
                          /\ d # c => conn'[d].ticket = conn[d].ticket
  BY <1>1, <1>5, <1>6
<1>8. s.id \in 1..MaxTickets /\ s.id <= issued
  BY <1>3 DEF Tickets, IInv, GivenInv
<1>9. TypeOK'
  BY <1>1, <1>2, <1>4, <1>7, <1>8 DEF IInv, TypeOK
<1>10. CacheInv'
  <2>1. \A t \in session' : t.id <= issued'
    BY <1>1, <1>4 DEF IInv, CacheInv
  <2> QED
    BY <2>1, <1>1, <1>4 DEF IInv, CacheInv
<1>11. GivenInv'
  <2>1. \A t \in Stripped(conn[c].ticket) : t.id <= issued
    BY <1>5 DEF IInv, GivenInv
  <2> QED
    BY <2>1, <1>1, <1>2, <1>7, <1>8 DEF IInv, GivenInv
<1>12. TokenInv' /\ TokenUsedOnce' /\ RejectedNotRetried'
  BY <1>1, <1>7 DEF IInv, TokenInv, TokenUsedOnce, RejectedNotRetried
<1>13. ResumptionIsConsistent'
  <2> SUFFICES ASSUME NEW d \in Conns
               PROVE  conn'[d].params = {t.id : t \in conn'[d].ticket}
    BY DEF ResumptionIsConsistent
  <2>1. conn[d].params = {t.id : t \in conn[d].ticket}
    BY DEF IInv, ResumptionIsConsistent
  <2> QED
    BY <2>1, <1>5, <1>7
<1> QED
  BY <1>9, <1>10, <1>11, <1>12, <1>13 DEF IInv

\* OnNewTokenReceived() replaces the token by one nobody has been given.
LEMMA OnNewTokenReceivedInv ==
    ASSUME IInv, NEW c \in Conns, OnNewTokenReceived(c)
    PROVE  IInv'
<1>1. TypeOK'
  BY CacheAssumption DEF IInv, TypeOK, OnNewTokenReceived
<1>2. TokenInv'
  BY CacheAssumption DEF IInv, TypeOK, TokenInv, OnNewTokenReceived
<1>3. CacheInv' /\ GivenInv' /\ ResumptionIsConsistent' /\ TokenUsedOnce' /\ RejectedNotRetried'
  BY DEF IInv, CacheInv, GivenInv, ResumptionIsConsistent, TokenUsedOnce,
         RejectedNotRetried, OnNewTokenReceived
<1> QED
  BY <1>1, <1>2, <1>3 DEF IInv

\* RemoveExpiredEntries(), Clear(), the clock and stuttering give nothing away.
LEMMA QuietInv ==
    ASSUME IInv, RemoveExpiredEntries \/ Clear \/ SetClock \/ UNCHANGED vars
    PROVE  IInv'
<1>1. CASE RemoveExpiredEntries
  BY <1>1 DEF RemoveExpiredEntries, IInv, TypeOK, CacheInv, GivenInv, TokenInv,
              ResumptionIsConsistent, TokenUsedOnce, RejectedNotRetried
<1>2. CASE Clear
  BY <1>2 DEF Clear, IInv, TypeOK, CacheInv, GivenInv, TokenInv,
              ResumptionIsConsistent, TokenUsedOnce, RejectedNotRetried
<1>3. CASE SetClock
  BY <1>3 DEF SetClock, IInv, TypeOK, CacheInv, GivenInv, TokenInv,
              ResumptionIsConsistent, TokenUsedOnce, RejectedNotRetried
<1>4. CASE UNCHANGED vars
  BY <1>4 DEF vars, IInv, TypeOK, CacheInv, GivenInv, TokenInv,
              ResumptionIsConsistent, TokenUsedOnce, RejectedNotRetried
<1> QED
  BY <1>1, <1>2, <1>3, <1>4

\* The invariant is inductive, so it always holds.
LEMMA Invariance == Spec => []IInv
<1>1. IInv /\ [Next]_vars => IInv'
  BY InsertInv, LookupInv, ClearEarlyDataInv, OnNewTokenReceivedInv, QuietInv
     DEF Next
<1> QED
  BY <1>1, InitInv, PTL DEF Spec

\* Every connection resumes with the parameters of the ticket it was given.
THEOREM Consistency == Spec => []ResumptionIsConsistent
BY Invariance, PTL DEF IInv

\* An address validation token is never given to two connections.
THEOREM TokensAreSingleUse == Spec => []TokenUsedOnce
BY Invariance, PTL DEF IInv

\* Early data that the server has rejected under a ticket is not attempted
\* under it again by a connection that looks the ticket up later.
THEOREM RejectionIsHeeded == Spec => []RejectedNotRetried
BY Invariance, PTL DEF IInv
===========================================================================
