------------------------ MODULE QuictunTunnelProofs ------------------------
(***************************************************************************)
(* QuictunTunnel implements QuictunRelay, and keeps the contracts of the   *)
(* socket and of Close(), for every size of the queue, every deadline and  *)
(* any number of chunks.                                                   *)
(***************************************************************************)
EXTENDS QuictunTunnel, SequenceTheorems, TLAPS

Chunk == Nat \ {0}

Tun == [started : BOOLEAN, closed : BOOLEAN, stalled : BOOLEAN, receiving : BOOLEAN,
        rcvDone : BOOLEAN, quicDone : BOOLEAN, disconnected : BOOLEAN,
        seed : Seq(Chunk), pending : Seq(Chunk), sending : Nat, alarm : Int]

Str == [unread : Seq(Chunk), fin : BOOLEAN, readClosed : BOOLEAN, rstReceived : BOOLEAN,
        pre : Int, buffered : Int, unacked : Int, finBuffered : BOOLEAN,
        finUnacked : BOOLEAN, writeClosed : BOOLEAN, rstSent : BOOLEAN,
        connected : BOOLEAN]

Sock == [state : {"new", "connecting", "connected", "failed", "closed"},
         avail : Int, given : Int, eof : BOOLEAN, err : BOOLEAN]

Typed ==
    /\ tun \in Tun /\ str \in Str /\ sock \in Sock
    /\ sent \in Nat /\ elapsed \in Int

\* Calls that can wait behind another one; all the others are made at once.
Later == {"BeginRead", "Flush", "Finalize", "AfterWrite", "UpdateIdleClass",
          "OnStreamCanWriteMore"}

\* Calls before Start(); a flush alarm could only find nothing to do.
Dialling == {"ConnectAsync", "ConnectOk", "ConnectFailed", "Start"}
Early == Dialling \cup {"OnStreamDataAvailable", "OnStreamCanWriteMore", "OnStreamGone",
                        "Finalize"}

StackInv ==
    /\ todo \in Seq(Calls)
    /\ ~Idle => Tail(todo) \in Seq(Later)
    /\ ~tun.started => todo \in Seq(Early)

\* What a call can rely on that is made at once.
CallInv ==
    /\ Step("SendOk") \/ Step("SendErr") => ~tun.closed /\ tun.sending # 0
    /\ Step("RcvErr") => ~tun.closed
    /\ Step("RcvEof") => sock.eof
    /\ Step("AfterQuicFin") => tun.pending = <<>> /\ tun.sending = 0

\* Where the socket is.
SocketInv ==
    /\ Step("ConnectAsync") => sock.state = "new" /\ ~tun.started /\ ~tun.closed
    /\ Step("ConnectOk") \/ Step("Start") =>
         sock.state = "connected" /\ ~tun.started /\ ~tun.closed
    /\ Step("ConnectFailed") => sock.state = "failed" /\ ~tun.started /\ ~tun.closed
    /\ ~tun.closed /\ ~tun.started /\ (Idle \/ Head(todo) \notin Dialling) =>
         sock.state = "connecting"
    /\ ~tun.closed /\ tun.started => sock.state = "connected"

\* Data before Start() waits in the seed; afterwards in the queue, which has
\* its bound; after the FIN there is none left to come.
QueueInv ==
    /\ ~tun.started => /\ tun.pending = <<>> /\ tun.sending = 0 /\ Len(tun.seed) <= 1
                       /\ ~tun.quicDone /\ ~tun.rcvDone /\ ~tun.receiving
    /\ tun.started => tun.seed = <<>>
    /\ Len(tun.pending) <= MaxQueued
    /\ tun.quicDone => str.fin /\ str.unread = <<>>
    /\ ~tun.closed /\ tun.rcvDone =>
         sock.eof \/ (tun.quicDone /\ tun.pending = <<>> /\ tun.sending = 0)

CloseInv ==
    /\ reason \in Reasons /\ (tun.closed <=> reason # "")
    /\ ~tun.closed => ~tun.disconnected
    /\ faults = {}

\* The inductive invariant.
IInv == Typed /\ StackInv /\ CallInv /\ SocketInv /\ QueueInv /\ CloseInv

---------------------------------------------------------------------------
(* The channel.                                                            *)

\* InFlight, as an operator of its parts.
Channel(sending, pending, seed, unread) ==
    (IF sending = 0 THEN <<>> ELSE <<sending>>) \o pending \o seed \o unread

\* What is being sent is one chunk or none.
LEMMA First ==
    ASSUME NEW x \in Nat
    PROVE  (IF x = 0 THEN <<>> ELSE <<x>>) \in Seq(Chunk)
<1>1. <<>> \in Seq(Chunk)
  BY EmptySeq
<1>2. ASSUME x # 0 PROVE <<x>> \in Seq(Chunk)
  <2>1. x \in Chunk
    BY <1>2 DEF Chunk
  <2> QED BY <2>1
<1> QED BY <1>1, <1>2

\* Concatenation of chunks is associative.
LEMMA Assoc ==
    ASSUME NEW a \in Seq(Chunk), NEW b \in Seq(Chunk), NEW c \in Seq(Chunk)
    PROVE  (a \o b) \o c = a \o (b \o c)
  BY ConcatAssociative

\* A channel is a sequence of chunks, and is empty only when all of it is.
LEMMA ChannelType ==
    ASSUME NEW x \in Nat, NEW p \in Seq(Chunk), NEW s \in Seq(Chunk), NEW u \in Seq(Chunk)
    PROVE  /\ Channel(x, p, s, u) \in Seq(Chunk)
           /\ x = 0 /\ p = <<>> /\ s = <<>> /\ u = <<>> => Channel(x, p, s, u) = <<>>
<1> DEFINE a == IF x = 0 THEN <<>> ELSE <<x>>
<1>1. a \in Seq(Chunk)
  BY First
<1>2. a \o p \in Seq(Chunk)
  BY <1>1, ConcatProperties
<1>3. (a \o p) \o s \in Seq(Chunk)
  BY <1>2, ConcatProperties
<1>4. ((a \o p) \o s) \o u \in Seq(Chunk)
  BY <1>3, ConcatProperties
<1>5. Channel(x, p, s, u) = ((a \o p) \o s) \o u
  BY DEF Channel
<1>6. ASSUME x = 0, p = <<>>, s = <<>>, u = <<>> PROVE ((a \o p) \o s) \o u = <<>>
  <2>1. <<>> \o <<>> = <<>>
    BY ConcatEmptySeq, <1>1, EmptySeq
  <2> QED BY <1>6, <2>1
<1> QED BY <1>4, <1>5, <1>6

\* Start(): the seed goes to the end of the queue.
LEMMA ChannelStart ==
    ASSUME NEW x \in Nat, NEW p \in Seq(Chunk), NEW s \in Seq(Chunk), NEW u \in Seq(Chunk)
    PROVE  Channel(x, p \o s, <<>>, u) = Channel(x, p, s, u)
<1> DEFINE a == IF x = 0 THEN <<>> ELSE <<x>>
<1>1. a \in Seq(Chunk)
  BY First
<1>2. p \o s \in Seq(Chunk) /\ a \o (p \o s) \in Seq(Chunk)
  BY <1>1, ConcatProperties
<1>3. a \o (p \o s) = (a \o p) \o s
  <2> HIDE DEF a
  <2> QED BY <1>1, Assoc
<1>4. (a \o (p \o s)) \o <<>> = a \o (p \o s)
  BY <1>2, ConcatEmptySeq
<1> HIDE DEF a
<1>5. ((a \o (p \o s)) \o <<>>) \o u = ((a \o p) \o s) \o u
  BY <1>3, <1>4
<1> QED BY <1>5, Zenon DEF Channel, a

\* FillQueueFromStream(): the first n unread chunks go there.
LEMMA ChannelFill ==
    ASSUME NEW x \in Nat, NEW p \in Seq(Chunk), NEW u \in Seq(Chunk), NEW n \in 0..Len(u)
    PROVE  /\ SubSeq(u, 1, n) \in Seq(Chunk) /\ Len(SubSeq(u, 1, n)) = n
           /\ SubSeq(u, n + 1, Len(u)) \in Seq(Chunk)
           /\ n = Len(u) => SubSeq(u, n + 1, Len(u)) = <<>>
           /\ u = <<>> => SubSeq(u, 1, n) = <<>>
           /\ Channel(x, p \o SubSeq(u, 1, n), <<>>, SubSeq(u, n + 1, Len(u)))
                = Channel(x, p, <<>>, u)
<1> DEFINE a == IF x = 0 THEN <<>> ELSE <<x>>
           y == SubSeq(u, 1, n)
           z == SubSeq(u, n + 1, Len(u))
<1>1. a \in Seq(Chunk) /\ Len(u) \in Nat /\ n \in Nat
  BY LenProperties, First
<1>2. \A k \in 1..Len(u) : u[k] \in Chunk
  BY ElementOfSeq
<1>3. y \in Seq(Chunk) /\ Len(y) = n
  <2>1. \A k \in 1..n : u[k] \in Chunk
    BY <1>1, <1>2
  <2>2. y \in Seq(Chunk) /\ Len(y) = IF 1 <= n THEN n - 1 + 1 ELSE 0
    BY <1>1, <2>1, SubSeqProperties
  <2> QED BY <1>1, <2>2
<1>4. z \in Seq(Chunk)
  <2>1. n + 1 \in Int /\ Len(u) \in Int /\ \A k \in (n + 1)..Len(u) : u[k] \in Chunk
    BY <1>1, <1>2
  <2> QED BY <2>1, SubSeqProperties
<1>5. n = Len(u) => z = <<>>
  <2>1. ASSUME n = Len(u) PROVE Len(u) < n + 1 /\ n + 1 \in Int /\ Len(u) \in Int
    BY <1>1, <2>1
  <2> QED BY <2>1, SubSeqEmpty
<1>6. u = <<>> => y = <<>>
  <2>1. ASSUME u = <<>> PROVE n = 0
    BY <1>1, <2>1, EmptySeq
  <2>2. SubSeq(u, 1, 0) = <<>>
    BY SubSeqEmpty
  <2> QED BY <2>1, <2>2
<1>7. y \o z = u
  <2>1. 1 \in 1..Len(u) + 1 /\ n \in 1 - 1..Len(u) /\ Len(u) \in n..Len(u)
    BY <1>1
  <2>2. y \o z = SubSeq(u, 1, Len(u))
    BY <2>1, ConcatAdjacentSubSeq, Zenon
  <2> QED BY <2>2, SubSeqFull, Zenon
<1> HIDE DEF a, y, z
<1>8. a \o p \in Seq(Chunk) /\ p \o y \in Seq(Chunk) /\ a \o (p \o y) \in Seq(Chunk)
  BY <1>1, <1>3, ConcatProperties
<1>9. (a \o (p \o y)) \o <<>> = a \o (p \o y) /\ (a \o p) \o <<>> = a \o p
  BY <1>8, ConcatEmptySeq
<1>10. a \o (p \o y) = (a \o p) \o y
  BY <1>1, <1>3, Assoc, Zenon
<1>11. ((a \o p) \o y) \o z = (a \o p) \o (y \o z)
  <2> DEFINE b == a \o p
  <2>1. b \in Seq(Chunk)
    BY <1>8
  <2> HIDE DEF b
  <2>2. (b \o y) \o z = b \o (y \o z)
    BY <1>3, <1>4, <2>1, Assoc, Zenon
  <2> QED BY <2>2 DEF b
<1>12. ((a \o (p \o y)) \o <<>>) \o z = ((a \o p) \o <<>>) \o u
  BY <1>7, <1>9, <1>10, <1>11, Zenon
<1>13. /\ Channel(x, p \o y, <<>>, z) = ((a \o (p \o y)) \o <<>>) \o z
       /\ Channel(x, p, <<>>, u) = ((a \o p) \o <<>>) \o u
  BY DEF Channel, a
<1> QED BY <1>3, <1>4, <1>5, <1>6, <1>12, <1>13, Zenon DEF y, z

\* MaybeFlushQuicToTcp(): the first of the queue is sent,
LEMMA ChannelFlush ==
    ASSUME NEW p \in Seq(Chunk), p # <<>>, NEW u \in Seq(Chunk)
    PROVE  /\ Head(p) \in Chunk /\ Tail(p) \in Seq(Chunk) /\ Len(Tail(p)) <= Len(p)
           /\ Channel(Head(p), Tail(p), <<>>, u) = Channel(0, p, <<>>, u)
<1> DEFINE h == Head(p)
           r == Tail(p)
<1>1. h \in Chunk /\ r \in Seq(Chunk) /\ Len(r) = Len(p) - 1 /\ Len(p) \in Nat
  BY HeadTailProperties, LenProperties
<1>2. h \in Nat /\ h # 0
  BY <1>1 DEF Chunk
<1>3. <<h>> \o r = p
  <2>1. 1 \in 1..Len(p) /\ Len(p) \in 1..Len(p)
    BY <1>1, EmptySeq
  <2>2. SubSeq(p, 1, Len(p)) = <<p[1]>> \o SubSeq(p, 1 + 1, Len(p))
    BY <2>1, SubSeqRecursiveFirst
  <2>3. SubSeq(p, 1, Len(p)) = p /\ r = SubSeq(p, 2, Len(p)) /\ 1 + 1 = 2
    BY SubSeqFull, TailIsSubSeq
  <2>4. h = p[1]
    OBVIOUS
  <2> QED BY <2>2, <2>3, <2>4
<1>4. <<>> \o p = p
  BY ConcatEmptySeq
<1> HIDE DEF h, r
<1>5. Channel(h, r, <<>>, u) = ((<<h>> \o r) \o <<>>) \o u
  BY <1>2 DEF Channel
<1>6. Channel(0, p, <<>>, u) = ((<<>> \o p) \o <<>>) \o u
  BY DEF Channel
<1>7. Len(r) <= Len(p)
  BY <1>1
<1> QED BY <1>1, <1>3, <1>4, <1>5, <1>6, <1>7, Zenon DEF h, r

\* and SendComplete() takes it off.
LEMMA ChannelSent ==
    ASSUME NEW x \in Chunk, NEW p \in Seq(Chunk), NEW s \in Seq(Chunk), NEW u \in Seq(Chunk)
    PROVE  /\ Channel(x, p, s, u) # <<>> /\ Head(Channel(x, p, s, u)) = x
           /\ Tail(Channel(x, p, s, u)) = Channel(0, p, s, u)
<1> DEFINE r == (p \o s) \o u
<1>1. p \o s \in Seq(Chunk) /\ r \in Seq(Chunk) /\ <<x>> \in Seq(Chunk)
  BY ConcatProperties
<1>2. Channel(x, p, s, u) = <<x>> \o r
  <2>1. Channel(x, p, s, u) = ((<<x>> \o p) \o s) \o u
    BY DEF Channel, Chunk
  <2>2. (<<x>> \o p) \o s = <<x>> \o (p \o s)
    BY <1>1, Assoc
  <2> DEFINE q == p \o s
  <2>3. q \in Seq(Chunk)
    BY <1>1
  <2> HIDE DEF q
  <2>4. (<<x>> \o q) \o u = <<x>> \o (q \o u)
    BY <1>1, <2>3, Assoc
  <2> QED BY <2>1, <2>2, <2>4 DEF q
<1>3. Channel(0, p, s, u) = r
  <2>1. <<>> \o p = p
    BY ConcatEmptySeq
  <2> QED BY <2>1 DEF Channel
<1> HIDE DEF r
<1>4. /\ <<x>> \o r \in Seq(Chunk) /\ Len(<<x>> \o r) = 1 + Len(r)
      /\ \A i \in 1..(1 + Len(r)) : (<<x>> \o r)[i] = IF i <= 1 THEN x ELSE r[i - 1]
  BY <1>1, ConcatProperties
<1>5. <<x>> \o r # <<>> /\ Head(<<x>> \o r) = x /\ Len(r) \in Nat
  BY <1>1, <1>4, LenProperties
<1>6. Tail(<<x>> \o r) = r
  <2> DEFINE t == Tail(<<x>> \o r)
  <2>1. /\ t \in Seq(Chunk) /\ Len(t) = Len(<<x>> \o r) - 1
        /\ \A i \in 1..Len(t) : t[i] = (<<x>> \o r)[i + 1]
    BY <1>4, <1>5, HeadTailProperties
  <2> HIDE DEF t
  <2>2. Len(t) = Len(r)
    BY <1>4, <1>5, <2>1
  <2>3. ASSUME NEW i \in 1..Len(t) PROVE t[i] = r[i]
    <3>1. i + 1 \in 1..(1 + Len(r)) /\ ~(i + 1 <= 1) /\ i + 1 - 1 = i
      BY <1>5, <2>2
    <3> QED BY <1>4, <2>1, <3>1
  <2>4. t = r
    BY <1>1, <2>1, <2>2, <2>3, SeqEqual
  <2> QED BY <2>4 DEF t
<1> QED BY <1>2, <1>3, <1>5, <1>6

\* A channel with one more chunk.
Longer(c, k) == Append(c, k)

\* A new chunk comes in at the end.
LEMMA ChannelAppend ==
    ASSUME NEW x \in Nat, NEW p \in Seq(Chunk), NEW s \in Seq(Chunk), NEW u \in Seq(Chunk),
           NEW k \in Chunk, NEW z, z = Longer(u, k)
    PROVE  Channel(x, p, s, z) = Longer(Channel(x, p, s, u), k)
<1> DEFINE c == (IF x = 0 THEN <<>> ELSE <<x>>) \o p \o s
<1>1. c \in Seq(Chunk)
  <2>1. (IF x = 0 THEN <<>> ELSE <<x>>) \in Seq(Chunk)
    BY First
  <2>2. (IF x = 0 THEN <<>> ELSE <<x>>) \o p \in Seq(Chunk)
    BY <2>1, ConcatProperties
  <2> QED BY <2>2, ConcatProperties
<1>2. Channel(x, p, s, u) = c \o u /\ Channel(x, p, s, z) = c \o Append(u, k)
  BY DEF Channel, Longer
<1> HIDE DEF c
<1>3. <<k>> \in Seq(Chunk) /\ c \o u \in Seq(Chunk)
  BY <1>1, ConcatProperties
<1>4. Append(u, k) = u \o <<k>> /\ Append(c \o u, k) = (c \o u) \o <<k>>
  BY <1>3, AppendIsConcat
<1>5. (c \o u) \o <<k>> = c \o (u \o <<k>>)
  BY <1>1, <1>3, Assoc
<1> QED BY <1>2, <1>4, <1>5 DEF Longer

\* What is unread is dropped from the end.
LEMMA ChannelDrop ==
    ASSUME NEW x \in Nat, NEW p \in Seq(Chunk), NEW s \in Seq(Chunk), NEW u \in Seq(Chunk)
    PROVE  \E n \in 0..Len(Channel(x, p, s, u)) :
              Channel(x, p, s, <<>>) = SubSeq(Channel(x, p, s, u), 1, n)
<1> DEFINE c == (IF x = 0 THEN <<>> ELSE <<x>>) \o p \o s
<1>1. c \in Seq(Chunk)
  <2>1. (IF x = 0 THEN <<>> ELSE <<x>>) \in Seq(Chunk)
    BY First
  <2>2. (IF x = 0 THEN <<>> ELSE <<x>>) \o p \in Seq(Chunk)
    BY <2>1, ConcatProperties
  <2> QED BY <2>2, ConcatProperties
<1>2. Channel(x, p, s, u) = c \o u /\ Channel(x, p, s, <<>>) = c \o <<>>
  BY DEF Channel
<1> HIDE DEF c
<1>3. c \o <<>> = c
  BY <1>1, ConcatEmptySeq
<1>4. Len(c) \in Nat /\ Len(c \o u) = Len(c) + Len(u) /\ Len(u) \in Nat
  BY <1>1, ConcatProperties, LenProperties
<1>5. Len(c) \in 0..Len(c \o u)
  BY <1>4
<1>6. SubSeq(c \o u, 1, Len(c)) = c
  <2>1. CASE c = <<>>
    BY <1>4, <2>1, SubSeqEmpty
  <2>2. CASE c # <<>>
    <3>1. 1 \in 1..Len(c) /\ Len(c) \in 1..Len(c)
      BY <1>1, <1>4, <2>2, EmptySeq
    <3> QED BY <1>1, <3>1, SubSeqOfConcat1, SubSeqFull
  <2> QED BY <2>1, <2>2
<1> QED BY <1>2, <1>3, <1>5, <1>6

---------------------------------------------------------------------------
(* The stack of calls.                                                     *)

\* A call returns: what waited behind it is next.
LEMMA Returning ==
    ASSUME StackInv, ~Idle, Return, ~tun'.started => ~tun.started
    PROVE  StackInv' /\ (Idle' \/ Head(todo') \in Later)
<1>1. Tail(todo) \in Seq(Later) /\ todo' = Tail(todo) /\ Later \subseteq Calls
  BY DEF StackInv, Return, Later, Calls
<1>2. todo' \in Seq(Calls)
  BY <1>1, SeqMonotonic
<1>3. todo' # <<>> => Tail(todo') \in Seq(Later) /\ Head(todo') \in Later
  BY <1>1, HeadTailProperties
<1>4. ASSUME ~tun'.started PROVE todo' \in Seq(Early)
  BY <1>1, <1>4, HeadTailProperties DEF StackInv, Idle
<1> QED BY <1>2, <1>3, <1>4 DEF StackInv, Idle

\* Calls made at once, in front of what waits.
Made(calls) ==
    /\ calls \in Seq(Calls) /\ calls # <<>> /\ Tail(calls) \in Seq(Later)
    /\ ~tun'.started => ~tun.started /\ calls \in Seq(Early)

\* They are made in order, then the rest goes on.
LEMMA Calling ==
    ASSUME StackInv, NEW calls, Made(calls),
           (~Idle /\ Call(calls)) \/ (Idle /\ todo' = calls)
    PROVE  StackInv' /\ ~Idle' /\ Head(todo') = Head(calls)
<1> DEFINE r == IF Idle THEN <<>> ELSE Tail(todo)
<1>1. Later \subseteq Calls
  BY DEF Later, Calls
<1>2. r \in Seq(Later)
  BY EmptySeq DEF StackInv
<1>3. todo' = calls \o r
  BY ConcatEmptySeq DEF Call, Made
<1>4. ~tun'.started => r \in Seq(Early)
  BY EmptySeq, HeadTailProperties DEF StackInv, Made, Idle
<1> HIDE DEF r
<1>5. r \in Seq(Calls) /\ calls \in Seq(Calls) /\ calls # <<>> /\ Tail(calls) \in Seq(Later)
  BY <1>1, <1>2, SeqMonotonic DEF Made
<1>6. todo' \in Seq(Calls) /\ Len(todo') = Len(calls) + Len(r)
      /\ Len(calls) \in Nat \ {0} /\ Len(r) \in Nat
      /\ \A i \in 1..(Len(calls) + Len(r)) :
            todo'[i] = IF i <= Len(calls) THEN calls[i] ELSE r[i - Len(calls)]
  BY <1>3, <1>5, ConcatProperties, LenProperties, EmptySeq
<1>7. todo' # <<>> /\ Head(todo') = Head(calls)
  BY <1>5, <1>6
<1>8. Tail(todo') = Tail(calls) \o r
  <2> DEFINE a == Tail(todo')
             b == Tail(calls) \o r
  <2>1. /\ a \in Seq(Calls) /\ Len(a) = Len(todo') - 1
        /\ \A i \in 1..Len(a) : a[i] = todo'[i + 1]
    BY <1>6, <1>7, HeadTailProperties
  <2>2. /\ Tail(calls) \in Seq(Calls) /\ Len(Tail(calls)) = Len(calls) - 1
        /\ \A i \in 1..Len(Tail(calls)) : Tail(calls)[i] = calls[i + 1]
    BY <1>5, HeadTailProperties
  <2>3. /\ b \in Seq(Calls) /\ Len(b) = Len(calls) - 1 + Len(r)
        /\ \A i \in 1..(Len(calls) - 1 + Len(r)) :
              b[i] = IF i <= Len(calls) - 1 THEN Tail(calls)[i] ELSE r[i - (Len(calls) - 1)]
    BY <1>5, <2>2, ConcatProperties
  <2> HIDE DEF a, b
  <2>4. Len(a) = Len(b)
    BY <1>6, <2>1, <2>3
  <2>5. ASSUME NEW i \in 1..Len(a) PROVE a[i] = b[i]
    <3>1. i \in 1..(Len(calls) - 1 + Len(r)) /\ i + 1 \in 1..(Len(calls) + Len(r))
      BY <1>6, <2>3, <2>4
    <3>2. a[i] = IF i + 1 <= Len(calls) THEN calls[i + 1] ELSE r[i + 1 - Len(calls)]
      BY <1>6, <2>1, <3>1
    <3>3. CASE i <= Len(calls) - 1
      <4>1. i + 1 <= Len(calls) /\ i \in 1..Len(Tail(calls))
        BY <1>6, <2>2, <3>3
      <4> QED BY <2>2, <2>3, <3>1, <3>2, <3>3, <4>1
    <3>4. CASE ~(i <= Len(calls) - 1)
      <4>1. ~(i + 1 <= Len(calls)) /\ i + 1 - Len(calls) = i - (Len(calls) - 1)
        BY <1>6, <3>4
      <4> QED BY <2>3, <3>1, <3>2, <3>4, <4>1
    <3> QED BY <3>3, <3>4
  <2>6. a = b
    BY <2>1, <2>3, <2>4, <2>5, SeqEqual
  <2> QED BY <2>6 DEF a, b
<1>9. Tail(todo') \in Seq(Later)
  BY <1>2, <1>5, <1>8, ConcatProperties, Zenon
<1>10. ASSUME ~tun'.started PROVE todo' \in Seq(Early)
  BY <1>3, <1>4, <1>10, ConcatProperties DEF Made
<1> QED BY <1>6, <1>7, <1>9, <1>10 DEF StackInv, Idle

\* What there is to be made.
LEMMA OneCall ==
    ASSUME NEW c \in Calls, tun'.started \/ (~tun.started /\ c \in Early)
    PROVE  Made(<<c>>) /\ Head(<<c>>) = c
<1>1. <<c>> \in Seq(Calls) /\ <<c>> # <<>> /\ Head(<<c>>) = c
  OBVIOUS
<1>2. Tail(<<c>>) \in Seq(Later)
  BY EmptySeq
<1>3. c \in Early => <<c>> \in Seq(Early)
  OBVIOUS
<1> QED BY <1>1, <1>2, <1>3 DEF Made

\* A call, and one that waits behind it.
LEMMA TwoCalls ==
    ASSUME NEW c \in Calls, NEW d \in Later, tun'.started \/ (~tun.started /\ c \in Early /\ d \in Early)
    PROVE  Made(<<c, d>>) /\ Head(<<c, d>>) = c
<1>1. <<c, d>> \in Seq(Calls) /\ <<c, d>> # <<>> /\ Head(<<c, d>>) = c
  BY DEF Later, Calls
<1>2. Tail(<<c, d>>) \in Seq(Later)
  <2>1. Tail(<<c, d>>) = <<d>>
    OBVIOUS
  <2> QED BY <2>1
<1>3. c \in Early /\ d \in Early => <<c, d>> \in Seq(Early)
  OBVIOUS
<1> QED BY <1>1, <1>2, <1>3 DEF Made

\* A call, and two.
LEMMA ThreeCalls ==
    ASSUME NEW c \in Calls, NEW d \in Later, NEW e \in Later, tun'.started
    PROVE  Made(<<c, d, e>>) /\ Head(<<c, d, e>>) = c
<1>1. <<c, d, e>> \in Seq(Calls) /\ <<c, d, e>> # <<>> /\ Head(<<c, d, e>>) = c
  BY DEF Later, Calls
<1>2. Tail(<<c, d, e>>) \in Seq(Later)
  <2>1. Tail(<<c, d, e>>) = <<d, e>>
    OBVIOUS
  <2> QED BY <2>1
<1> QED BY <1>1, <1>2 DEF Made

---------------------------------------------------------------------------
(* The relay's view.                                                       *)

Down == IF tun.closed THEN <<>> ELSE InFlight

Phase == CASE reason = "" -> "open"
           [] reason = "tunnel finished" -> "finished"
           [] OTHER -> "cut"

\* What a step must be for the relay.
Relays == [Relay!RelayNext]_(Relay!relayVars)

\* The end of the tunnel is the end of the relay.
LEMMA Phases ==
    /\ reason = "" => Phase = "open"
    /\ reason = "tunnel finished" => Phase = "finished"
    /\ reason # "" /\ reason # "tunnel finished" => Phase = "cut"
  BY Zenon DEF Phase

\* The same afterwards.
LEMMA PhasesAfter ==
    /\ reason' = "" => Phase' = "open"
    /\ reason' = "tunnel finished" => Phase' = "finished"
    /\ reason' # "" /\ reason' # "tunnel finished" => Phase' = "cut"
  BY Zenon DEF Phase

\* Nothing the relay sees changes,
LEMMA RelayStutters ==
    ASSUME sent' = sent, Down' = Down, tcpOut' = tcpOut, str'.fin = str.fin,
           sock'.eof = sock.eof, sock'.err = sock.err, reason' = reason
    PROVE  Relays
<1>1. (sock'.eof \/ sock'.err) = (sock.eof \/ sock.err)
  BY Zenon
<1>2. Phase' = Phase
  BY Zenon DEF Phase
<1> QED BY <1>1, <1>2, Zenon DEF Relays, Relay!relayVars, Down, Phase

\* the peer sends,
LEMMA RelayAccepts ==
    ASSUME reason = "", ~str.fin, str'.fin \in BOOLEAN, tcpOut' = tcpOut,
           sock' = sock, reason' = reason,
           \/ sent' = sent + 1 /\ Down' = Append(Down, sent + 1)
           \/ sent' = sent /\ Down' = Down
    PROVE  Relays
<1>1. Phase = "open" /\ Phase' = "open"
  BY Phases, PhasesAfter, Zenon
<1>2. Relay!Accept
  BY <1>1, Zenon DEF Relay!Accept, Down, Phase
<1> QED BY <1>2, Zenon DEF Relays, Relay!RelayNext

\* a chunk goes out,
LEMMA RelayDelivers ==
    ASSUME reason = "", Down # <<>>, tcpOut' = Append(tcpOut, Head(Down)), Down' = Tail(Down),
           sent' = sent, str'.fin = str.fin, sock' = sock, reason' = reason
    PROVE  Relays
<1>1. Phase = "open" /\ Phase' = "open"
  BY Phases, PhasesAfter, Zenon
<1>2. Relay!Deliver
  BY <1>1, Zenon DEF Relay!Deliver, Down, Phase
<1> QED BY <1>2, Zenon DEF Relays, Relay!RelayNext

\* unread chunks are dropped, and perhaps the FIN with them,
LEMMA RelayDiscards ==
    ASSUME reason = "", \E n \in 0..Len(Down) : Down' = SubSeq(Down, 1, n),
           str'.fin \in {str.fin, FALSE}, tcpOut' = tcpOut, sent' = sent,
           sock'.eof = sock.eof, sock'.err = sock.err, reason' = reason
    PROVE  Relays
<1>1. Phase = "open" /\ Phase' = "open"
  BY Phases, PhasesAfter, Zenon
<1>2. (sock'.eof \/ sock'.err) = (sock.eof \/ sock.err)
  BY Zenon
<1>3. Relay!Discard
  BY <1>1, <1>2, Zenon DEF Relay!Discard, Down, Phase
<1> QED BY <1>3, Zenon DEF Relays, Relay!RelayNext

\* the TCP side closes,
LEMMA RelayTcpCloses ==
    ASSUME reason = "", sock'.eof \/ sock'.err,
           sent' = sent, Down' = Down, tcpOut' = tcpOut, str'.fin = str.fin, reason' = reason
    PROVE  Relays
<1>1. Phase = "open" /\ Phase' = "open"
  BY Phases, PhasesAfter, Zenon
<1>2. (sock'.eof \/ sock'.err) = TRUE
  BY Zenon
<1>3. Relay!TcpCloses
  BY <1>1, <1>2, Zenon DEF Relay!TcpCloses, Down, Phase
<1> QED BY <1>3, Zenon DEF Relays, Relay!RelayNext

\* and the relay ends.
LEMMA RelayEnds ==
    ASSUME reason = "", reason' # "", Down' = <<>>,
           reason' = "tunnel finished" => (str.fin /\ Down = <<>>) \/ sock.eof,
           sent' = sent, tcpOut' = tcpOut, str'.fin = str.fin,
           sock'.eof = sock.eof, sock'.err = sock.err
    PROVE  Relays
<1>1. Phase = "open"
  BY Phases, Zenon
<1>2. (sock'.eof \/ sock'.err) = (sock.eof \/ sock.err)
  BY Zenon
<1>3. CASE reason' = "tunnel finished"
  <2>1. Phase' = "finished"
    BY <1>3, PhasesAfter, Zenon
  <2>2. Relay!Finish
    BY <1>1, <1>2, <1>3, <2>1, Zenon DEF Relay!Finish, Down, Phase
  <2> QED BY <2>2, Zenon DEF Relays, Relay!RelayNext
<1>4. CASE reason' # "tunnel finished"
  <2>1. Phase' = "cut"
    BY <1>4, PhasesAfter, Zenon
  <2>2. Relay!Cut
    BY <1>1, <1>2, <2>1, Zenon DEF Relay!Cut, Down, Phase
  <2> QED BY <2>2, Zenon DEF Relays, Relay!RelayNext
<1> QED BY <1>3, <1>4, Zenon

---------------------------------------------------------------------------
(* Steps that move no data.                                                *)

\* Two states of the tunnel's members that differ in the idle class, in
\* receive_pending_ and in the alarm only; a receive begins after Start().
Alike(t, u) ==
    /\ t.started <=> u.started
    /\ t.closed <=> u.closed
    /\ t.disconnected <=> u.disconnected
    /\ t.rcvDone <=> u.rcvDone
    /\ t.quicDone <=> u.quicDone
    /\ t.seed = u.seed /\ t.pending = u.pending /\ t.sending = u.sending
    /\ t.receiving => u.receiving \/ u.started

\* Assignments to these three.
LEMMA MinorFields ==
    ASSUME NEW t \in Tun, NEW b \in BOOLEAN, NEW n \in Int
    PROVE  /\ [t EXCEPT !.stalled = b] \in Tun /\ Alike([t EXCEPT !.stalled = b], t)
           /\ [t EXCEPT !.receiving = b] \in Tun
           /\ ~b \/ t.started => Alike([t EXCEPT !.receiving = b], t)
           /\ [t EXCEPT !.alarm = n] \in Tun /\ Alike([t EXCEPT !.alarm = n], t)
<1>1. [t EXCEPT !.stalled = b] \in Tun /\ Alike([t EXCEPT !.stalled = b], t)
  BY DEF Tun, Alike
<1>2. /\ [t EXCEPT !.receiving = b] \in Tun
      /\ ~b \/ t.started => Alike([t EXCEPT !.receiving = b], t)
  BY DEF Tun, Alike
<1>3. [t EXCEPT !.alarm = n] \in Tun /\ Alike([t EXCEPT !.alarm = n], t)
  BY DEF Tun, Alike
<1> QED BY <1>1, <1>2, <1>3

\* UpdateIdleClass() is one.
LEMMA ClassifiedEffect ==
    ASSUME NEW t \in Tun, NEW s
    PROVE  Classified(t, s) \in Tun /\ Alike(Classified(t, s), t)
<1>1. IsHoldingBuffer(t, s) \in BOOLEAN
  BY DEF IsHoldingBuffer
<1>2. Alike(t, t)
  BY DEF Alike
<1>3. CASE t.closed
  BY <1>2, <1>3 DEF Classified
<1>4. CASE ~t.closed
  <2>1. PICK b \in BOOLEAN : b = IsHoldingBuffer(t, s)
    BY <1>1
  <2>2. Classified(t, s) = [t EXCEPT !.stalled = b]
    BY <1>4, <2>1, Zenon DEF Classified
  <2>3. [t EXCEPT !.stalled = b] \in Tun /\ Alike([t EXCEPT !.stalled = b], t)
    <3>1. 0 \in Int
      OBVIOUS
    <3> QED BY <3>1, MinorFields, Zenon
  <2> QED BY <2>2, <2>3, Zenon
<1> QED BY <1>3, <1>4

\* The stream's send side moves: unread data stays or is dropped with the
\* connection.
Sends(v, s) == v \in Str /\ v.unread \in {s.unread, <<>>} /\ v.fin = s.fin

\* WriteBufferedData() leaves the other direction alone.
LEMMA WrittenEffect ==
    ASSUME NEW s \in Str, NEW v \in Written(s)
    PROVE  Sends(v, s)
<1> DEFINE total == s.pre + s.buffered
           Drain(d) == [s EXCEPT !.pre = IF d > 0 THEN 0 ELSE @,
                                 !.buffered = IF d > s.pre THEN @ - (d - s.pre) ELSE @,
                                 !.unacked = @ + d]
<1>1. ASSUME NEW d \in Int PROVE Sends(Drain(d), s)
  <2> DEFINE p == IF d > 0 THEN 0 ELSE s.pre
             q == IF d > s.pre THEN s.buffered - (d - s.pre) ELSE s.buffered
             r == s.unacked + d
  <2>1. p \in Int /\ q \in Int /\ r \in Int
    BY DEF Str
  <2>2. Drain(d) = [s EXCEPT !.pre = p, !.buffered = q, !.unacked = r]
    BY DEF Str
  <2> HIDE DEF Drain, p, q, r
  <2>3. [s EXCEPT !.pre = p, !.buffered = q, !.unacked = r] \in Str
    BY <2>1, Zenon DEF Str
  <2>4. [s EXCEPT !.pre = p, !.buffered = q, !.unacked = r].unread = s.unread
    BY DEF Str
  <2>5. [s EXCEPT !.pre = p, !.buffered = q, !.unacked = r].fin = s.fin
    BY DEF Str
  <2> QED BY <2>2, <2>3, <2>4, <2>5 DEF Sends
<1>2. total \in Int
  BY DEF Str
<1>3. v \in {Drain(d) : d \in 0..total} \/ v = [Drain(total) EXCEPT !.finUnacked = TRUE, !.writeClosed = TRUE]
  BY Zenon DEF Written
<1> HIDE DEF Drain, total
<1>4. CASE v \in {Drain(d) : d \in 0..total}
  <2>1. PICK d \in 0..total : v = Drain(d)
    BY <1>4
  <2>2. d \in Int
    BY <1>2, <2>1
  <2> QED BY <1>1, <2>1, <2>2
<1>5. CASE v = [Drain(total) EXCEPT !.finUnacked = TRUE, !.writeClosed = TRUE]
  <2> DEFINE w == Drain(total)
  <2>1. w \in Str /\ w.unread \in {s.unread, <<>>} /\ w.fin = s.fin
    BY <1>1, <1>2 DEF Sends
  <2>2. v = [w EXCEPT !.finUnacked = TRUE, !.writeClosed = TRUE]
    BY <1>5
  <2> HIDE DEF w
  <2>3. v \in Str /\ v.unread = w.unread
    BY <2>1, <2>2, Zenon DEF Str
  <2>4. v.fin = w.fin
    BY <2>1, <2>2 DEF Str
  <2> QED BY <2>1, <2>3, <2>4 DEF Sends
<1> QED BY <1>3, <1>4, <1>5

\* WriteToStream() leaves it alone or ends it with the connection.
LEMMA WriteEffect ==
    ASSUME NEW s \in Str, NEW data \in Int, NEW fin \in BOOLEAN,
           NEW v \in WriteOutcomes(s, data, fin)
    PROVE  Sends(v, s)
<1> DEFINE t == [s EXCEPT !.buffered = @ + data, !.finBuffered = fin]
<1>1. t \in Str /\ t.unread = s.unread
  <2>1. \A n \in Int, f \in BOOLEAN : [s EXCEPT !.buffered = n, !.finBuffered = f] \in Str
    BY Zenon DEF Str
  <2>2. s.buffered + data \in Int
    BY DEF Str
  <2>3. t = [s EXCEPT !.buffered = s.buffered + data, !.finBuffered = fin]
    BY DEF Str
  <2>4. t \in Str
    BY <2>1, <2>2, <2>3, Zenon
  <2>5. t.unread = s.unread
    BY DEF Str
  <2> QED BY <2>4, <2>5
<1>2. t.fin = s.fin
  BY DEF Str
<1>3. v = s \/ v = t \/ v \in Written(t) \/ v = Dead(t)
  BY DEF WriteOutcomes
<1> HIDE DEF t
<1>4. v = s => Sends(v, s)
  BY DEF Sends
<1>5. v = t => Sends(v, s)
  BY <1>1, <1>2 DEF Sends
<1>6. v \in Written(t) => Sends(v, s)
  BY <1>1, <1>2, WrittenEffect DEF Sends
<1>7. ASSUME v = Dead(t) PROVE Sends(v, s)
  <2>1. <<>> \in Seq(Chunk)
    BY EmptySeq
  <2>2. Dead(t) \in Str /\ Dead(t).unread = <<>>
    BY <1>1, <2>1, Zenon DEF Str, Dead
  <2>3. Dead(t).fin = t.fin
    BY <1>1 DEF Str, Dead
  <2> QED BY <1>2, <1>7, <2>2, <2>3 DEF Sends
<1> QED BY <1>3, <1>4, <1>5, <1>6, <1>7

\* No data moves towards TCP: at most what is unread is dropped, with the FIN
\* if that was behind it.
QuietData ==
    /\ tun' \in Tun /\ Alike(tun', tun)
    /\ str' \in Str
    /\ \/ str'.unread = str.unread /\ str'.fin = str.fin
       \/ str'.unread = <<>> /\ str'.fin = str.fin
       \/ str'.unread = <<>> /\ ~tun.closed /\ str.unread # <<>> /\ ~str'.fin
    /\ sock' \in Sock /\ sock'.state = sock.state
    /\ sock'.eof = sock.eof /\ sock'.err = sock.err
    /\ elapsed' \in Int
    /\ UNCHANGED <<sent, tcpOut, reason, faults>>

\* Calls that rely on nothing.
Free == {"Fill", "BeginRead", "Flush", "Finalize", "RcvData", "AfterWrite", "WriteFin",
         "UpdateIdleClass", "OnStreamDataAvailable", "OnStreamCanWriteMore", "OnStreamGone"}

\* The dial-out is over or pending: no step of it is being made.
NotDialling == Idle \/ Head(todo) \notin Dialling

\* What is made next relies on nothing.
LEMMA FreeHead ==
    ASSUME IInv, NotDialling, Idle' \/ Head(todo') \in Free, Alike(tun', tun),
           sock'.state = sock.state
    PROVE  CallInv' /\ SocketInv'
<1>1. CallInv'
  BY DEF CallInv, Step, Idle, Free
<1>2. SocketInv'
  <2>1. /\ ~tun.closed /\ ~tun.started => sock.state = "connecting"
        /\ ~tun.closed /\ tun.started => sock.state = "connected"
    BY DEF IInv, SocketInv, NotDialling
  <2>2. Idle' \/ Head(todo') \notin Dialling
    BY DEF Free, Dialling
  <2> QED BY <2>1, <2>2 DEF SocketInv, Alike, Step, Idle, Dialling
<1> QED BY <1>1, <1>2

\* Without data, only the stack has to be looked after.
LEMMA QuietStep ==
    ASSUME IInv, QuietData, StackInv', CallInv', SocketInv'
    PROVE  IInv' /\ Relays
<1>1. Typed'
  BY DEF IInv, Typed, QuietData
<1>2. QueueInv'
  <2>1. tun.quicDone => str'.fin /\ str'.unread = <<>>
    BY DEF IInv, QueueInv, QuietData
  <2>2. sock'.eof <=> sock.eof
    BY Zenon DEF QuietData
  <2>3. Alike(tun', tun)
    BY DEF QuietData
  <2>4. QueueInv
    BY DEF IInv
  <2> QED BY <2>1, <2>2, <2>3, <2>4 DEF QueueInv, Alike
<1>3. CloseInv'
  BY Zenon DEF IInv, CloseInv, QuietData, Alike
<1>4. Relays
  <2>1. /\ tun \in Tun /\ str \in Str /\ Alike(tun', tun)
        /\ tun.sending \in Nat /\ tun.pending \in Seq(Chunk) /\ tun.seed \in Seq(Chunk)
        /\ str.unread \in Seq(Chunk)
    BY DEF IInv, Typed, QuietData, Tun, Str
  <2>2. CASE tun.closed
    <3>1. Down = <<>> /\ Down' = <<>>
      BY <2>1, <2>2 DEF Down, Alike
    <3>2. str'.fin = str.fin
      BY <2>2 DEF QuietData
    <3> QED BY <3>1, <3>2, RelayStutters DEF QuietData
  <2>3. CASE ~tun.closed
    <3>1. /\ Down = Channel(tun.sending, tun.pending, tun.seed, str.unread)
          /\ Down' = Channel(tun.sending, tun.pending, tun.seed, str'.unread)
      BY <2>1, <2>3, Zenon DEF Down, InFlight, Channel, Alike
    <3>2. reason = ""
      BY <2>3, Zenon DEF IInv, CloseInv
    <3>3. CASE str'.unread = str.unread /\ str'.fin = str.fin
      <4>1. Down' = Down
        BY <3>1, <3>3
      <4> QED BY <3>3, <4>1, RelayStutters DEF QuietData
    <3>4. CASE str'.unread = <<>>
      <4>1. \E n \in 0..Len(Down) : Down' = SubSeq(Down, 1, n)
        <5>1. Down' = Channel(tun.sending, tun.pending, tun.seed, <<>>)
          BY <3>1, <3>4
        <5>2. \E n \in 0..Len(Channel(tun.sending, tun.pending, tun.seed, str.unread)) :
                 Channel(tun.sending, tun.pending, tun.seed, <<>>)
                   = SubSeq(Channel(tun.sending, tun.pending, tun.seed, str.unread), 1, n)
          BY <2>1, ChannelDrop, Zenon
        <5> QED BY <3>1, <5>1, <5>2, Zenon
      <4>2. str'.fin \in BOOLEAN
        BY DEF QuietData, Str
      <4>3. str'.fin \in {str.fin, FALSE}
        BY <4>2, Zenon DEF QuietData
      <4> QED BY <3>2, <4>1, <4>3, RelayDiscards, Zenon DEF QuietData
    <3> QED BY <3>3, <3>4 DEF QuietData
  <2> QED BY <2>2, <2>3
<1> QED BY <1>1, <1>2, <1>3, <1>4 DEF IInv

\* Such a step returns,
LEMMA QuietReturn ==
    ASSUME IInv, ~Idle, NotDialling, Return, QuietData
    PROVE  IInv' /\ Relays
<1>1. StackInv' /\ (Idle' \/ Head(todo') \in Later)
  BY Returning DEF IInv, QuietData, Alike
<1>2. Idle' \/ Head(todo') \in Free
  BY <1>1 DEF Later, Free
<1>3. CallInv' /\ SocketInv'
  BY <1>2, FreeHead DEF QuietData
<1> QED BY <1>1, <1>3, QuietStep

\* or makes a call that relies on nothing.
LEMMA QuietCall ==
    ASSUME IInv, NotDialling, QuietData, NEW calls, Made(calls), Head(calls) \in Free,
           (~Idle /\ Call(calls)) \/ (Idle /\ todo' = calls)
    PROVE  IInv' /\ Relays
<1>1. StackInv' /\ Head(todo') \in Free
  BY Calling DEF IInv
<1>2. CallInv' /\ SocketInv'
  BY <1>1, FreeHead DEF QuietData
<1> QED BY <1>1, <1>2, QuietStep

---------------------------------------------------------------------------
(* Close().                                                                *)

\* The tunnel's members at the call of Close(): as they are, but for what the
\* caller has reset.
AtClose(t) ==
    /\ t \in Tun /\ ~t.closed
    /\ t.started <=> tun.started
    /\ t.quicDone <=> tun.quicDone
    /\ t.rcvDone <=> tun.rcvDone
    /\ t.seed = tun.seed /\ t.pending = tun.pending
    /\ t.disconnected \/ sock.state \in {"connecting", "connected"}

\* What Close() leaves of the members.
LEMMA ClosedTun ==
    ASSUME NEW t, AtClose(t)
    PROVE  LET v == [t EXCEPT !.closed = TRUE, !.alarm = 0, !.receiving = FALSE,
                              !.sending = 0, !.disconnected = TRUE]
           IN  /\ v \in Tun /\ v.closed /\ v.sending = 0 /\ ~v.receiving
               /\ v.started <=> tun.started
               /\ v.quicDone <=> tun.quicDone
               /\ v.rcvDone <=> tun.rcvDone
               /\ v.seed = tun.seed /\ v.pending = tun.pending
<1> DEFINE v == [t EXCEPT !.closed = TRUE, !.alarm = 0, !.receiving = FALSE,
                          !.sending = 0, !.disconnected = TRUE]
<1>1. t \in Tun
  BY DEF AtClose
<1>2. v \in Tun
  <2>1. \A x \in Tun, b \in BOOLEAN : [x EXCEPT !.closed = b] \in Tun
    BY DEF Tun
  <2>2. \A x \in Tun, n \in Int : [x EXCEPT !.alarm = n] \in Tun
    BY DEF Tun
  <2>3. \A x \in Tun, b \in BOOLEAN : [x EXCEPT !.receiving = b] \in Tun
    BY DEF Tun
  <2>4. \A x \in Tun, n \in Nat : [x EXCEPT !.sending = n] \in Tun
    BY DEF Tun
  <2>5. \A x \in Tun, b \in BOOLEAN : [x EXCEPT !.disconnected = b] \in Tun
    BY DEF Tun
  <2>6. 0 \in Int /\ 0 \in Nat /\ TRUE \in BOOLEAN /\ FALSE \in BOOLEAN
    OBVIOUS
  <2> DEFINE a == [t EXCEPT !.closed = TRUE]
             c == [a EXCEPT !.alarm = 0]
             d == [c EXCEPT !.receiving = FALSE]
             e == [d EXCEPT !.sending = 0]
  <2>7. v = [e EXCEPT !.disconnected = TRUE]
    BY Zenon
  <2> HIDE DEF v
  <2>8. a \in Tun
    BY <1>1, <2>1, <2>6, Zenon
  <2> HIDE DEF a
  <2>9. c \in Tun
    BY <2>2, <2>6, <2>8, Zenon
  <2> HIDE DEF c
  <2>10. d \in Tun
    BY <2>3, <2>6, <2>9, Zenon
  <2> HIDE DEF d
  <2>11. e \in Tun
    BY <2>4, <2>6, <2>10, Zenon
  <2> HIDE DEF e
  <2> QED BY <2>5, <2>6, <2>7, <2>11, Zenon
<1>3. v.closed /\ v.sending = 0 /\ ~v.receiving /\ v.seed = t.seed /\ v.pending = t.pending
  BY <1>1 DEF Tun
<1>4. (v.started <=> t.started) /\ (v.quicDone <=> t.quicDone) /\ (v.rcvDone <=> t.rcvDone)
  BY <1>1 DEF Tun
<1> QED BY <1>2, <1>3, <1>4 DEF AtClose

\* What it leaves of the stream: nothing to read, the FIN as it was.
LEMMA ClosedStr ==
    ASSUME str \in Str, NEW reset,
           LET stopped == [str EXCEPT !.unread = <<>>, !.readClosed = @ \/ str.fin]
           IN  str' = IF reset /\ str.connected THEN Reset(stopped) ELSE stopped
    PROVE  str' \in Str /\ str'.unread = <<>> /\ str'.fin = str.fin
<1>0. <<>> \in Seq(Chunk)
  BY EmptySeq
<1>1. PICK b \in BOOLEAN : b = (str.readClosed \/ str.fin)
  BY DEF Str
<1> DEFINE w == [str EXCEPT !.unread = <<>>, !.readClosed = b]
<1>2. str' = w \/ str' = Reset(w)
  BY <1>1, Zenon
<1>3. w \in Str /\ w.unread = <<>>
  BY <1>0, Zenon DEF Str
<1>4. w.fin = str.fin
  BY DEF Str
<1> HIDE DEF w
<1>5. Reset(w) \in Str /\ Reset(w).unread = <<>>
  BY <1>0, <1>3, Zenon DEF Str, Reset
<1>6. Reset(w).fin = w.fin
  BY <1>3 DEF Str, Reset
<1> QED BY <1>2, <1>3, <1>4, <1>5, <1>6

\* Close() is called once, on a socket that can be disconnected, and ends the
\* relay.
LEMMA CloseStep ==
    ASSUME IInv, ~tun.closed, NEW t, AtClose(t), NEW why \in Reasons \ {""}, NEW reset,
           why = "tunnel finished" => (str.fin /\ Down = <<>>) \/ sock.eof,
           CloseWith(t, str, why, reset),
           (~Idle /\ Return) \/ (Idle /\ todo' = todo),
           UNCHANGED <<sent, tcpOut, elapsed>>
    PROVE  IInv' /\ Relays
<1>1. /\ tun' \in Tun /\ tun'.closed /\ tun'.sending = 0 /\ ~tun'.receiving
      /\ tun'.started <=> tun.started
      /\ tun'.quicDone <=> tun.quicDone
      /\ tun'.rcvDone <=> tun.rcvDone
      /\ tun'.seed = tun.seed /\ tun'.pending = tun.pending
  <2>1. tun' = [t EXCEPT !.closed = TRUE, !.alarm = 0, !.receiving = FALSE,
                         !.sending = 0, !.disconnected = TRUE]
    BY Zenon DEF CloseWith
  <2> QED BY <2>1, ClosedTun, Zenon
<1>2. str' \in Str /\ str'.unread = <<>> /\ str'.fin = str.fin
  <2>1. LET stopped == [str EXCEPT !.unread = <<>>, !.readClosed = @ \/ str.fin]
        IN  str' = IF reset /\ str.connected THEN Reset(stopped) ELSE stopped
    BY Zenon DEF CloseWith
  <2>2. str \in Str
    BY Zenon DEF IInv, Typed
  <2> QED BY <2>1, <2>2, ClosedStr, Zenon
<1>3. sock' \in Sock /\ sock'.eof = sock.eof /\ sock'.err = sock.err
  <2>1. sock' = sock \/ sock' = [sock EXCEPT !.state = "closed"]
    BY Zenon DEF CloseWith
  <2>2. sock \in Sock
    BY Zenon DEF IInv, Typed
  <2>3. [sock EXCEPT !.state = "closed"] \in Sock
    BY <2>2, Zenon DEF Sock
  <2>4. [sock EXCEPT !.state = "closed"].eof = sock.eof
    BY <2>2, Zenon DEF Sock
  <2>5. [sock EXCEPT !.state = "closed"].err = sock.err
    BY <2>2, Zenon DEF Sock
  <2> QED BY <2>1, <2>2, <2>3, <2>4, <2>5, Zenon
<1>4. faults' = {}
  <2>1. ~t.closed /\ (t.disconnected \/ sock.state \in {"connecting", "connected"}) /\ faults = {}
    BY Zenon DEF AtClose, IInv, CloseInv
  <2> QED BY <2>1, Zenon DEF CloseWith
<1>5. reason' = why /\ reason = ""
  BY Zenon DEF CloseWith, IInv, CloseInv
<1>6. StackInv' /\ (Idle' \/ Head(todo') \in Later)
  <2>1. CASE ~Idle /\ Return
    BY <1>1, <2>1, Returning, Zenon DEF IInv
  <2>2. CASE Idle /\ todo' = todo
    BY <1>1, <2>2, Zenon DEF IInv, StackInv, Idle
  <2> QED BY <2>1, <2>2, Zenon
<1>7. CallInv' /\ SocketInv'
  <2>1. CallInv'
    BY <1>6, Zenon DEF CallInv, Step, Idle, Later
  <2>2. SocketInv'
    BY <1>1, <1>6, Zenon DEF SocketInv, Step, Idle, Later
  <2> QED BY <2>1, <2>2, Zenon
<1>8. Typed'
  BY <1>1, <1>2, <1>3, Zenon DEF IInv, Typed
<1>9. QueueInv'
  <2>1. tun.quicDone => str'.fin
    BY <1>2, Zenon DEF IInv, QueueInv
  <2> QED BY <1>1, <1>2, <2>1, Zenon DEF IInv, QueueInv
<1>10. CloseInv'
  BY <1>1, <1>4, <1>5, Zenon DEF CloseInv
<1>11. Relays
  <2>1. Down' = <<>>
    BY <1>1, Zenon DEF Down
  <2> QED BY <1>2, <1>3, <1>5, <2>1, RelayEnds, Zenon
<1> QED BY <1>6, <1>7, <1>8, <1>9, <1>10, <1>11, Zenon DEF IInv

---------------------------------------------------------------------------
(* The steps, one by one: calls that move no data.                         *)

\* What the head of the stack says.
LEMMA AtHead ==
    ASSUME IInv, NEW c, Step(c)
    PROVE  /\ ~Idle /\ Head(todo) = c
           /\ c \notin Early => tun.started
           /\ c \notin Dialling => NotDialling
<1>1. ~Idle /\ Head(todo) = c
  BY DEF Step, Idle
<1>2. ASSUME ~tun.started PROVE c \in Early
  <2>1. todo \in Seq(Early) /\ todo # <<>>
    BY <1>1, <1>2 DEF IInv, StackInv, Idle
  <2> QED BY <1>1, <2>1, HeadTailProperties
<1> QED BY <1>1, <1>2 DEF NotDialling

\* The members change in the idle class, receive_pending_ or the alarm only,
\* the stream in its send side only.
LEMMA QuietTun ==
    ASSUME IInv, tun' \in Tun, Alike(tun', tun), str' = str \/ Sends(str', str),
           sock' = sock, elapsed' \in Int, UNCHANGED <<sent, tcpOut, reason, faults>>
    PROVE  QuietData
<1>1. str \in Str /\ sock \in Sock
  BY DEF IInv, Typed
<1>2. str' \in Str
  BY <1>1 DEF Sends
<1>3. \/ str'.unread = str.unread /\ str'.fin = str.fin
      \/ str'.unread = <<>> /\ str'.fin = str.fin
  <2>1. CASE str' = str
    BY <2>1, Zenon
  <2>2. CASE Sends(str', str)
    BY <2>2 DEF Sends
  <2> QED BY <2>1, <2>2
<1>4. /\ sock' \in Sock /\ sock'.state = sock.state
      /\ sock'.eof = sock.eof /\ sock'.err = sock.err
  BY <1>1, Zenon
<1> QED BY <1>2, <1>3, <1>4 DEF QuietData

\* In particular if they do not change.
LEMMA QuietSame ==
    ASSUME IInv, tun' = tun, str' = str \/ Sends(str', str),
           sock' = sock, elapsed' = elapsed, UNCHANGED <<sent, tcpOut, reason, faults>>
    PROVE  QuietData
<1>1. tun \in Tun /\ elapsed \in Int
  BY DEF IInv, Typed
<1>2. tun' \in Tun /\ elapsed' \in Int
  BY <1>1
<1>3. Alike(tun', tun)
  BY DEF Alike
<1> QED BY <1>2, <1>3, QuietTun

\* OnStreamDataAvailable().
LEMMA OnStreamDataAvailableKeeps ==
    ASSUME IInv, OnStreamDataAvailable
    PROVE  IInv' /\ Relays
<1>1. Step("OnStreamDataAvailable")
  BY DEF OnStreamDataAvailable
<1>2. ~Idle /\ NotDialling
  BY <1>1, AtHead DEF Dialling
<1>3. QuietData
  BY QuietSame DEF OnStreamDataAvailable
<1>4. CASE Return
  BY <1>2, <1>3, <1>4, QuietReturn
<1>5. CASE tun.started /\ Call(<<"Fill", "Flush">>)
  <2>1. tun'.started
    BY <1>3, <1>5 DEF QuietData, Alike
  <2>2. Made(<<"Fill", "Flush">>) /\ Head(<<"Fill", "Flush">>) \in Free
    BY <2>1, TwoCalls DEF Calls, Later, Free
  <2> QED BY <1>2, <1>3, <1>5, <2>2, QuietCall
<1> QED BY <1>4, <1>5 DEF OnStreamDataAvailable

\* OnStreamCanWriteMore().
LEMMA OnStreamCanWriteMoreKeeps ==
    ASSUME IInv, OnStreamCanWriteMore
    PROVE  IInv' /\ Relays
<1>1. Step("OnStreamCanWriteMore")
  BY DEF OnStreamCanWriteMore
<1>2. ~Idle /\ NotDialling
  BY <1>1, AtHead DEF Dialling
<1>3. QuietData
  <2>1. tun \in Tun /\ elapsed \in Int
    BY DEF IInv, Typed
  <2>2. tun' = tun \/ tun' = Classified(tun, str)
    BY DEF OnStreamCanWriteMore
  <2>3. CASE tun' = tun
    BY <2>3, QuietSame DEF OnStreamCanWriteMore
  <2>4. CASE tun' = Classified(tun, str)
    <3>1. tun' \in Tun /\ Alike(tun', tun)
      BY <2>1, <2>4, ClassifiedEffect
    <3>2. elapsed' \in Int
      BY <2>1 DEF OnStreamCanWriteMore
    <3> QED BY <3>1, <3>2, QuietTun DEF OnStreamCanWriteMore
  <2> QED BY <2>2, <2>3, <2>4
<1>4. CASE Return
  BY <1>2, <1>3, <1>4, QuietReturn
<1>5. CASE tun.started /\ \E c \in {"Finalize", "BeginRead"} : Call(<<c>>)
  <2>1. PICK c \in {"Finalize", "BeginRead"} : Call(<<c>>)
    BY <1>5
  <2>2. tun'.started
    BY <1>3, <1>5 DEF QuietData, Alike
  <2>3. Made(<<c>>) /\ Head(<<c>>) \in Free
    BY <2>2, OneCall DEF Calls, Free
  <2> QED BY <1>2, <1>3, <2>1, <2>3, QuietCall
<1> QED BY <1>4, <1>5 DEF OnStreamCanWriteMore

\* The rest of ReceiveComplete() after a write.
LEMMA AfterWriteKeeps ==
    ASSUME IInv, AfterWrite
    PROVE  IInv' /\ Relays
<1>1. Step("AfterWrite")
  BY DEF AfterWrite
<1>2. ~Idle /\ NotDialling /\ tun.started
  BY <1>1, AtHead DEF Dialling, Early
<1>3. QuietData
  BY QuietSame DEF AfterWrite
<1>4. CASE Return
  BY <1>2, <1>3, <1>4, QuietReturn
<1>5. CASE Call(<<"BeginRead">>)
  <2>1. tun'.started
    BY <1>2, <1>3 DEF QuietData, Alike
  <2>2. Made(<<"BeginRead">>) /\ Head(<<"BeginRead">>) \in Free
    BY <2>1, OneCall DEF Calls, Free
  <2> QED BY <1>2, <1>3, <1>5, <2>2, QuietCall
<1> QED BY <1>4, <1>5 DEF AfterWrite

\* UpdateIdleClass().
LEMMA UpdateIdleClassKeeps ==
    ASSUME IInv, UpdateIdleClass
    PROVE  IInv' /\ Relays
<1>1. Step("UpdateIdleClass") /\ Return
  BY DEF UpdateIdleClass
<1>2. ~Idle /\ NotDialling
  BY <1>1, AtHead DEF Dialling
<1>3. tun \in Tun /\ elapsed \in Int
  BY DEF IInv, Typed
<1>4. tun' \in Tun /\ Alike(tun', tun)
  BY <1>3, ClassifiedEffect DEF UpdateIdleClass
<1>5. QuietData
  <2>1. elapsed' \in Int
    BY <1>3 DEF UpdateIdleClass
  <2> QED BY <1>4, <2>1, QuietTun DEF UpdateIdleClass
<1> QED BY <1>1, <1>2, <1>5, QuietReturn

\* A write that closed nothing returns at once.
LEMMA CallNothing ==
    ASSUME IInv, ~Idle, Call(<<>>)
    PROVE  Return
<1>1. Tail(todo) \in Seq(Later)
  BY DEF IInv, StackInv
<1>2. <<>> \o Tail(todo) = Tail(todo)
  BY <1>1, ConcatEmptySeq
<1> QED BY <1>2 DEF Call, Return

\* One call in front of another,
LEMMA OneAndOne ==
    ASSUME NEW a \in Calls, NEW b \in Calls
    PROVE  <<a>> \o <<b>> = <<a, b>>
<1> DEFINE x == <<a>>
           y == <<b>>
           z == <<a, b>>
<1>1. x \in Seq(Calls) /\ Len(x) = 1 /\ x[1] = a
  OBVIOUS
<1>2. y \in Seq(Calls) /\ Len(y) = 1 /\ y[1] = b
  OBVIOUS
<1>3. z \in Seq(Calls) /\ Len(z) = 2 /\ z[1] = a /\ z[2] = b
  OBVIOUS
<1> HIDE DEF x, y, z
<1>4. /\ x \o y \in Seq(Calls) /\ Len(x \o y) = Len(x) + Len(y)
      /\ \A i \in 1..(Len(x) + Len(y)) :
            (x \o y)[i] = IF i <= Len(x) THEN x[i] ELSE y[i - Len(x)]
  BY <1>1, <1>2, ConcatProperties
<1>5. Len(x) + Len(y) = 2
  BY <1>1, <1>2
<1>6. ASSUME NEW i \in 1..2 PROVE (x \o y)[i] = z[i]
  <2>1. i = 1 \/ i = 2
    OBVIOUS
  <2> QED BY <1>1, <1>2, <1>3, <1>4, <1>5, <2>1
<1>7. x \o y = z
  BY <1>3, <1>4, <1>5, <1>6, SeqEqual
<1> QED BY <1>7 DEF x, y, z

\* and in front of two.
LEMMA OneAndTwo ==
    ASSUME NEW a \in Calls, NEW b \in Calls, NEW c \in Calls
    PROVE  <<a>> \o <<b, c>> = <<a, b, c>>
<1> DEFINE x == <<a>>
           y == <<b, c>>
           z == <<a, b, c>>
<1>1. x \in Seq(Calls) /\ Len(x) = 1 /\ x[1] = a
  OBVIOUS
<1>2. y \in Seq(Calls) /\ Len(y) = 2 /\ y[1] = b /\ y[2] = c
  OBVIOUS
<1>3. z \in Seq(Calls) /\ Len(z) = 3 /\ z[1] = a /\ z[2] = b /\ z[3] = c
  OBVIOUS
<1> HIDE DEF x, y, z
<1>4. /\ x \o y \in Seq(Calls) /\ Len(x \o y) = 3
      /\ \A i \in 1..3 : (x \o y)[i] = IF i <= 1 THEN x[i] ELSE y[i - 1]
  <2>1. /\ x \o y \in Seq(Calls) /\ Len(x \o y) = Len(x) + Len(y)
        /\ \A i \in 1..(Len(x) + Len(y)) :
              (x \o y)[i] = IF i <= Len(x) THEN x[i] ELSE y[i - Len(x)]
    BY <1>1, <1>2, ConcatProperties, Zenon
  <2>2. Len(x) + Len(y) = 3
    BY <1>1, <1>2
  <2> QED BY <1>1, <2>1, <2>2
<1>5. ASSUME NEW i \in 1..3 PROVE (x \o y)[i] = z[i]
  <2>1. i = 1 \/ i = 2 \/ i = 3
    OBVIOUS
  <2> QED BY <1>1, <1>2, <1>3, <1>4, <2>1
<1>6. x \o y = z
  BY <1>3, <1>4, <1>5, SeqEqual, Zenon
<1> QED BY <1>6 DEF x, y, z

\* ReceiveComplete() with data: what is written to the stream does not touch
\* the other direction.
LEMMA RcvDataKeeps ==
    ASSUME IInv, RcvData
    PROVE  IInv' /\ Relays
<1>1. Step("RcvData")
  BY DEF RcvData
<1>2. ~Idle /\ NotDialling /\ tun.started
  BY <1>1, AtHead DEF Dialling, Early
<1>3. tun \in Tun /\ str \in Str /\ sock \in Sock /\ elapsed \in Int
  BY DEF IInv, Typed
<1>4. tun' \in Tun /\ Alike(tun', tun)
  <2> DEFINE t == [tun EXCEPT !.receiving = FALSE]
  <2>1. t \in Tun /\ Alike(t, tun)
    <3>1. 0 \in Int /\ FALSE \in BOOLEAN
      OBVIOUS
    <3> QED BY <1>3, <3>1, MinorFields, Zenon
  <2>2. tun' = Classified(t, str)
    BY DEF RcvData
  <2> HIDE DEF t
  <2>3. tun' \in Tun /\ Alike(tun', t)
    BY <2>1, <2>2, ClassifiedEffect
  <2> QED BY <2>1, <2>3 DEF Alike
<1>5. PICK s \in WriteOutcomes(str, 1, FALSE) :
        str' = s /\ Call(GoneCall(str, s) \o <<"AfterWrite", "UpdateIdleClass">>)
  BY Zenon DEF RcvData
<1>6. Sends(str', str)
  <2>1. 1 \in Int /\ FALSE \in BOOLEAN
    OBVIOUS
  <2> QED BY <1>3, <1>5, <2>1, WriteEffect, Zenon
<1>7. /\ sock' \in Sock /\ sock'.state = sock.state
      /\ sock'.eof = sock.eof /\ sock'.err = sock.err
  <2>1. sock' = [sock EXCEPT !.avail = sock.avail - 1]
    BY Zenon DEF RcvData
  <2>2. \A n \in Int : [sock EXCEPT !.avail = n] \in Sock
    BY <1>3 DEF Sock
  <2>3. sock.avail - 1 \in Int
    BY <1>3 DEF Sock
  <2>4. sock'.state = sock.state
    BY <1>3, <2>1 DEF Sock
  <2>5. sock'.eof = sock.eof
    BY <1>3, <2>1, Zenon DEF Sock
  <2>6. sock'.err = sock.err
    BY <1>3, <2>1, Zenon DEF Sock
  <2> QED BY <2>1, <2>2, <2>3, <2>4, <2>5, <2>6, Zenon
<1>8. QuietData
  <2>1. elapsed' \in Int /\ UNCHANGED <<sent, tcpOut, reason, faults>>
    BY <1>3 DEF RcvData
  <2>2. /\ str' \in Str
        /\ \/ str'.unread = str.unread /\ str'.fin = str.fin
           \/ str'.unread = <<>> /\ str'.fin = str.fin
    BY <1>6 DEF Sends
  <2> QED BY <1>4, <1>7, <2>1, <2>2 DEF QuietData
<1>9. tun'.started
  BY <1>2, <1>4 DEF Alike
<1>10. CASE GoneCall(str, s) = <<"OnStreamGone">>
  <2> DEFINE cs == <<"OnStreamGone", "AfterWrite", "UpdateIdleClass">>
  <2>1. <<"OnStreamGone">> \o <<"AfterWrite", "UpdateIdleClass">> = cs
    BY OneAndTwo, Zenon DEF Calls
  <2>2. Call(cs)
    BY <1>5, <1>10, <2>1, Zenon
  <2>3. Made(cs) /\ Head(cs) \in Free
    BY <1>9, ThreeCalls, Zenon DEF Calls, Later, Free
  <2> HIDE DEF cs
  <2> QED BY <1>2, <1>8, <2>2, <2>3, QuietCall
<1>11. CASE GoneCall(str, s) = <<>>
  <2> DEFINE cs == <<"AfterWrite", "UpdateIdleClass">>
  <2>1. <<>> \o cs = cs
    OBVIOUS
  <2>2. Call(cs)
    BY <1>5, <1>11, <2>1
  <2>3. Made(cs) /\ Head(cs) \in Free
    BY <1>9, TwoCalls DEF Calls, Later, Free
  <2> HIDE DEF cs
  <2> QED BY <1>2, <1>8, <2>2, <2>3, QuietCall
<1> QED BY <1>10, <1>11 DEF GoneCall

\* OnStreamGone(), or nothing, follows a step that leaves the data alone.
LEMMA QuietGone ==
    ASSUME IInv, NotDialling, QuietData, NEW s, NEW u,
           (~Idle /\ Call(GoneCall(s, u))) \/ (Idle /\ todo' = GoneCall(s, u))
    PROVE  IInv' /\ Relays
<1>1. CASE GoneCall(s, u) = <<"OnStreamGone">>
  <2>1. tun'.started \/ ~tun.started
    BY DEF QuietData, Alike
  <2>2. "OnStreamGone" \in Calls /\ "OnStreamGone" \in Early /\ "OnStreamGone" \in Free
    BY DEF Calls, Early, Free
  <2>4. Made(<<"OnStreamGone">>) /\ Head(<<"OnStreamGone">>) \in Free
    BY <2>1, <2>2, OneCall
  <2>3. (~Idle /\ Call(<<"OnStreamGone">>)) \/ (Idle /\ todo' = <<"OnStreamGone">>)
    BY <1>1, Zenon
  <2> QED BY <2>3, <2>4, QuietCall
<1>2. CASE GoneCall(s, u) = <<>> /\ ~Idle
  <2>1. Call(<<>>)
    BY <1>2, Zenon
  <2>2. Return
    BY <1>2, <2>1, CallNothing
  <2> QED BY <1>2, <2>2, QuietReturn
<1>3. CASE GoneCall(s, u) = <<>> /\ Idle
  <2>1. todo' = todo /\ todo = <<>>
    BY <1>3 DEF Idle
  <2>2. StackInv'
    BY <2>1 DEF IInv, StackInv, Idle, QuietData, Alike
  <2>3. CallInv' /\ SocketInv'
    BY <2>1, FreeHead DEF QuietData, Idle
  <2> QED BY <2>2, <2>3, QuietStep
<1> QED BY <1>1, <1>2, <1>3 DEF GoneCall

\* WriteToStream("", fin = true).
LEMMA WriteFinKeeps ==
    ASSUME IInv, WriteFin
    PROVE  IInv' /\ Relays
<1>1. Step("WriteFin")
  BY DEF WriteFin
<1>2. ~Idle /\ NotDialling
  BY <1>1, AtHead DEF Dialling
<1>3. str \in Str
  BY DEF IInv, Typed
<1>4. PICK s \in WriteOutcomes(str, 0, TRUE) : str' = s /\ Call(GoneCall(str, s))
  BY Zenon DEF WriteFin
<1>5. Sends(str', str)
  <2>1. 0 \in Int /\ TRUE \in BOOLEAN
    OBVIOUS
  <2> QED BY <1>3, <1>4, <2>1, WriteEffect, Zenon
<1>6. QuietData
  BY <1>5, QuietSame DEF WriteFin
<1> QED BY <1>2, <1>4, <1>6, QuietGone

---------------------------------------------------------------------------
(* Events that move no data.                                               *)

\* Nothing is called back.
LEMMA QuietIdle ==
    ASSUME IInv, Idle, QuietData, todo' = todo
    PROVE  IInv' /\ Relays
<1>1. StackInv'
  BY DEF IInv, StackInv, Idle, QuietData, Alike
<1>2. NotDialling /\ Idle'
  BY DEF Idle, NotDialling
<1>3. CallInv' /\ SocketInv'
  BY <1>2, FreeHead DEF QuietData
<1> QED BY <1>1, <1>3, QuietStep

\* The peer acknowledges data.
LEMMA AckDataKeeps ==
    ASSUME IInv, AckData
    PROVE  IInv' /\ Relays
<1>1. str \in Str
  BY DEF IInv, Typed
<1>2. Sends(str', str)
  <2>1. str' = [str EXCEPT !.unacked = str.unacked - 1]
    BY Zenon DEF AckData
  <2>2. \A n \in Int : [str EXCEPT !.unacked = n] \in Str
    BY <1>1 DEF Str
  <2>3. str.unacked - 1 \in Int
    BY <1>1 DEF Str
  <2>4. str' \in Str
    BY <2>1, <2>2, <2>3, Zenon
  <2>5. str'.unread = str.unread
    BY <1>1, <2>1 DEF Str
  <2>6. str'.fin = str.fin
    BY <1>1, <2>1, Zenon DEF Str
  <2> QED BY <2>4, <2>5, <2>6 DEF Sends
<1>3. QuietData
  BY <1>2, QuietSame DEF AckData
<1> QED BY <1>3, QuietIdle DEF AckData

\* The peer acknowledges the FIN.
LEMMA AckFinKeeps ==
    ASSUME IInv, AckFin
    PROVE  IInv' /\ Relays
<1>1. str \in Str
  BY DEF IInv, Typed
<1>2. Sends(str', str)
  <2>1. str' = [str EXCEPT !.finUnacked = FALSE]
    BY DEF AckFin
  <2>2. str' \in Str
    BY <1>1, <2>1, Zenon DEF Str
  <2>3. str'.unread = str.unread
    BY <1>1, <2>1 DEF Str
  <2>4. str'.fin = str.fin
    BY <1>1, <2>1, Zenon DEF Str
  <2> QED BY <2>2, <2>3, <2>4 DEF Sends
<1>3. QuietData
  BY <1>2, QuietSame DEF AckFin
<1> QED BY <1>3, QuietIdle DEF AckFin

\* STOP_SENDING.
LEMMA PeerStopSendingKeeps ==
    ASSUME IInv, PeerStopSending
    PROVE  IInv' /\ Relays
<1>1. str \in Str
  BY DEF IInv, Typed
<1>2. Sends(str', str)
  <2>1. str' = [str EXCEPT !.rstSent = TRUE, !.writeClosed = TRUE]
    BY DEF PeerStopSending
  <2>2. str' \in Str
    BY <1>1, <2>1, Zenon DEF Str
  <2>3. str'.unread = str.unread
    BY <1>1, <2>1 DEF Str
  <2>4. str'.fin = str.fin
    BY <1>1, <2>1, Zenon DEF Str
  <2> QED BY <2>2, <2>3, <2>4 DEF Sends
<1>3. QuietData
  BY <1>2, QuietSame DEF PeerStopSending
<1>4. NotDialling
  BY DEF PeerStopSending, NotDialling
<1> QED BY <1>3, <1>4, QuietGone DEF PeerStopSending

\* The connection closes.
LEMMA ConnectionClosesKeeps ==
    ASSUME IInv, ConnectionCloses
    PROVE  IInv' /\ Relays
<1>1. str \in Str
  BY DEF IInv, Typed
<1>2. Sends(str', str)
  <2>1. str' = Dead(str)
    BY DEF ConnectionCloses
  <2>2. <<>> \in Seq(Chunk)
    BY EmptySeq
  <2>3. Dead(str) \in Str /\ Dead(str).unread = <<>>
    BY <1>1, <2>2, Zenon DEF Str, Dead
  <2>4. Dead(str).fin = str.fin
    BY <1>1, Zenon DEF Str, Dead
  <2> QED BY <2>1, <2>3, <2>4 DEF Sends
<1>3. QuietData
  BY <1>2, QuietSame DEF ConnectionCloses
<1>4. NotDialling
  BY DEF ConnectionCloses, NotDialling
<1> QED BY <1>3, <1>4, QuietGone DEF ConnectionCloses

\* RESET_STREAM drops what is unread, and the FIN if that was behind it.
LEMMA PeerResetKeeps ==
    ASSUME IInv, PeerReset
    PROVE  IInv' /\ Relays
<1>1. tun \in Tun /\ str \in Str /\ sock \in Sock /\ elapsed \in Int
  BY DEF IInv, Typed
<1>2. PICK f \in BOOLEAN : f = (str.fin /\ str.unread = <<>>)
  BY <1>1, Zenon DEF Str
<1>3. str' = [str EXCEPT !.readClosed = TRUE, !.unread = <<>>, !.rstReceived = TRUE,
                         !.fin = f]
  BY <1>2, Zenon DEF PeerReset
<1>4. str' \in Str
  <2>1. <<>> \in Seq(Chunk) /\ TRUE \in BOOLEAN
    BY EmptySeq
  <2>2. \A x \in Str, b \in BOOLEAN : [x EXCEPT !.readClosed = b] \in Str
    BY DEF Str
  <2>3. \A x \in Str, q \in Seq(Chunk) : [x EXCEPT !.unread = q] \in Str
    BY DEF Str
  <2>4. \A x \in Str, b \in BOOLEAN : [x EXCEPT !.rstReceived = b] \in Str
    BY DEF Str
  <2>5. \A x \in Str, b \in BOOLEAN : [x EXCEPT !.fin = b] \in Str
    BY DEF Str
  <2> DEFINE a == [str EXCEPT !.readClosed = TRUE]
             c == [a EXCEPT !.unread = <<>>]
             d == [c EXCEPT !.rstReceived = TRUE]
  <2>6. str' = [d EXCEPT !.fin = f]
    BY <1>3, Zenon
  <2>7. a \in Str
    BY <1>1, <2>1, <2>2, Zenon
  <2> HIDE DEF a
  <2>8. c \in Str
    BY <2>1, <2>3, <2>7, Zenon
  <2> HIDE DEF c
  <2>9. d \in Str
    BY <2>1, <2>4, <2>8, Zenon
  <2> HIDE DEF d
  <2> QED BY <2>5, <2>6, <2>9, Zenon
<1>5. str'.unread = <<>>
  BY <1>1, <1>3 DEF Str
<1>6. str'.fin = f
  BY <1>1, <1>3, Zenon DEF Str
<1>7. \/ str'.unread = <<>> /\ str'.fin = str.fin
      \/ str'.unread = <<>> /\ str.unread # <<>> /\ ~str'.fin
  <2>1. CASE str.unread = <<>>
    <3>1. str.fin \in BOOLEAN
      BY <1>1 DEF Str
    <3>2. f = str.fin
      BY <1>2, <2>1, <3>1
    <3> QED BY <1>5, <1>6, <3>2, Zenon
  <2>2. CASE str.unread # <<>>
    <3>1. ~f
      BY <1>2, <2>2, Zenon
    <3>2. ~str'.fin
      BY <1>6, <3>1
    <3> QED BY <1>5, <2>2, <3>2
  <2> QED BY <2>1, <2>2
<1>8. QuietData
  <2>1. Alike(tun', tun) /\ tun' \in Tun
    BY <1>1 DEF PeerReset, Alike
  <2>2. /\ sock' \in Sock /\ sock'.state = sock.state
        /\ sock'.eof = sock.eof /\ sock'.err = sock.err /\ elapsed' \in Int
    BY <1>1, Zenon DEF PeerReset
  <2>3. ~tun.closed /\ UNCHANGED <<sent, tcpOut, reason, faults>>
    BY DEF PeerReset
  <2> QED BY <1>4, <1>7, <2>1, <2>2, <2>3 DEF QuietData
<1>9. NotDialling
  BY DEF PeerReset, NotDialling
<1> QED BY <1>8, <1>9, QuietGone DEF PeerReset

\* QuicStream::OnCanWrite().
LEMMA OnCanWriteKeeps ==
    ASSUME IInv, OnCanWrite
    PROVE  IInv' /\ Relays
<1>1. str \in Str
  BY DEF IInv, Typed
<1>2. Sends(str', str)
  BY <1>1, WrittenEffect DEF OnCanWrite
<1>3. QuietData
  BY <1>2, QuietSame DEF OnCanWrite
<1>4. NotDialling /\ Idle /\ (tun'.started \/ ~tun.started)
  BY DEF OnCanWrite, NotDialling
<1> DEFINE g == GoneCall(str, str')
           more == "OnStreamCanWriteMore"
<1>5. g = <<>> \/ g = <<"OnStreamGone">>
  BY DEF GoneCall
<1>6. todo' = g \o (IF str.finBuffered THEN <<>> ELSE <<more>>)
  BY DEF OnCanWrite
<1>7. \/ todo' = GoneCall(str, str')
      \/ todo' = <<more>>
      \/ todo' = <<"OnStreamGone", more>>
  <2> HIDE DEF g
  <2>1. <<>> \o <<>> = <<>> /\ <<"OnStreamGone">> \o <<>> = <<"OnStreamGone">>
    OBVIOUS
  <2>2. <<>> \o <<more>> = <<more>>
    OBVIOUS
  <2>3. <<"OnStreamGone">> \o <<more>> = <<"OnStreamGone", more>>
    BY OneAndOne DEF Calls
  <2>4. g \o <<>> = g
    BY <1>5, <2>1
  <2>5. g \o <<more>> = <<more>> \/ g \o <<more>> = <<"OnStreamGone", more>>
    BY <1>5, <2>2, <2>3, Zenon
  <2> HIDE DEF more
  <2>6. CASE str.finBuffered
    BY <1>6, <2>4, <2>6 DEF g
  <2>7. CASE ~str.finBuffered
    BY <1>6, <2>5, <2>7
  <2> QED BY <2>6, <2>7
<1>8. /\ "OnStreamGone" \in Calls /\ "OnStreamGone" \in Early /\ "OnStreamGone" \in Free
      /\ more \in Calls /\ more \in Early /\ more \in Later /\ more \in Free
  BY DEF Calls, Early, Later, Free
<1> HIDE DEF more
<1>9. CASE todo' = GoneCall(str, str')
  BY <1>3, <1>4, <1>9, QuietGone
<1>10. CASE todo' = <<more>>
  <2>1. Made(<<more>>) /\ Head(<<more>>) \in Free
    BY <1>4, <1>8, OneCall
  <2> QED BY <1>3, <1>4, <1>10, <2>1, QuietCall
<1>11. CASE todo' = <<"OnStreamGone", more>>
  <2>1. Made(<<"OnStreamGone", more>>) /\ Head(<<"OnStreamGone", more>>) \in Free
    BY <1>4, <1>8, TwoCalls
  <2> QED BY <1>3, <1>4, <1>11, <2>1, QuietCall
<1> QED BY <1>7, <1>9, <1>10, <1>11

\* OnFlushCloseAlarm().
LEMMA FlushAlarmKeeps ==
    ASSUME IInv, FlushAlarm
    PROVE  IInv' /\ Relays
<1>1. tun \in Tun /\ elapsed \in Int
  BY DEF IInv, Typed
<1>2. tun' \in Tun /\ Alike(tun', tun)
  <2>1. 0 \in Int /\ TRUE \in BOOLEAN
    OBVIOUS
  <2> QED BY <1>1, <2>1, MinorFields, Zenon DEF FlushAlarm
<1>3. QuietData
  <2>1. elapsed' \in Int
    BY <1>1 DEF FlushAlarm
  <2> QED BY <1>2, <2>1, QuietTun DEF FlushAlarm
<1>4. Idle /\ NotDialling /\ (tun'.started \/ ~tun.started)
  BY <1>2 DEF FlushAlarm, NotDialling, Alike
<1>5. "Finalize" \in Calls /\ "Finalize" \in Early /\ "Finalize" \in Free
  BY DEF Calls, Early, Free
<1>6. Made(<<"Finalize">>) /\ Head(<<"Finalize">>) \in Free
  BY <1>4, <1>5, OneCall
<1>7. todo' = <<"Finalize">>
  BY DEF FlushAlarm
<1> QED BY <1>3, <1>4, <1>6, <1>7, QuietCall

\* Time passes.
LEMMA TickKeeps ==
    ASSUME IInv, Tick
    PROVE  IInv' /\ Relays
<1>1. tun' \in Tun /\ elapsed' \in Int
  BY DEF IInv, Typed, Tick
<1>2. Alike(tun', tun)
  BY DEF Tick, Alike
<1>3. QuietData
  BY <1>1, <1>2, QuietTun DEF Tick
<1> QED BY <1>3, QuietIdle DEF Tick

\* Nothing happens.
LEMMA StutterKeeps ==
    ASSUME IInv, UNCHANGED vars
    PROVE  IInv' /\ Relays
<1>1. QuietData
  BY QuietSame DEF vars
<1>2. StackInv' /\ CallInv' /\ SocketInv'
  BY DEF vars, IInv, StackInv, CallInv, SocketInv, Step, Idle
<1> QED BY <1>1, <1>2, QuietStep

---------------------------------------------------------------------------
(* Steps that close the tunnel.                                            *)

\* Outside the dial-out the socket of an open tunnel can be disconnected.
LEMMA Closable ==
    ASSUME IInv, ~tun.closed, NotDialling
    PROVE  sock.state \in {"connecting", "connected"}
  BY DEF IInv, SocketInv, NotDialling

\* Close() may be called on the tunnel as it is,
LEMMA CloseAsIs ==
    ASSUME IInv, ~tun.closed, NotDialling
    PROVE  AtClose(tun)
<1>1. tun \in Tun
  BY DEF IInv, Typed
<1> QED BY <1>1, Closable DEF AtClose

\* and after what its callers reset.
LEMMA CloseAfter ==
    ASSUME IInv, ~tun.closed
    PROVE  /\ AtClose([tun EXCEPT !.disconnected = TRUE])
           /\ NotDialling => AtClose([tun EXCEPT !.receiving = FALSE])
           /\ NotDialling => AtClose([tun EXCEPT !.sending = 0])
<1>1. tun \in Tun
  BY DEF IInv, Typed
<1>2. AtClose([tun EXCEPT !.disconnected = TRUE])
  BY <1>1, Zenon DEF AtClose, Tun
<1>3. ASSUME NotDialling PROVE AtClose([tun EXCEPT !.receiving = FALSE])
  <2>1. sock.state \in {"connecting", "connected"}
    BY <1>3, Closable
  <2> QED BY <1>1, <2>1, Zenon DEF AtClose, Tun
<1>4. ASSUME NotDialling PROVE AtClose([tun EXCEPT !.sending = 0])
  <2>1. sock.state \in {"connecting", "connected"}
    BY <1>4, Closable
  <2> QED BY <1>1, <2>1 DEF AtClose, Tun
<1> QED BY <1>2, <1>3, <1>4

\* ConnectComplete() with an error.
LEMMA ConnectFailedKeeps ==
    ASSUME IInv, ConnectFailed
    PROVE  IInv' /\ Relays
<1>1. Step("ConnectFailed") /\ Return /\ UNCHANGED <<sent, tcpOut, elapsed>>
  BY Zenon DEF ConnectFailed
<1>2. ~Idle /\ ~tun.closed
  BY <1>1, AtHead DEF IInv, SocketInv
<1> DEFINE t == [tun EXCEPT !.disconnected = TRUE]
<1>3. AtClose(t)
  BY <1>2, CloseAfter
<1>4. CloseWith(t, str, "target connect failed", TRUE)
  BY <1>2, Zenon DEF ConnectFailed
<1> HIDE DEF t
<1>5. "target connect failed" \in Reasons \ {""}
  BY DEF Reasons
<1> QED BY <1>1, <1>2, <1>3, <1>4, <1>5, CloseStep, Zenon

\* OnStreamGone().
LEMMA OnStreamGoneKeeps ==
    ASSUME IInv, OnStreamGone
    PROVE  IInv' /\ Relays
<1>1. Step("OnStreamGone") /\ Return /\ UNCHANGED <<sent, tcpOut, elapsed>>
  BY Zenon DEF OnStreamGone
<1>2. ~Idle /\ NotDialling
  BY <1>1, AtHead DEF Dialling
<1>3. CASE tun.closed
  <2>1. QuietData
    BY <1>1, <1>3, QuietSame DEF OnStreamGone
  <2> QED BY <1>1, <1>2, <2>1, QuietReturn
<1>4. CASE ~tun.closed
  <2>1. AtClose(tun)
    BY <1>2, <1>4, CloseAsIs
  <2>2. CloseWith(tun, str, "stream closed", FALSE)
    BY <1>4, Zenon DEF OnStreamGone
  <2>3. "stream closed" \in Reasons \ {""}
    BY DEF Reasons
  <2> QED BY <1>1, <1>2, <1>4, <2>1, <2>2, <2>3, CloseStep, Zenon
<1> QED BY <1>3, <1>4

\* ReceiveComplete() with an error.
LEMMA RcvErrKeeps ==
    ASSUME IInv, RcvErr
    PROVE  IInv' /\ Relays
<1>1. Step("RcvErr") /\ Return /\ UNCHANGED <<sent, tcpOut, elapsed>>
  BY Zenon DEF RcvErr
<1>2. ~Idle /\ NotDialling /\ ~tun.closed
  BY <1>1, AtHead DEF Dialling, IInv, CallInv
<1> DEFINE t == [tun EXCEPT !.receiving = FALSE]
<1>3. AtClose(t)
  BY <1>2, CloseAfter
<1>4. CloseWith(t, str, "TCP receive error", TRUE)
  BY Zenon DEF RcvErr
<1> HIDE DEF t
<1>5. "TCP receive error" \in Reasons \ {""}
  BY DEF Reasons
<1> QED BY <1>1, <1>2, <1>3, <1>4, <1>5, CloseStep, Zenon

\* SendComplete() with an error.
LEMMA SendErrKeeps ==
    ASSUME IInv, SendErr
    PROVE  IInv' /\ Relays
<1>1. Step("SendErr") /\ Return /\ UNCHANGED <<sent, tcpOut, elapsed>>
  BY Zenon DEF SendErr
<1>2. ~Idle /\ NotDialling /\ ~tun.closed
  BY <1>1, AtHead DEF Dialling, IInv, CallInv
<1> DEFINE t == [tun EXCEPT !.sending = 0]
<1>3. AtClose(t)
  BY <1>2, CloseAfter
<1>4. CloseWith(t, str, "TCP send error", TRUE)
  BY Zenon DEF SendErr
<1> HIDE DEF t
<1>5. "TCP send error" \in Reasons \ {""}
  BY DEF Reasons
<1> QED BY <1>1, <1>2, <1>3, <1>4, <1>5, CloseStep, Zenon

\* CloseIdleTunnels().
LEMMA IdleSweepKeeps ==
    ASSUME IInv, IdleSweep
    PROVE  IInv' /\ Relays
<1>1. Idle /\ ~tun.closed /\ todo' = todo /\ UNCHANGED <<sent, tcpOut, elapsed>>
  BY Zenon DEF IdleSweep
<1>2. AtClose(tun)
  BY <1>1, CloseAsIs DEF NotDialling
<1>3. CloseWith(tun, str, "idle timeout", TRUE)
  BY Zenon DEF IdleSweep
<1>4. "idle timeout" \in Reasons \ {""}
  BY DEF Reasons
<1> QED BY <1>1, <1>2, <1>3, <1>4, CloseStep, Zenon

\* A tunnel whose receive is over has delivered everything, or TCP has closed.
LEMMA Drained ==
    ASSUME IInv, ~tun.closed, tun.rcvDone
    PROVE  (str.fin /\ Down = <<>>) \/ sock.eof
<1>1. ASSUME ~sock.eof
      PROVE  str.fin /\ Down = <<>>
  <2>1. /\ tun.started /\ tun.quicDone /\ str.fin
        /\ tun.pending = <<>> /\ tun.sending = 0 /\ tun.seed = <<>> /\ str.unread = <<>>
    BY <1>1 DEF IInv, QueueInv
  <2>2. Down = ((<<>> \o <<>>) \o <<>>) \o <<>>
    BY <2>1 DEF Down, InFlight
  <2>3. <<>> \o <<>> = <<>>
    BY ConcatEmptySeq, EmptySeq
  <2>4. Down = <<>>
    BY <2>2, <2>3, Zenon
  <2> QED BY <2>1, <2>4
<1> QED BY <1>1

\* MaybeFinalizeClose().
LEMMA FinalizeKeeps ==
    ASSUME IInv, Finalize
    PROVE  IInv' /\ Relays
<1>1. Step("Finalize") /\ Return /\ UNCHANGED <<sent, tcpOut, elapsed>>
  BY Zenon DEF Finalize
<1>2. ~Idle /\ NotDialling
  BY <1>1, AtHead DEF Dialling
<1>3. CASE UNCHANGED <<tun, str, sock, reason, faults>>
  <2>1. QuietData
    BY <1>1, <1>3, QuietSame
  <2> QED BY <1>1, <1>2, <2>1, QuietReturn
<1>4. CASE ~tun.closed /\ tun.rcvDone /\ CloseWith(tun, str, "tunnel finished", FALSE)
  <2>1. AtClose(tun)
    BY <1>2, <1>4, CloseAsIs, Zenon
  <2>2. (str.fin /\ Down = <<>>) \/ sock.eof
    BY <1>4, Drained, Zenon
  <2>3. "tunnel finished" \in Reasons \ {""}
    BY DEF Reasons
  <2> QED BY <1>1, <1>2, <1>4, <2>1, <2>2, <2>3, CloseStep, Zenon
<1>5. CASE ~tun.closed /\ CloseWith(tun, str, "flush wait exceeded", TRUE)
  <2>1. AtClose(tun)
    BY <1>2, <1>5, CloseAsIs, Zenon
  <2>2. "flush wait exceeded" \in Reasons \ {""}
    BY DEF Reasons
  <2> QED BY <1>1, <1>2, <1>5, <2>1, <2>2, CloseStep, Zenon
<1>6. CASE tun' = [tun EXCEPT !.alarm = NextAlarm] /\ UNCHANGED <<str, sock, reason, faults>>
  <2>1. tun \in Tun /\ elapsed \in Int
    BY DEF IInv, Typed
  <2>2. NextAlarm \in Int
    BY <2>1, TunnelAssumption DEF NextAlarm, Tun
  <2>3. PICK n \in Int : n = NextAlarm
    BY <2>2
  <2>4. tun' = [tun EXCEPT !.alarm = n]
    BY <1>6, <2>3
  <2>5. tun' \in Tun /\ Alike(tun', tun)
    <3>1. TRUE \in BOOLEAN
      OBVIOUS
    <3> QED BY <2>1, <2>4, <3>1, MinorFields, Zenon
  <2>6. elapsed' \in Int
    BY <1>1, <2>1
  <2>7. QuietData
    BY <1>1, <1>6, <2>5, <2>6, QuietTun
  <2> QED BY <1>1, <1>2, <2>7, QuietReturn
<1> QED BY <1>3, <1>4, <1>5, <1>6, Zenon DEF Finalize

---------------------------------------------------------------------------
(* Completions: calls that rely on where the socket is.                    *)

\* A completion is made at once: what it relies on is given.
LEMMA Completing ==
    ASSUME IInv, NotDialling, QuietData, NEW calls, Made(calls), tun.started, ~tun.closed,
           (~Idle /\ Call(calls)) \/ (Idle /\ todo' = calls),
           Head(calls) \in {"RcvErr", "RcvData", "RcvEof", "SendOk", "SendErr"},
           Head(calls) = "RcvEof" => sock.eof,
           Head(calls) \in {"SendOk", "SendErr"} => tun.sending # 0
    PROVE  IInv' /\ Relays
<1>1. StackInv' /\ ~Idle' /\ Head(todo') = Head(calls)
  BY Calling DEF IInv
<1>2. /\ tun'.started /\ ~tun'.closed /\ tun'.sending = tun.sending
      /\ sock'.state = sock.state /\ (sock'.eof <=> sock.eof)
  <2>1. sock'.eof <=> sock.eof
    BY Zenon DEF QuietData
  <2> QED BY <2>1 DEF QuietData, Alike
<1>3. CallInv'
  BY <1>1, <1>2 DEF CallInv, Step
<1>4. SocketInv'
  BY <1>1, <1>2 DEF IInv, SocketInv, Step, Dialling
<1> QED BY <1>1, <1>3, <1>4, QuietStep

\* ConnectComplete(): Start() follows.
LEMMA ConnectOkKeeps ==
    ASSUME IInv, ConnectOk
    PROVE  IInv' /\ Relays
<1>1. Step("ConnectOk")
  BY DEF ConnectOk
<1>2. ~Idle /\ sock.state = "connected" /\ ~tun.started /\ ~tun.closed
  BY <1>1, AtHead DEF IInv, SocketInv
<1>3. QuietData
  BY QuietSame DEF ConnectOk
<1>4. Call(<<"Start">>)
  BY <1>2 DEF ConnectOk
<1>5. Made(<<"Start">>) /\ Head(<<"Start">>) = "Start"
  <2>1. "Start" \in Calls /\ "Start" \in Early
    BY DEF Calls, Early, Dialling
  <2> QED BY <1>2, <2>1, OneCall
<1>6. StackInv' /\ ~Idle' /\ Head(todo') = "Start"
  BY <1>2, <1>4, <1>5, Calling DEF IInv
<1>7. ~tun'.started /\ ~tun'.closed /\ sock'.state = "connected"
  BY <1>2, <1>3 DEF QuietData, Alike
<1>8. CallInv' /\ SocketInv'
  BY <1>6, <1>7 DEF CallInv, SocketInv, Step, Dialling, Idle
<1> QED BY <1>3, <1>6, <1>8, QuietStep

\* BeginReadFromTcp().
LEMMA BeginReadKeeps ==
    ASSUME IInv, BeginRead
    PROVE  IInv' /\ Relays
<1>1. Step("BeginRead")
  BY DEF BeginRead
<1>2. ~Idle /\ NotDialling /\ tun.started
  BY <1>1, AtHead DEF Dialling, Early
<1>3. CASE tun.closed \/ tun.receiving \/ tun.rcvDone
  <2>1. Return /\ QuietData
    BY <1>3, QuietSame, Zenon DEF BeginRead
  <2> QED BY <1>2, <2>1, QuietReturn
<1>4. CASE ~(tun.closed \/ tun.receiving \/ tun.rcvDone)
  <2>1. ~tun.closed /\ sock.state = "connected"
    BY <1>2, <1>4 DEF IInv, SocketInv
  <2>2. tun \in Tun /\ elapsed \in Int
    BY DEF IInv, Typed
  <2>3. tun' \in Tun /\ Alike(tun', tun)
    <3>1. 0 \in Int /\ TRUE \in BOOLEAN
      OBVIOUS
    <3>2. tun' = [tun EXCEPT !.receiving = TRUE]
      BY <1>4 DEF BeginRead
    <3> QED BY <1>2, <2>2, <3>1, <3>2, MinorFields, Zenon
  <2>4. faults' = faults
    <3>1. UseSocket("ReceiveAsync()", FALSE)
      BY <1>4, Zenon DEF BeginRead
    <3> QED BY <2>1, <3>1 DEF UseSocket
  <2>5. QuietData
    <3>1. elapsed' \in Int
      BY <2>2 DEF BeginRead
    <3> QED BY <2>3, <2>4, <3>1, QuietTun DEF BeginRead
  <2>6. tun'.started
    BY <1>2, <2>3 DEF Alike
  <2>7. \/ Return
        \/ Call(<<"RcvErr">>)
        \/ Call(<<"RcvData">>)
        \/ sock.eof /\ Call(<<"RcvEof">>)
    BY <1>4 DEF BeginRead
  <2>8. CASE Return
    BY <1>2, <2>5, <2>8, QuietReturn
  <2>9. ASSUME NEW c \in {"RcvErr", "RcvData", "RcvEof"}, Call(<<c>>), c = "RcvEof" => sock.eof
        PROVE  IInv' /\ Relays
    <3>1. Made(<<c>>) /\ Head(<<c>>) = c
      BY <2>6, OneCall DEF Calls
    <3> QED BY <1>2, <2>1, <2>5, <2>9, <3>1, Completing
  <2> QED BY <2>7, <2>8, <2>9
<1> QED BY <1>3, <1>4

\* An open tunnel that waits for its socket has been started.
LEMMA WaitingIsStarted ==
    ASSUME IInv, tun.sending # 0 \/ tun.receiving
    PROVE  tun.started
  BY DEF IInv, QueueInv

\* OnSocketEvent(kSocketEventWritable).
LEMMA SocketWritableKeeps ==
    ASSUME IInv, SocketWritable
    PROVE  IInv' /\ Relays
<1>1. Idle /\ NotDialling /\ ~tun.closed /\ tun.sending # 0
  BY DEF SocketWritable, NotDialling
<1>2. tun.started
  BY <1>1, WaitingIsStarted
<1>3. QuietData
  BY QuietSame DEF SocketWritable
<1>4. PICK c \in {"SendOk", "SendErr"} : todo' = <<c>>
  BY DEF SocketWritable
<1>5. Made(<<c>>) /\ Head(<<c>>) = c
  <2>1. tun'.started
    BY <1>2 DEF SocketWritable
  <2> QED BY <2>1, OneCall DEF Calls
<1> QED BY <1>1, <1>2, <1>3, <1>4, <1>5, Completing

\* OnSocketEvent(kSocketEventReadable).
LEMMA SocketReadableKeeps ==
    ASSUME IInv, SocketReadable
    PROVE  IInv' /\ Relays
<1>1. Idle /\ NotDialling /\ ~tun.closed /\ tun.receiving
  BY DEF SocketReadable, NotDialling
<1>2. tun.started
  BY <1>1, WaitingIsStarted
<1>3. QuietData
  BY QuietSame DEF SocketReadable
<1>4. PICK c \in {"RcvErr", "RcvData", "RcvEof"} :
        todo' = <<c>> /\ (c = "RcvEof" => sock.eof)
  BY DEF SocketReadable
<1>5. Made(<<c>>) /\ Head(<<c>>) = c
  <2>1. tun'.started
    BY <1>2 DEF SocketReadable
  <2> QED BY <2>1, OneCall DEF Calls
<1> QED BY <1>1, <1>2, <1>3, <1>4, <1>5, Completing

---------------------------------------------------------------------------
(* The dial-out and the TCP side.                                          *)

\* Only the socket's state changes: nothing the relay sees.
LEMMA DialStep ==
    ASSUME IInv, NEW x \in {"connecting", "connected", "failed"},
           sock' = [sock EXCEPT !.state = x],
           UNCHANGED <<tun, str, sent, tcpOut, elapsed, reason, faults>>,
           StackInv', CallInv', SocketInv'
    PROVE  IInv' /\ Relays
<1>1. sock \in Sock
  BY DEF IInv, Typed
<1>2. sock' \in Sock
  BY <1>1 DEF Sock
<1>3. sock'.eof = sock.eof
  BY <1>1, Zenon DEF Sock
<1>4. sock'.err = sock.err
  BY <1>1, Zenon DEF Sock
<1>5. Typed'
  BY <1>2 DEF IInv, Typed
<1>6. sock'.eof <=> sock.eof
  BY <1>3
<1>7. QueueInv'
  BY <1>6 DEF IInv, QueueInv
<1>8. CloseInv'
  BY Zenon DEF IInv, CloseInv
<1>9. Relays
  <2>1. Down' = Down /\ str'.fin = str.fin
    BY Zenon DEF Down, InFlight
  <2> QED BY <1>3, <1>4, <2>1, RelayStutters
<1> QED BY <1>5, <1>7, <1>8, <1>9 DEF IInv

\* The socket after it: its state is the new one.
LEMMA DialState ==
    ASSUME IInv, NEW x, sock' = [sock EXCEPT !.state = x]
    PROVE  sock'.state = x
<1>1. sock \in Sock
  BY DEF IInv, Typed
<1> QED BY <1>1 DEF Sock

\* A completion of the dial-out is made at once.
LEMMA DialCompleting ==
    ASSUME IInv, NEW x \in {"connected", "failed"}, NEW c, ~tun.started, ~tun.closed,
           x = "connected" => c = "ConnectOk", x = "failed" => c = "ConnectFailed",
           sock' = [sock EXCEPT !.state = x],
           UNCHANGED <<tun, str, sent, tcpOut, elapsed, reason, faults>>,
           (~Idle /\ Call(<<c>>)) \/ (Idle /\ todo' = <<c>>)
    PROVE  IInv' /\ Relays
<1>1. c \in Calls /\ c \in Early
  BY DEF Calls, Early, Dialling
<1>2. Made(<<c>>) /\ Head(<<c>>) = c
  BY <1>1, OneCall
<1>3. StackInv' /\ ~Idle' /\ Head(todo') = c
  BY <1>2, Calling DEF IInv
<1>4. sock'.state = x
  BY DialState
<1>5. CallInv'
  BY <1>3 DEF CallInv, Step
<1>6. SocketInv'
  BY <1>3, <1>4 DEF SocketInv, Step, Idle, Dialling
<1> QED BY <1>3, <1>5, <1>6, DialStep

\* ConnectAsync() of the owner.
LEMMA ConnectAsyncKeeps ==
    ASSUME IInv, ConnectAsync
    PROVE  IInv' /\ Relays
<1>1. Step("ConnectAsync") /\ UNCHANGED <<tun, str, sent, tcpOut, elapsed, reason, faults>>
  BY DEF ConnectAsync
<1>2. ~Idle /\ ~tun.started /\ ~tun.closed
  BY <1>1, AtHead DEF IInv, SocketInv
<1>3. CASE sock' = [sock EXCEPT !.state = "failed"] /\ Call(<<"ConnectFailed">>)
  BY <1>1, <1>2, <1>3, DialCompleting
<1>4. CASE sock' = [sock EXCEPT !.state = "connected"] /\ Call(<<"ConnectOk">>)
  BY <1>1, <1>2, <1>4, DialCompleting
<1>5. CASE sock' = [sock EXCEPT !.state = "connecting"] /\ Return
  <2>1. StackInv' /\ (Idle' \/ Head(todo') \in Later)
    BY <1>1, <1>2, <1>5, Returning DEF IInv
  <2>2. sock'.state = "connecting"
    BY <1>5, DialState
  <2>3. CallInv'
    BY <2>1 DEF CallInv, Step, Idle, Later
  <2>4. SocketInv'
    BY <1>1, <1>2, <2>1, <2>2 DEF SocketInv, Step, Idle, Later, Dialling
  <2> QED BY <1>1, <1>5, <2>1, <2>3, <2>4, DialStep
<1> QED BY <1>3, <1>4, <1>5 DEF ConnectAsync

\* The outcome of a pending dial-out: a tunnel that is connecting has not
\* been started.
LEMMA DialCompletesKeeps ==
    ASSUME IInv, DialCompletes
    PROVE  IInv' /\ Relays
<1>1. /\ Idle /\ ~tun.closed /\ sock.state = "connecting"
      /\ UNCHANGED <<tun, str, sent, tcpOut, elapsed, reason, faults>>
  BY DEF DialCompletes
<1>2. ~tun.started
  BY <1>1 DEF IInv, SocketInv
<1>3. CASE sock' = [sock EXCEPT !.state = "failed"] /\ todo' = <<"ConnectFailed">>
  BY <1>1, <1>2, <1>3, DialCompleting
<1>4. CASE sock' = [sock EXCEPT !.state = "connected"] /\ todo' = <<"ConnectOk">>
  BY <1>1, <1>2, <1>4, DialCompleting
<1> QED BY <1>3, <1>4 DEF DialCompletes

\* The TCP side sends, closes or fails.
LEMMA TcpArrivesKeeps ==
    ASSUME IInv, TcpArrives
    PROVE  IInv' /\ Relays
<1>1. /\ Idle /\ ~tun.closed
      /\ UNCHANGED <<tun, str, todo, sent, tcpOut, elapsed, reason, faults>>
  BY DEF TcpArrives
<1>2. tun \in Tun /\ str \in Str /\ sock \in Sock /\ elapsed \in Int
  BY DEF IInv, Typed
<1>3. reason = ""
  BY <1>1, Zenon DEF IInv, CloseInv
<1>4. CASE sock' = [sock EXCEPT !.avail = @ + 1, !.given = @ + 1]
  <2>1. PICK m \in Int, n \in Int : m = sock.avail + 1 /\ n = sock.given + 1
    BY <1>2 DEF Sock
  <2>2. sock' = [sock EXCEPT !.avail = m, !.given = n]
    BY <1>4, <2>1, Zenon
  <2>3. sock' \in Sock /\ sock'.state = sock.state
    BY <1>2, <2>2, Zenon DEF Sock
  <2>4. sock'.eof = sock.eof
    BY <1>2, <2>2, Zenon DEF Sock
  <2>5. sock'.err = sock.err
    BY <1>2, <2>2, Zenon DEF Sock
  <2>6. tun' \in Tun /\ str' \in Str /\ elapsed' \in Int /\ Alike(tun', tun)
    BY <1>1, <1>2 DEF Alike
  <2>7. str'.unread = str.unread /\ str'.fin = str.fin
    BY <1>1, Zenon
  <2>8. QuietData
    BY <1>1, <2>3, <2>4, <2>5, <2>6, <2>7 DEF QuietData
  <2> QED BY <1>1, <2>8, QuietIdle
<1>5. ASSUME sock' \in Sock, sock'.state = sock.state, sock'.eof \/ sock'.err,
             sock.eof => sock'.eof
      PROVE  IInv' /\ Relays
  <2>1. Typed'
    BY <1>1, <1>5 DEF IInv, Typed
  <2>2. StackInv' /\ CallInv'
    BY <1>1 DEF IInv, StackInv, CallInv, Step, Idle
  <2>3. SocketInv'
    BY <1>1, <1>5 DEF IInv, SocketInv, Step, Idle
  <2>4. QueueInv' /\ CloseInv'
    BY <1>1, <1>5, Zenon DEF IInv, QueueInv, CloseInv
  <2>5. Relays
    <3>1. Down' = Down /\ str'.fin = str.fin
      BY <1>1, Zenon DEF Down, InFlight
    <3> QED BY <1>1, <1>3, <1>5, <3>1, RelayTcpCloses, Zenon
  <2> QED BY <2>1, <2>2, <2>3, <2>4, <2>5 DEF IInv
<1>6. CASE sock' = [sock EXCEPT !.eof = TRUE]
  BY <1>2, <1>5, <1>6, Zenon DEF Sock
<1>7. CASE sock' = [sock EXCEPT !.err = TRUE]
  <2>1. sock' \in Sock /\ sock'.state = sock.state /\ sock'.err
    BY <1>2, <1>7, Zenon DEF Sock
  <2>2. sock'.eof = sock.eof
    BY <1>2, <1>7, Zenon DEF Sock
  <2> QED BY <1>5, <2>1, <2>2
<1> QED BY <1>4, <1>6, <1>7 DEF TcpArrives

---------------------------------------------------------------------------
(* Steps that move data or end a direction.                                *)

\* What is left to show of a step that leaves the socket alone.
LEMMA MovingStep ==
    ASSUME IInv, tun' \in Tun, str' \in Str, sock' = sock, elapsed' \in Int,
           UNCHANGED <<sent, reason, faults>>,
           tun'.closed <=> tun.closed, tun'.disconnected <=> tun.disconnected,
           tun'.started, ~tun.closed => sock.state = "connected",
           StackInv', Idle' \/ Head(todo') \notin Dialling, CallInv', QueueInv'
    PROVE  IInv'
<1>1. Typed'
  BY DEF IInv, Typed
<1>2. SocketInv'
  BY DEF SocketInv, Step, Idle, Dialling
<1>3. CloseInv'
  BY Zenon DEF IInv, CloseInv
<1> QED BY <1>1, <1>2, <1>3 DEF IInv

\* Nothing is called that relies on anything.
LEMMA FreeCalls ==
    ASSUME Idle' \/ Head(todo') \in Free
    PROVE  CallInv' /\ (Idle' \/ Head(todo') \notin Dialling)
  BY DEF CallInv, Step, Idle, Free, Dialling

\* The receive side is over: the FIN is written.
LEMMA RcvOver ==
    ASSUME IInv, ~Idle, NotDialling, tun.started, NEW t,
           t = [tun EXCEPT !.rcvDone = TRUE]
             \/ t = [tun EXCEPT !.receiving = FALSE, !.rcvDone = TRUE],
           tun' = t, elapsed' = 0, Call(<<"WriteFin", "Finalize">>),
           ~tun.closed => sock.eof \/ (tun.quicDone /\ tun.pending = <<>> /\ tun.sending = 0),
           UNCHANGED <<str, sock, sent, tcpOut, reason, faults>>
    PROVE  IInv' /\ Relays
<1>1. tun \in Tun /\ str \in Str
  BY DEF IInv, Typed
<1>2. /\ tun' \in Tun /\ tun'.seed = tun.seed /\ tun'.pending = tun.pending
      /\ tun'.sending = tun.sending
      /\ tun'.started <=> tun.started
      /\ tun'.closed <=> tun.closed
      /\ tun'.disconnected <=> tun.disconnected
      /\ tun'.quicDone <=> tun.quicDone
  <2>1. CASE t = [tun EXCEPT !.rcvDone = TRUE]
    BY <1>1, <2>1, Zenon DEF Tun
  <2>2. CASE t = [tun EXCEPT !.receiving = FALSE, !.rcvDone = TRUE]
    BY <1>1, <2>2, Zenon DEF Tun
  <2> QED BY <2>1, <2>2
<1>3. Made(<<"WriteFin", "Finalize">>) /\ Head(<<"WriteFin", "Finalize">>) \in Free
  BY <1>2, TwoCalls DEF Calls, Later, Free
<1>4. StackInv' /\ Head(todo') \in Free
  BY <1>3, Calling DEF IInv
<1>5. CallInv' /\ (Idle' \/ Head(todo') \notin Dialling)
  BY <1>4, FreeCalls
<1>6. QueueInv'
  BY <1>2 DEF IInv, QueueInv
<1>7. ~tun.closed => sock.state = "connected"
  BY DEF IInv, SocketInv
<1>8. str' \in Str /\ elapsed' \in Int
  BY <1>1
<1>9. IInv'
  BY <1>2, <1>4, <1>5, <1>6, <1>7, <1>8, MovingStep
<1>10. Relays
  <2>1. Down' = Down
    BY <1>2 DEF Down, InFlight
  <2>2. str'.fin = str.fin /\ sock'.eof = sock.eof /\ sock'.err = sock.err
    BY Zenon
  <2> QED BY <2>1, <2>2, RelayStutters
<1> QED BY <1>9, <1>10

\* ReceiveComplete() at EOF.
LEMMA RcvEofKeeps ==
    ASSUME IInv, RcvEof
    PROVE  IInv' /\ Relays
<1>1. Step("RcvEof")
  BY DEF RcvEof
<1>2. ~Idle /\ NotDialling /\ tun.started /\ sock.eof
  BY <1>1, AtHead DEF Dialling, Early, IInv, CallInv
<1> QED BY <1>2, RcvOver DEF RcvEof

\* MaybeCloseAfterQuicFin(): it is called when everything is delivered.
LEMMA AfterQuicFinKeeps ==
    ASSUME IInv, AfterQuicFin
    PROVE  IInv' /\ Relays
<1>1. Step("AfterQuicFin") /\ UNCHANGED <<str, sock, sent, tcpOut, reason, faults>>
  BY DEF AfterQuicFin
<1>2. ~Idle /\ NotDialling /\ tun.started /\ tun.pending = <<>> /\ tun.sending = 0
  BY <1>1, AtHead DEF Dialling, Early, IInv, CallInv
<1>3. CASE Return /\ UNCHANGED <<tun, elapsed>>
  <2>1. QuietData
    BY <1>1, <1>3, QuietSame
  <2> QED BY <1>2, <1>3, <2>1, QuietReturn
<1>4. CASE Call(<<"Finalize">>) /\ UNCHANGED <<tun, elapsed>>
  <2>1. QuietData
    BY <1>1, <1>4, QuietSame
  <2>2. Made(<<"Finalize">>) /\ Head(<<"Finalize">>) \in Free
    BY <1>2, <1>4, OneCall DEF Calls, Free
  <2> QED BY <1>2, <1>4, <2>1, <2>2, QuietCall
<1>5. CASE /\ tun.quicDone /\ tun' = [tun EXCEPT !.rcvDone = TRUE]
           /\ elapsed' = 0 /\ Call(<<"WriteFin", "Finalize">>)
  BY <1>1, <1>2, <1>5, RcvOver
<1> QED BY <1>3, <1>4, <1>5 DEF AfterQuicFin

\* SendComplete(): the chunk that was being sent has gone out.
LEMMA SendOkKeeps ==
    ASSUME IInv, SendOk
    PROVE  IInv' /\ Relays
<1>1. Step("SendOk")
  BY DEF SendOk
<1>2. ~Idle /\ tun.started /\ ~tun.closed /\ tun.sending # 0
  BY <1>1, AtHead DEF Early, Dialling, IInv, CallInv
<1>3. tun \in Tun /\ str \in Str /\ elapsed \in Int
  BY DEF IInv, Typed
<1>4. /\ tun' \in Tun /\ tun'.seed = tun.seed /\ tun'.pending = tun.pending
      /\ tun'.sending = 0
      /\ tun'.started <=> tun.started
      /\ tun'.closed <=> tun.closed
      /\ tun'.disconnected <=> tun.disconnected
      /\ tun'.quicDone <=> tun.quicDone
      /\ tun'.rcvDone <=> tun.rcvDone
  BY <1>3, Zenon DEF SendOk, Tun
<1>5. Made(<<"Fill", "Flush">>) /\ Head(<<"Fill", "Flush">>) \in Free
  BY <1>2, <1>4, TwoCalls DEF Calls, Later, Free
<1>6. StackInv' /\ Head(todo') \in Free
  BY <1>2, <1>5, Calling DEF IInv, SendOk
<1>7. CallInv' /\ (Idle' \/ Head(todo') \notin Dialling)
  BY <1>6, FreeCalls
<1>8. str' = str /\ sock' = sock /\ elapsed' = elapsed /\ UNCHANGED <<sent, reason, faults>>
  BY DEF SendOk
<1>9. QueueInv'
  BY <1>2, <1>4, <1>8 DEF IInv, QueueInv
<1>10. ~tun.closed => sock.state = "connected"
  BY <1>2 DEF IInv, SocketInv
<1>11. str' \in Str /\ elapsed' \in Int
  BY <1>3, <1>8
<1>12. IInv'
  BY <1>2, <1>4, <1>6, <1>7, <1>8, <1>9, <1>10, <1>11, MovingStep
<1>13. Relays
  <2>1. /\ tun.sending \in Chunk /\ tun.pending \in Seq(Chunk) /\ tun.seed \in Seq(Chunk)
        /\ str.unread \in Seq(Chunk)
    BY <1>2, <1>3 DEF Tun, Str, Chunk
  <2>2. Down = Channel(tun.sending, tun.pending, tun.seed, str.unread)
    BY <1>2, Zenon DEF Down, InFlight, Channel
  <2>3. Down' = Channel(0, tun.pending, tun.seed, str.unread)
    BY <1>2, <1>4, <1>8, Zenon DEF Down, InFlight, Channel
  <2>4. Down # <<>> /\ Head(Down) = tun.sending /\ Tail(Down) = Down'
    <3>1. PICK x \in Chunk, p \in Seq(Chunk), s \in Seq(Chunk), u \in Seq(Chunk) :
            x = tun.sending /\ p = tun.pending /\ s = tun.seed /\ u = str.unread
      BY <2>1
    <3>2. Channel(x, p, s, u) # <<>> /\ Head(Channel(x, p, s, u)) = x
      BY ChannelSent
    <3>3. Tail(Channel(x, p, s, u)) = Channel(0, p, s, u)
      BY ChannelSent
    <3>4. Down = Channel(x, p, s, u) /\ Down' = Channel(0, p, s, u)
      BY <2>2, <2>3, <3>1, Zenon
    <3> QED BY <3>1, <3>2, <3>3, <3>4, Zenon
  <2>5. tcpOut' = Append(tcpOut, Head(Down))
    BY <2>4 DEF SendOk
  <2>6. reason = ""
    BY <1>2, Zenon DEF IInv, CloseInv
  <2>7. str'.fin = str.fin
    BY <1>8, Zenon
  <2> QED BY <1>8, <2>4, <2>5, <2>6, <2>7, RelayDelivers, Zenon
<1> QED BY <1>12, <1>13

\* MaybeFlushQuicToTcp(): the first of the queue is handed to the socket.
LEMMA FlushKeeps ==
    ASSUME IInv, Flush
    PROVE  IInv' /\ Relays
<1>1. Step("Flush") /\ UNCHANGED <<str, sock, sent, tcpOut, elapsed, reason>>
  BY DEF Flush
<1>2. ~Idle /\ NotDialling /\ tun.started
  BY <1>1, AtHead DEF Dialling, Early
<1>3. tun \in Tun /\ str \in Str /\ elapsed \in Int
  BY DEF IInv, Typed
<1>4. CASE tun.closed \/ tun.sending # 0
  <2>1. Return /\ QuietData
    BY <1>1, <1>4, QuietSame DEF Flush
  <2> QED BY <1>2, <2>1, QuietReturn
<1>5. CASE ~(tun.closed \/ tun.sending # 0) /\ tun.pending = <<>>
  <2>1. Call(<<"AfterQuicFin">>) /\ tun' = tun /\ faults' = faults
    BY <1>5 DEF Flush
  <2>2. QuietData
    BY <1>1, <2>1, QuietSame
  <2>3. Made(<<"AfterQuicFin">>) /\ Head(<<"AfterQuicFin">>) = "AfterQuicFin"
    BY <1>2, <2>1, OneCall DEF Calls
  <2>4. StackInv' /\ ~Idle' /\ Head(todo') = "AfterQuicFin"
    BY <1>2, <2>1, <2>3, Calling DEF IInv
  <2>5. CallInv'
    BY <1>5, <2>1, <2>4 DEF CallInv, Step
  <2>6. SocketInv'
    BY <1>1, <1>2, <2>1, <2>4 DEF IInv, SocketInv, Step, Dialling
  <2> QED BY <2>2, <2>4, <2>5, <2>6, QuietStep
<1>6. CASE ~tun.closed /\ tun.sending = 0 /\ tun.pending # <<>>
  <2>1. sock.state = "connected" /\ reason = "" /\ tun.seed = <<>>
    BY <1>2, <1>6, Zenon DEF IInv, SocketInv, CloseInv, QueueInv
  <2>2. PICK p \in Seq(Chunk), u \in Seq(Chunk) : p = tun.pending /\ u = str.unread
    BY <1>3 DEF Tun, Str
  <2>3. p # <<>>
    BY <1>6, <2>2
  <2>4. Head(p) \in Chunk /\ Tail(p) \in Seq(Chunk) /\ Len(Tail(p)) <= Len(p)
        /\ Channel(Head(p), Tail(p), <<>>, u) = Channel(0, p, <<>>, u)
    BY <2>3, ChannelFlush
  <2>5. PICK h \in Chunk, r \in Seq(Chunk) : h = Head(p) /\ r = Tail(p)
    BY <2>4, Zenon
  <2>6. tun' = [tun EXCEPT !.sending = h, !.pending = r]
    BY <1>6, <2>2, <2>5 DEF Flush
  <2>7. /\ tun' \in Tun /\ tun'.seed = tun.seed /\ tun'.pending = r /\ tun'.sending = h
        /\ tun'.started <=> tun.started
        /\ tun'.closed <=> tun.closed
        /\ tun'.disconnected <=> tun.disconnected
        /\ tun'.quicDone <=> tun.quicDone
        /\ tun'.rcvDone <=> tun.rcvDone
    BY <1>3, <2>6, Zenon DEF Tun, Chunk
  <2>8. faults' = faults
    <3>1. UseSocket("SendAsync()", tun.sending # 0)
      BY <1>6 DEF Flush
    <3> QED BY <1>6, <2>1, <3>1, Zenon DEF UseSocket
  <2>9. h # 0
    BY DEF Chunk
  <2>10. StackInv' /\ ~Idle' /\ Head(todo') \in {"SendOk", "SendErr", "UpdateIdleClass"}
    <3>1. CASE Call(<<"UpdateIdleClass">>)
      <4>1. Made(<<"UpdateIdleClass">>) /\ Head(<<"UpdateIdleClass">>) = "UpdateIdleClass"
        BY <1>2, <2>7, OneCall DEF Calls
      <4> QED BY <1>2, <3>1, <4>1, Calling DEF IInv
    <3>2. ASSUME NEW c \in {"SendOk", "SendErr"}, Call(<<c, "UpdateIdleClass">>)
          PROVE  StackInv' /\ ~Idle' /\ Head(todo') = c
      <4>0. c \in Calls /\ "UpdateIdleClass" \in Later /\ tun'.started
        BY <1>2, <2>7 DEF Calls, Later
      <4>1. Made(<<c, "UpdateIdleClass">>) /\ Head(<<c, "UpdateIdleClass">>) = c
        BY <4>0, TwoCalls, Zenon
      <4> QED BY <1>2, <3>2, <4>1, Calling DEF IInv
    <3> QED BY <1>6, <3>1, <3>2 DEF Flush
  <2>11. CallInv' /\ (Idle' \/ Head(todo') \notin Dialling)
    BY <1>6, <2>7, <2>9, <2>10 DEF CallInv, Step, Dialling
  <2>12. QueueInv'
    <3>1. Len(r) <= MaxQueued
      <4>1. Len(p) <= MaxQueued /\ Len(r) <= Len(p)
        <5>1. QueueInv
          BY DEF IInv
        <5>2. Len(tun.pending) <= MaxQueued
          BY <5>1 DEF QueueInv
        <5>3. Len(p) <= MaxQueued
          BY <2>2, <5>2, Zenon
        <5>4. Len(r) <= Len(p)
          BY <2>4, <2>5, Zenon
        <5> QED BY <5>3, <5>4
      <4>2. Len(p) \in Nat /\ Len(r) \in Nat /\ MaxQueued \in Nat
        BY TunnelAssumption, LenProperties
      <4> QED BY <4>1, <4>2
    <3>2. ~tun.rcvDone \/ sock.eof
      BY <1>6 DEF IInv, QueueInv
    <3> QED BY <1>1, <1>2, <1>6, <2>1, <2>7, <3>1, <3>2, Zenon DEF IInv, QueueInv
  <2>13. str' \in Str /\ elapsed' \in Int
    BY <1>1, <1>3
  <2>14. IInv'
    BY <1>1, <1>2, <2>1, <2>7, <2>8, <2>10, <2>11, <2>12, <2>13, MovingStep, Zenon
  <2>15. Relays
    <3>1. Down = Channel(0, p, <<>>, u)
      BY <1>6, <2>1, <2>2, Zenon DEF Down, InFlight, Channel
    <3>2. Down' = Channel(h, r, <<>>, u)
      <4>1. /\ ~tun'.closed /\ tun'.sending = h /\ h # 0 /\ tun'.pending = r
            /\ tun'.seed = <<>> /\ str'.unread = u
        BY <1>1, <1>6, <2>1, <2>2, <2>7, <2>9, Zenon
      <4>2. Down' = <<h>> \o r \o <<>> \o u
        BY <4>1, Zenon DEF Down, InFlight
      <4>3. Channel(h, r, <<>>, u) = <<h>> \o r \o <<>> \o u
        BY <4>1, Zenon DEF Channel
      <4> QED BY <4>2, <4>3, Zenon
    <3>3. Down' = Down
      BY <2>4, <2>5, <3>1, <3>2, Zenon
    <3>4. str'.fin = str.fin /\ sock'.eof = sock.eof /\ sock'.err = sock.err
      BY <1>1, Zenon
    <3> QED BY <1>1, <3>3, <3>4, RelayStutters
  <2> QED BY <2>14, <2>15
<1> QED BY <1>4, <1>5, <1>6

\* What FillQueueFromStream() makes of the members.
Filled(t, q, b, s) == Classified([t EXCEPT !.pending = q, !.quicDone = b], s)

\* v is t with another queue, and quic_receive_done_ set or not.
WithQueue(v, t, q, b) ==
    /\ v \in Tun /\ v.pending = q /\ v.seed = t.seed /\ v.sending = t.sending
    /\ v.quicDone <=> b
    /\ v.started <=> t.started
    /\ v.closed <=> t.closed
    /\ v.disconnected <=> t.disconnected
    /\ v.rcvDone <=> t.rcvDone

\* That is all it changes, but for the idle class.
LEMMA FilledTun ==
    ASSUME NEW t \in Tun, NEW q \in Seq(Chunk), NEW b \in BOOLEAN, NEW s
    PROVE  WithQueue(Filled(t, q, b, s), t, q, b)
<1> DEFINE w == [t EXCEPT !.pending = q, !.quicDone = b]
<1>1. w \in Tun /\ w.pending = q /\ w.seed = t.seed /\ w.sending = t.sending
  BY Zenon DEF Tun
<1>2. /\ w.quicDone <=> b
      /\ w.started <=> t.started
      /\ w.closed <=> t.closed
      /\ w.disconnected <=> t.disconnected
      /\ w.rcvDone <=> t.rcvDone
  BY DEF Tun
<1> HIDE DEF w
<1>3. Classified(w, s) \in Tun /\ Alike(Classified(w, s), w)
  BY <1>1, ClassifiedEffect
<1>4. Filled(t, q, b, s) = Classified(w, s)
  BY Zenon DEF w, Filled
<1>5. WithQueue(Classified(w, s), t, q, b)
  BY <1>1, <1>2, <1>3 DEF Alike, WithQueue
<1> QED BY <1>4, <1>5, Zenon

\* How many chunks it reads, and how the queue keeps its bound.
LEMMA FillCount ==
    ASSUME NEW p \in Seq(Chunk), NEW u \in Seq(Chunk), Len(p) <= MaxQueued, NEW n,
           n = IF MaxQueued - Len(p) < Len(u) THEN MaxQueued - Len(p) ELSE Len(u)
    PROVE  /\ n \in 0..Len(u)
           /\ p \o SubSeq(u, 1, n) \in Seq(Chunk)
           /\ Len(p \o SubSeq(u, 1, n)) <= MaxQueued
<1>1. Len(p) \in Nat /\ Len(u) \in Nat /\ MaxQueued \in Nat
  BY TunnelAssumption, LenProperties
<1>2. n \in 0..Len(u) /\ Len(p) + n <= MaxQueued
  BY <1>1
<1>3. SubSeq(u, 1, n) \in Seq(Chunk) /\ Len(SubSeq(u, 1, n)) = n
  <2>1. 0 \in Nat
    OBVIOUS
  <2> QED BY <1>2, <2>1, ChannelFill
<1> DEFINE y == SubSeq(u, 1, n)
<1>4. y \in Seq(Chunk) /\ Len(y) = n
  BY <1>3
<1> HIDE DEF y
<1>5. p \o y \in Seq(Chunk) /\ Len(p \o y) = Len(p) + Len(y)
  BY <1>4, ConcatProperties
<1>6. Len(p \o y) <= MaxQueued
  BY <1>2, <1>4, <1>5
<1> QED BY <1>2, <1>5, <1>6 DEF y

\* OnStreamGone() or nothing after it.
LEMMA GoneStack ==
    ASSUME IInv, ~Idle, tun'.started, NEW s, NEW u, Call(GoneCall(s, u))
    PROVE  StackInv' /\ (Idle' \/ Head(todo') \in Free)
<1>1. CASE GoneCall(s, u) = <<"OnStreamGone">>
  <2>1. "OnStreamGone" \in Calls /\ "OnStreamGone" \in Free
    BY DEF Calls, Free
  <2>2. Made(<<"OnStreamGone">>) /\ Head(<<"OnStreamGone">>) = "OnStreamGone"
    BY <2>1, OneCall
  <2>3. Call(<<"OnStreamGone">>)
    BY <1>1, Zenon
  <2> QED BY <2>1, <2>2, <2>3, Calling DEF IInv
<1>2. CASE GoneCall(s, u) = <<>>
  <2>1. Call(<<>>)
    BY <1>2, Zenon
  <2>2. Return
    BY <2>1, CallNothing
  <2>3. StackInv' /\ (Idle' \/ Head(todo') \in Later)
    BY <2>2, Returning DEF IInv
  <2> QED BY <2>3 DEF Later, Free
<1> QED BY <1>1, <1>2 DEF GoneCall

\* FillQueueFromStream().
LEMMA FillKeeps ==
    ASSUME IInv, Fill
    PROVE  IInv' /\ Relays
<1>1. Step("Fill") /\ UNCHANGED <<sock, sent, tcpOut, elapsed, reason, faults>>
  BY DEF Fill
<1>2. ~Idle /\ tun.started
  BY <1>1, AtHead DEF Early, Dialling
<1>3. tun \in Tun /\ str \in Str /\ elapsed \in Int
  BY DEF IInv, Typed
<1>4. PICK p \in Seq(Chunk), u \in Seq(Chunk) : p = tun.pending /\ u = str.unread
  BY <1>3 DEF Tun, Str
<1>5. Len(p) <= MaxQueued /\ tun.seed = <<>>
  BY <1>2, <1>4, Zenon DEF IInv, QueueInv
<1> DEFINE N == IF MaxQueued - Len(p) < Len(u) THEN MaxQueued - Len(p) ELSE Len(u)
<1>6. PICK n \in 0..Len(u) : n = N
  BY <1>5, FillCount
<1>7. PICK fr \in BOOLEAN : fr = (MaxQueued - Len(p) > 0 /\ str.fin /\ n = Len(u))
  BY Zenon
<1>8. PICK q \in Seq(Chunk), z \in Seq(Chunk) :
        q = p \o SubSeq(u, 1, n) /\ z = SubSeq(u, n + 1, Len(u))
  <2>1. 0 \in Nat
    OBVIOUS
  <2>2. SubSeq(u, n + 1, Len(u)) \in Seq(Chunk)
    BY <2>1, ChannelFill
  <2>3. p \o SubSeq(u, 1, n) \in Seq(Chunk)
    BY <1>5, <1>6, FillCount
  <2> QED BY <2>2, <2>3, Zenon
<1>9. PICK rc \in BOOLEAN, qd \in BOOLEAN :
        rc = (str.readClosed \/ fr) /\ qd = (tun.quicDone \/ fr)
  BY Zenon
<1> DEFINE s == [str EXCEPT !.unread = z, !.readClosed = rc]
<1>10. /\ str' = s
       /\ tun' = Classified([tun EXCEPT !.pending = q, !.quicDone = qd], s)
       /\ Call(GoneCall(str, s))
  <2> DEFINE M == IF MaxQueued - Len(tun.pending) < Len(str.unread)
                  THEN MaxQueued - Len(tun.pending) ELSE Len(str.unread)
             FR == MaxQueued - Len(tun.pending) > 0 /\ str.fin /\ M = Len(str.unread)
             Z == SubSeq(str.unread, M + 1, Len(str.unread))
             Q == tun.pending \o SubSeq(str.unread, 1, M)
             S == [str EXCEPT !.unread = Z, !.readClosed = str.readClosed \/ FR]
  <2>1. /\ str' = S
        /\ tun' = Classified([tun EXCEPT !.pending = Q, !.quicDone = tun.quicDone \/ FR], S)
        /\ Call(GoneCall(str, S))
    BY Zenon DEF Fill
  <2>2. M = n
    BY <1>4, <1>6, Zenon
  <2> HIDE DEF M
  <2>3. Z = z /\ Q = q
    BY <1>4, <1>8, <2>2, Zenon
  <2>4. FR = fr
    BY <1>4, <1>7, <2>2, Zenon
  <2> HIDE DEF FR, Z, Q
  <2>5. (str.readClosed \/ FR) = rc /\ (tun.quicDone \/ FR) = qd
    BY <1>9, <2>4, Zenon
  <2>6. S = s
    BY <2>3, <2>5, Zenon
  <2>7. [tun EXCEPT !.pending = Q, !.quicDone = tun.quicDone \/ FR]
          = [tun EXCEPT !.pending = q, !.quicDone = qd]
    BY <2>3, <2>5, Zenon
  <2> HIDE DEF S, s
  <2>8. str' = s /\ Call(GoneCall(str, s))
    BY <2>1, <2>6, Zenon
  <2>9. tun' = Classified([tun EXCEPT !.pending = q, !.quicDone = qd], s)
    <3> DEFINE v == [tun EXCEPT !.pending = Q, !.quicDone = tun.quicDone \/ FR]
               w == [tun EXCEPT !.pending = q, !.quicDone = qd]
    <3>1. v = w /\ tun' = Classified(v, S)
      BY <2>1, <2>7
    <3> HIDE DEF v, w
    <3>2. tun' = Classified(w, s)
      BY <2>6, <3>1, Zenon
    <3> QED BY <3>2 DEF w
  <2> QED BY <2>8, <2>9, Zenon
<1>11. str' \in Str /\ str'.unread = z
  BY <1>3, <1>10, Zenon DEF Str
<1>12. str'.fin = str.fin
  BY <1>3, <1>10, Zenon DEF Str
<1>13. /\ tun' \in Tun /\ tun'.pending = q /\ tun'.seed = tun.seed
       /\ tun'.sending = tun.sending
       /\ tun'.quicDone <=> qd
       /\ tun'.started <=> tun.started
       /\ tun'.closed <=> tun.closed
       /\ tun'.disconnected <=> tun.disconnected
       /\ tun'.rcvDone <=> tun.rcvDone
  <2> HIDE DEF s
  <2>1. tun' = Filled(tun, q, qd, s)
    BY <1>10, Zenon DEF Filled
  <2>2. WithQueue(Filled(tun, q, qd, s), tun, q, qd)
    BY <1>3, FilledTun
  <2>3. WithQueue(tun', tun, q, qd)
    BY <2>1, <2>2, Zenon
  <2> QED BY <2>3 DEF WithQueue
<1>14. StackInv' /\ (Idle' \/ Head(todo') \in Free)
  <2>1. tun'.started
    BY <1>2, <1>13
  <2> HIDE DEF s
  <2> QED BY <1>2, <1>10, <2>1, GoneStack
<1> HIDE DEF s
<1>15. CallInv' /\ (Idle' \/ Head(todo') \notin Dialling)
  BY <1>14, FreeCalls
<1>16. QueueInv'
  <2>1. Len(q) <= MaxQueued
    BY <1>5, <1>6, <1>8, FillCount, Zenon
  <2>2. /\ n = Len(u) => z = <<>>
        /\ u = <<>> => SubSeq(u, 1, n) = <<>>
    <3>1. 0 \in Nat
      OBVIOUS
    <3> QED BY <1>8, <3>1, ChannelFill
  <2>3. ASSUME u = <<>> PROVE q = p /\ z = <<>>
    <3>1. n = Len(u)
      BY <2>3, EmptySeq
    <3>2. q = p \o <<>>
      BY <1>8, <2>2, <2>3
    <3> QED BY <2>2, <3>1, <3>2, ConcatEmptySeq
  <2>4. ASSUME qd PROVE str.fin /\ z = <<>>
    <3>1. CASE tun.quicDone
      <4>1. str.fin /\ u = <<>>
        BY <1>4, <3>1 DEF IInv, QueueInv
      <4> QED BY <2>3, <4>1
    <3>2. CASE fr
      BY <1>7, <2>2, <3>2, Zenon
    <3> QED BY <1>9, <2>4, <3>1, <3>2
  <2>5. ASSUME ~tun.closed, tun.rcvDone, ~sock.eof
        PROVE  qd /\ q = <<>> /\ tun.sending = 0
    <3>1. tun.quicDone /\ tun.pending = <<>> /\ tun.sending = 0 /\ str.unread = <<>>
      BY <2>5 DEF IInv, QueueInv
    <3> QED BY <1>4, <1>9, <2>3, <3>1, Zenon
  <2>6. str'.fin <=> str.fin
    BY <1>12
  <2> QED BY <1>1, <1>2, <1>5, <1>11, <1>13, <2>1, <2>4, <2>5, <2>6 DEF QueueInv
<1>17. ~tun.closed => sock.state = "connected"
  BY <1>2 DEF IInv, SocketInv
<1>18. elapsed' \in Int
  BY <1>1, <1>3
<1>19. IInv'
  BY <1>1, <1>2, <1>11, <1>13, <1>14, <1>15, <1>16, <1>17, <1>18, MovingStep
<1>20. Down' = Down
  <2>1. PICK x \in Nat : x = tun.sending
    BY <1>3 DEF Tun
  <2>2. CASE tun.closed
    BY <1>13, <2>2 DEF Down
  <2>3. CASE ~tun.closed
    <3>1. Down = Channel(x, p, <<>>, u)
      BY <1>4, <1>5, <2>1, <2>3, Zenon DEF Down, InFlight, Channel
    <3>2. ~tun'.closed /\ tun'.sending = x /\ tun'.pending = q /\ tun'.seed = <<>>
      BY <1>5, <1>13, <2>1, <2>3
    <3>3. Down' = Channel(x, q, <<>>, z)
      BY <1>11, <3>2, Zenon DEF Down, InFlight, Channel
    <3>4. Channel(x, p \o SubSeq(u, 1, n), <<>>, SubSeq(u, n + 1, Len(u)))
            = Channel(x, p, <<>>, u)
      BY ChannelFill
    <3> QED BY <1>8, <3>1, <3>3, <3>4, Zenon
  <2> QED BY <2>2, <2>3
<1>21. Relays
  <2>1. sock'.eof = sock.eof /\ sock'.err = sock.err
    BY <1>1, Zenon
  <2> QED BY <1>1, <1>12, <1>20, <2>1, RelayStutters
<1> QED BY <1>19, <1>21

\* What Start() makes of the members,
Started(t, q, s) == Classified([t EXCEPT !.started = TRUE, !.pending = q, !.seed = <<>>], s)

\* which is all of this.
AfterStart(v, t, q) ==
    /\ v \in Tun /\ v.pending = q /\ v.seed = <<>> /\ v.sending = t.sending /\ v.started
    /\ v.quicDone <=> t.quicDone
    /\ v.closed <=> t.closed
    /\ v.disconnected <=> t.disconnected
    /\ v.rcvDone <=> t.rcvDone

\* The seed has joined the queue.
LEMMA StartedTun ==
    ASSUME NEW t \in Tun, NEW q \in Seq(Chunk), NEW s
    PROVE  AfterStart(Started(t, q, s), t, q)
<1> DEFINE w == [t EXCEPT !.started = TRUE, !.pending = q, !.seed = <<>>]
<1>1. <<>> \in Seq(Chunk)
  BY EmptySeq
<1>2. w \in Tun /\ w.pending = q /\ w.seed = <<>> /\ w.sending = t.sending /\ w.started
  BY <1>1, Zenon DEF Tun
<1>3. /\ w.quicDone <=> t.quicDone
      /\ w.closed <=> t.closed
      /\ w.disconnected <=> t.disconnected
      /\ w.rcvDone <=> t.rcvDone
  BY DEF Tun
<1> HIDE DEF w
<1>4. Classified(w, s) \in Tun /\ Alike(Classified(w, s), w)
  BY <1>2, ClassifiedEffect
<1>5. Started(t, q, s) = Classified(w, s)
  BY Zenon DEF w, Started
<1>6. AfterStart(Classified(w, s), t, q)
  BY <1>2, <1>3, <1>4 DEF Alike, AfterStart
<1> QED BY <1>5, <1>6, Zenon

\* Start().
LEMMA StartKeeps ==
    ASSUME IInv, Start
    PROVE  IInv' /\ Relays
<1>1. Step("Start") /\ UNCHANGED <<str, sock, sent, tcpOut, elapsed, reason, faults>>
  BY DEF Start
<1>2. ~Idle /\ sock.state = "connected" /\ ~tun.started /\ ~tun.closed
  BY <1>1, AtHead DEF IInv, SocketInv
<1>3. tun \in Tun /\ str \in Str /\ elapsed \in Int
  BY DEF IInv, Typed
<1>4. /\ tun.pending = <<>> /\ tun.sending = 0 /\ Len(tun.seed) <= 1
      /\ ~tun.quicDone /\ ~tun.rcvDone
  BY <1>2 DEF IInv, QueueInv
<1>5. PICK q \in Seq(Chunk), u \in Seq(Chunk) : q = tun.seed /\ u = str.unread
  BY <1>3 DEF Tun, Str
<1>6. <<>> \o q = q /\ <<>> \in Seq(Chunk)
  BY ConcatEmptySeq, EmptySeq
<1>7. AfterStart(tun', tun, q)
  <2>1. tun.pending \o tun.seed = q
    BY <1>4, <1>5, <1>6
  <2>2. tun' = Started(tun, q, str)
    <3>1. tun' = Started(tun, tun.pending \o tun.seed, str)
      BY Zenon DEF Start, Started
    <3> QED BY <2>1, <3>1, Zenon
  <2>3. AfterStart(Started(tun, q, str), tun, q)
    BY <1>3, StartedTun
  <2> QED BY <2>2, <2>3, Zenon
<1> DEFINE cs == <<"Fill", "BeginRead", "Flush">>
<1>8. StackInv' /\ Head(todo') \in Free
  <2>0. /\ "Fill" \in Calls /\ "BeginRead" \in Later /\ "Flush" \in Later /\ tun'.started
    BY <1>7 DEF Calls, Later, AfterStart
  <2>1. Made(cs) /\ Head(cs) = "Fill"
    BY <2>0, ThreeCalls, Zenon
  <2>2. Call(cs)
    BY DEF Start
  <2> HIDE DEF cs
  <2>3. StackInv' /\ Head(todo') = "Fill"
    BY <1>2, <2>1, <2>2, Calling DEF IInv
  <2> QED BY <2>3 DEF Free
<1> HIDE DEF cs
<1>9. CallInv' /\ (Idle' \/ Head(todo') \notin Dialling)
  BY <1>8, FreeCalls
<1>10. QueueInv'
  <2>1. Len(q) <= MaxQueued
    <3>1. Len(q) <= 1 /\ Len(q) \in Nat
      BY <1>4, <1>5, LenProperties
    <3> QED BY <3>1, TunnelAssumption
  <2> QED BY <1>4, <1>7, <2>1 DEF QueueInv, AfterStart
<1>11. str' \in Str /\ elapsed' \in Int
  BY <1>1, <1>3
<1>12. IInv'
  BY <1>1, <1>2, <1>7, <1>8, <1>9, <1>10, <1>11, MovingStep DEF AfterStart
<1>13. Down' = Down
  <2>1. Down = Channel(0, <<>>, q, u)
    BY <1>2, <1>4, <1>5, Zenon DEF Down, InFlight, Channel
  <2>2. ~tun'.closed /\ tun'.sending = 0 /\ tun'.pending = q /\ tun'.seed = <<>>
    BY <1>2, <1>4, <1>7 DEF AfterStart
  <2>3. str'.unread = u
    BY <1>1, <1>5
  <2>4. Down' = Channel(0, q, <<>>, u)
    BY <2>2, <2>3, Zenon DEF Down, InFlight, Channel
  <2>5. Channel(0, <<>> \o q, <<>>, u) = Channel(0, <<>>, q, u)
    <3>1. 0 \in Nat
      OBVIOUS
    <3> QED BY <1>6, <3>1, ChannelStart, Zenon
  <2> QED BY <1>6, <2>1, <2>4, <2>5, Zenon
<1>14. Relays
  <2>1. str'.fin = str.fin /\ sock'.eof = sock.eof /\ sock'.err = sock.err
    BY <1>1, Zenon
  <2> QED BY <1>1, <1>13, <2>1, RelayStutters
<1> QED BY <1>12, <1>14

\* The peer sends: the channel grows at its end, before the FIN.
LEMMA PeerSendsKeeps ==
    ASSUME IInv, NEW data \in 0..1, NEW fin \in BOOLEAN, PeerSends(data, fin)
    PROVE  IInv' /\ Relays
<1>1. /\ Idle /\ NotDialling /\ ~tun.closed /\ ~str.fin
      /\ UNCHANGED <<tun, sock, tcpOut, elapsed, reason, faults>>
  BY DEF PeerSends, NotDialling
<1>2. tun \in Tun /\ str \in Str /\ sock \in Sock /\ elapsed \in Int /\ sent \in Nat
  BY DEF IInv, Typed
<1>3. PICK x \in Nat, p \in Seq(Chunk), s \in Seq(Chunk), u \in Seq(Chunk) :
        x = tun.sending /\ p = tun.pending /\ s = tun.seed /\ u = str.unread
  BY <1>2 DEF Tun, Str
<1>4. PICK k \in Chunk : k = sent + 1
  BY <1>2 DEF Chunk
<1>5. Append(u, k) \in Seq(Chunk)
  BY AppendProperties
<1>6. PICK z \in Seq(Chunk) : z = IF data = 1 THEN Append(u, k) ELSE u
  BY <1>5, Zenon
<1>7. str' = [str EXCEPT !.unread = z, !.fin = fin]
  BY <1>3, <1>4, <1>6, Zenon DEF PeerSends
<1>8. str' \in Str /\ str'.unread = z
  BY <1>2, <1>7, Zenon DEF Str
<1>9. str'.fin = fin
  BY <1>2, <1>7, Zenon DEF Str
<1>10. sent' = sent + data /\ sent' \in Nat
  BY <1>2 DEF PeerSends
<1>11. reason = ""
  BY <1>1, Zenon DEF IInv, CloseInv
<1>12. Typed'
  BY <1>1, <1>8, <1>10 DEF IInv, Typed
<1>13. QueueInv' /\ CloseInv'
  BY <1>1, Zenon DEF IInv, QueueInv, CloseInv
<1>14. StackInv' /\ CallInv' /\ SocketInv'
  <2>1. Alike(tun', tun) /\ sock'.state = sock.state
    BY <1>1 DEF Alike
  <2>2. CASE todo' = <<>>
    <3>1. StackInv'
      BY <1>1, <2>2 DEF IInv, StackInv, Idle
    <3>2. Idle'
      BY <2>2 DEF Idle
    <3> QED BY <1>1, <2>1, <3>1, <3>2, FreeHead
  <2>3. CASE todo' = <<"OnStreamDataAvailable">>
    <3> DEFINE c == "OnStreamDataAvailable"
    <3>1. c \in Calls /\ c \in Early /\ c \in Free /\ (tun'.started \/ ~tun.started)
      BY <1>1 DEF Calls, Early, Free
    <3> HIDE DEF c
    <3>2. Made(<<c>>) /\ Head(<<c>>) = c
      BY <3>1, OneCall
    <3>3. todo' = <<c>>
      BY <2>3 DEF c
    <3>4. StackInv' /\ Head(todo') = c
      BY <1>1, <3>2, <3>3, Calling DEF IInv
    <3> QED BY <1>1, <2>1, <3>1, <3>4, FreeHead
  <2> QED BY <2>2, <2>3 DEF PeerSends
<1>15. Relays
  <2>1. Down = Channel(x, p, s, u)
    BY <1>1, <1>3, Zenon DEF Down, InFlight, Channel
  <2>2. /\ ~tun'.closed /\ tun'.sending = x /\ tun'.pending = p /\ tun'.seed = s
    BY <1>1, <1>3
  <2>3. Down' = Channel(x, p, s, z)
    BY <1>8, <2>2, Zenon DEF Down, InFlight, Channel
  <2>4. \/ sent' = sent + 1 /\ Down' = Append(Down, sent + 1)
        \/ sent' = sent /\ Down' = Down
    <3>1. CASE data = 1
      <4>1. z = Longer(u, k)
        BY <1>6, <3>1 DEF Longer
      <4>2. Channel(x, p, s, z) = Longer(Channel(x, p, s, u), k)
        BY <4>1, ChannelAppend
      <4>3. Down' = Append(Down, sent + 1)
        BY <1>4, <2>1, <2>3, <4>2, Zenon DEF Longer
      <4> QED BY <1>10, <3>1, <4>3
    <3>2. CASE data = 0
      <4>1. z = u
        BY <1>6, <3>2
      <4>2. Down' = Down
        BY <2>1, <2>3, <4>1, Zenon
      <4> QED BY <1>2, <1>10, <3>2, <4>2
    <3> QED BY <3>1, <3>2
  <2>5. str'.fin \in BOOLEAN
    BY <1>9
  <2> QED BY <1>1, <1>11, <2>4, <2>5, RelayAccepts, Zenon
<1> QED BY <1>12, <1>13, <1>14, <1>15 DEF IInv

---------------------------------------------------------------------------
(* The invariant, and the theorems.                                        *)

\* Chunks are numbered from one: the first n of them.
LEMMA Numbered ==
    /\ [i \in 1..0 |-> i] = <<>>
    /\ [i \in 1..1 |-> i] = <<1>>
    /\ [i \in 1..2 |-> i] = <<1, 2>>
<1>1. \A n \in Nat : /\ [i \in 1..n |-> i] \in Seq(Nat) /\ Len([i \in 1..n |-> i]) = n
                     /\ \A k \in 1..n : [i \in 1..n |-> i][k] = k
  OBVIOUS
<1>2. [i \in 1..0 |-> i] = <<>>
  <2> DEFINE f == [i \in 1..0 |-> i]
  <2>1. f \in Seq(Nat) /\ Len(f) = 0
    BY <1>1
  <2> HIDE DEF f
  <2>2. f = <<>>
    BY <2>1, EmptySeq
  <2> QED BY <2>2 DEF f
<1>3. [i \in 1..1 |-> i] = <<1>>
  <2> DEFINE f == [i \in 1..1 |-> i]
             g == <<1>>
  <2>1. f \in Seq(Nat) /\ Len(f) = 1 /\ f[1] = 1
    BY <1>1
  <2>2. g \in Seq(Nat) /\ Len(g) = 1 /\ g[1] = 1
    OBVIOUS
  <2> HIDE DEF f, g
  <2>3. \A i \in 1..Len(f) : f[i] = g[i]
    BY <2>1, <2>2
  <2>4. f = g
    BY <2>1, <2>2, <2>3, SeqEqual
  <2> QED BY <2>4 DEF f, g
<1>4. [i \in 1..2 |-> i] = <<1, 2>>
  <2> DEFINE f == [i \in 1..2 |-> i]
             g == <<1, 2>>
  <2>1. f \in Seq(Nat) /\ Len(f) = 2 /\ f[1] = 1 /\ f[2] = 2
    BY <1>1
  <2>2. g \in Seq(Nat) /\ Len(g) = 2 /\ g[1] = 1 /\ g[2] = 2
    OBVIOUS
  <2> HIDE DEF f, g
  <2>3. \A i \in 1..Len(f) : f[i] = g[i]
    <3>1. ASSUME NEW i \in 1..2 PROVE i = 1 \/ i = 2
      OBVIOUS
    <3> QED BY <2>1, <2>2, <3>1
  <2>4. f = g
    BY <2>1, <2>2, <2>3, SeqEqual
  <2> QED BY <2>4 DEF f, g
<1> QED BY <1>2, <1>3, <1>4

\* The first chunk in front of the second.
LEMMA FirstTwo == <<1>> \o <<2>> = <<1, 2>>
<1> DEFINE x == <<1>>
           y == <<2>>
           z == <<1, 2>>
<1>1. x \in Seq(Nat) /\ Len(x) = 1 /\ x[1] = 1
  OBVIOUS
<1>2. y \in Seq(Nat) /\ Len(y) = 1 /\ y[1] = 2
  OBVIOUS
<1>3. z \in Seq(Nat) /\ Len(z) = 2 /\ z[1] = 1 /\ z[2] = 2
  OBVIOUS
<1> HIDE DEF x, y, z
<1>4. /\ x \o y \in Seq(Nat) /\ Len(x \o y) = Len(x) + Len(y)
      /\ \A i \in 1..(Len(x) + Len(y)) :
            (x \o y)[i] = IF i <= Len(x) THEN x[i] ELSE y[i - Len(x)]
  BY <1>1, <1>2, ConcatProperties
<1>5. Len(x) + Len(y) = 2
  BY <1>1, <1>2
<1>6. ASSUME NEW i \in 1..2 PROVE (x \o y)[i] = z[i]
  <2>1. i = 1 \/ i = 2
    OBVIOUS
  <2> QED BY <1>1, <1>2, <1>3, <1>4, <1>5, <2>1
<1>7. x \o y = z
  BY <1>3, <1>4, <1>5, <1>6, SeqEqual, Zenon
<1> QED BY <1>7 DEF x, y, z

\* The peer's first chunks, in order.
FirstChunks(q) == q = [i \in 1..sent |-> i]

\* A tunnel that is constructed with its seed, around a socket in that state;
\* call is what its owner does with it.
Constructs(seed, unread, state, call) ==
    /\ seed \in Seq(Chunk) /\ Len(seed) <= 1 /\ unread \in Seq(Chunk)
    /\ tun = InitTun(seed)
    /\ \E pre, unacked \in 0..1, fin, rc \in BOOLEAN :
          str = InitStr(pre, unacked, unread, fin, rc)
    /\ sock = InitSock(state)
    /\ todo = <<call>>
    /\ sent \in Nat /\ FirstChunks(seed \o unread)
    /\ tcpOut = <<>> /\ elapsed = 0 /\ reason = "" /\ faults = {}

\* The invariant holds for it, and the relay has what arrived before.
LEMMA Constructed ==
    ASSUME NEW seed, NEW unread, NEW state, NEW call, Constructs(seed, unread, state, call),
           \/ state = "new" /\ call = "ConnectAsync"
           \/ state = "connected" /\ call = "Start"
    PROVE  IInv /\ Relay!RelayInit
<1>1. <<>> \in Seq(Chunk) /\ Len(<<>>) = 0 /\ seed \in Seq(Chunk) /\ Len(seed) <= 1
  BY EmptySeq, Zenon DEF Constructs
<1>2. tun \in Tun
  <2>1. tun = InitTun(seed)
    BY Zenon DEF Constructs
  <2> QED BY <1>1, <2>1 DEF InitTun, Tun
<1>3. str \in Str /\ str.unread = unread
  <2>1. PICK pre \in 0..1, unacked \in 0..1, fin \in BOOLEAN, rc \in BOOLEAN :
          str = InitStr(pre, unacked, unread, fin, rc)
    BY Zenon DEF Constructs
  <2>2. unread \in Seq(Chunk)
    BY Zenon DEF Constructs
  <2>3. pre \in Int /\ unacked \in Int /\ 0 \in Int
    OBVIOUS
  <2>4. InitStr(pre, unacked, unread, fin, rc) \in Str
    BY <2>2, <2>3 DEF InitStr, Str
  <2>5. InitStr(pre, unacked, unread, fin, rc).unread = unread
    BY Zenon DEF InitStr
  <2> QED BY <2>1, <2>4, <2>5, Zenon
<1>4. sock \in Sock /\ sock.state = state /\ ~sock.eof /\ ~sock.err
  <2>1. sock = InitSock(state)
    BY Zenon DEF Constructs
  <2> QED BY <2>1 DEF InitSock, Sock
<1>5. /\ ~tun.started /\ ~tun.closed /\ ~tun.receiving /\ ~tun.rcvDone /\ ~tun.quicDone
      /\ ~tun.disconnected /\ tun.seed = seed /\ tun.pending = <<>> /\ tun.sending = 0
  <2>1. tun = InitTun(seed)
    BY Zenon DEF Constructs
  <2> QED BY <2>1 DEF InitTun
<1>6. Typed
  <2>1. sent \in Nat /\ elapsed = 0
    BY Zenon DEF Constructs
  <2>2. elapsed \in Int
    BY <2>1
  <2> QED BY <1>2, <1>3, <1>4, <2>1, <2>2 DEF Typed
<1>7. Head(todo) = call /\ Tail(todo) = <<>> /\ todo # <<>>
  <2>1. todo = <<call>>
    BY Zenon DEF Constructs
  <2> QED BY <2>1
<1>8. StackInv
  <2>1. call \in Calls /\ call \in Early
    BY DEF Calls, Early, Dialling
  <2>2. todo = <<call>>
    BY Zenon DEF Constructs
  <2>3. todo \in Seq(Calls) /\ todo \in Seq(Early)
    BY <2>1, <2>2
  <2>4. Tail(todo) \in Seq(Later)
    BY <1>7, EmptySeq, Zenon
  <2> QED BY <2>3, <2>4 DEF StackInv
<1>9. CallInv /\ SocketInv
  BY <1>4, <1>5, <1>7 DEF CallInv, SocketInv, Step, Idle, Dialling
<1>10. QueueInv
  BY <1>1, <1>5, TunnelAssumption DEF QueueInv
<1>11. CloseInv /\ reason = ""
  <2>1. reason = "" /\ faults = {}
    BY Zenon DEF Constructs
  <2> QED BY <1>5, <2>1, Zenon DEF CloseInv, Reasons
<1>12. Relay!RelayInit
  <2>1. FirstChunks(Down)
    <3>1. Down = ((<<>> \o <<>>) \o seed) \o unread
      BY <1>3, <1>5, Zenon DEF Down, InFlight
    <3>2. <<>> \o <<>> = <<>> /\ <<>> \o seed = seed
      BY <1>1, ConcatEmptySeq
    <3>3. Down = seed \o unread
      BY <3>1, <3>2, Zenon
    <3> QED BY <3>3, Zenon DEF Constructs
  <2>2. (sock.eof \/ sock.err) = FALSE
    BY <1>4
  <2>3. Phase = "open"
    BY <1>11, Phases, Zenon
  <2>4. str.fin \in BOOLEAN
    BY <1>3 DEF Str
  <2>5. sent \in Nat /\ tcpOut = <<>>
    BY Zenon DEF Constructs
  <2> QED BY <2>1, <2>2, <2>3, <2>4, <2>5, Zenon
        DEF Relay!RelayInit, Down, Phase, FirstChunks
<1> QED BY <1>6, <1>8, <1>9, <1>10, <1>11, <1>12, Zenon DEF IInv

\* Both kinds of tunnel start like that.
LEMMA InitEstablishes ==
    ASSUME Init
    PROVE  IInv /\ Relay!RelayInit
<1>1. tcpOut = <<>> /\ elapsed = 0 /\ reason = "" /\ faults = {}
  BY Zenon DEF Init
<1>2. <<>> \in Seq(Chunk) /\ <<>> \o <<>> = <<>>
  BY EmptySeq, ConcatEmptySeq
<1>3. CASE ClientInit
  <2>1. PICK pre \in 0..1 : str = InitStr(pre, 1 - pre, <<>>, FALSE, FALSE)
    BY <1>3, Zenon DEF ClientInit
  <2>2. 1 - pre \in 0..1
    OBVIOUS
  <2>3. /\ tun = InitTun(<<>>) /\ sock = InitSock("connected")
        /\ todo = <<"Start">> /\ sent = 0
    BY <1>3 DEF ClientInit
  <2>4. FirstChunks(<<>> \o <<>>) /\ Len(<<>>) <= 1
    BY <1>2, <2>3, Numbered DEF FirstChunks
  <2>5. Constructs(<<>>, <<>>, "connected", "Start")
    <3>1. \E a, b \in 0..1, fin, rc \in BOOLEAN : str = InitStr(a, b, <<>>, fin, rc)
      BY <2>1, <2>2, Zenon
    <3>2. sent \in Nat
      BY <2>3
    <3> QED BY <1>1, <1>2, <2>3, <2>4, <3>1, <3>2, Zenon DEF Constructs
  <2> QED BY <2>5, Constructed
<1>4. CASE ServerInit
  <2>1. PICK seed \in {<<>>, <<1>>}, more \in 0..1, fin \in BOOLEAN :
          /\ tun = InitTun(seed)
          /\ str = InitStr(0, 0, IF more = 1 THEN <<Len(seed) + 1>> ELSE <<>>, fin,
                           fin /\ more = 0)
          /\ sock = InitSock("new")
          /\ todo = <<"ConnectAsync">>
          /\ sent = Len(seed) + more
    BY <1>4, Zenon DEF ServerInit
  <2>2. Len(<<>>) = 0 /\ Len(<<1>>) = 1 /\ 1 \in Chunk /\ 2 \in Chunk
    BY DEF Chunk
  <2>3. PICK u \in Seq(Chunk) : u = IF more = 1 THEN <<Len(seed) + 1>> ELSE <<>>
    <3>1. Len(seed) = 0 \/ Len(seed) = 1
      BY <2>2, Zenon
    <3>2. Len(seed) + 1 \in Chunk
      BY <3>1 DEF Chunk
    <3>3. <<Len(seed) + 1>> \in Seq(Chunk)
      BY <3>2
    <3> QED BY <1>2, <3>3, Zenon
  <2>4. PICK rc \in BOOLEAN : rc = (fin /\ more = 0)
    BY Zenon
  <2>5. str = InitStr(0, 0, u, fin, rc)
    BY <2>1, <2>3, <2>4, Zenon
  <2>6. sent \in Nat
    BY <2>1, <2>2
  <2>7. FirstChunks(seed \o u)
    <3>1. <<>> \o <<1>> = <<1>> /\ <<1>> \o <<>> = <<1>>
      OBVIOUS
    <3>2. CASE seed = <<>> /\ more = 0
      <4>1. u = <<>> /\ sent = 0
        BY <2>1, <2>2, <2>3, <3>2
      <4> QED BY <1>2, <3>2, <4>1, Numbered DEF FirstChunks
    <3>3. CASE seed = <<>> /\ more = 1
      <4>1. u = <<1>> /\ sent = 1
        BY <2>1, <2>2, <2>3, <3>3
      <4> QED BY <3>1, <3>3, <4>1, Numbered DEF FirstChunks
    <3>4. CASE seed = <<1>> /\ more = 0
      <4>1. u = <<>> /\ sent = 1
        BY <2>1, <2>2, <2>3, <3>4
      <4> QED BY <3>1, <3>4, <4>1, Numbered DEF FirstChunks
    <3>5. CASE seed = <<1>> /\ more = 1
      <4>1. u = <<2>> /\ sent = 2
        BY <2>1, <2>2, <2>3, <3>5
      <4> QED BY <3>5, <4>1, FirstTwo, Numbered DEF FirstChunks
    <3>6. more = 0 \/ more = 1
      OBVIOUS
    <3> QED BY <3>2, <3>3, <3>4, <3>5, <3>6
  <2>8. seed \in Seq(Chunk) /\ Len(seed) <= 1
    <3>1. <<1>> \in Seq(Chunk) /\ 0 <= 1 /\ 1 <= 1
      BY <2>2
    <3> QED BY <1>2, <2>2, <3>1, Zenon
  <2>9. 0 \in 0..1
    OBVIOUS
  <2>10. Constructs(seed, u, "new", "ConnectAsync")
    BY <1>1, <2>1, <2>5, <2>6, <2>7, <2>8, <2>9, Zenon DEF Constructs
  <2> QED BY <2>10, Constructed
<1> QED BY <1>3, <1>4, Zenon DEF Init

\* Every step keeps the invariant and is a step of the relay or invisible to
\* it.
LEMMA StepKeeps ==
    ASSUME IInv, [Next]_vars
    PROVE  IInv' /\ Relays
<1>1. CASE UNCHANGED vars
  BY <1>1, StutterKeeps
<1>2. CASE Steps
  BY <1>2, ConnectAsyncKeeps, ConnectOkKeeps, ConnectFailedKeeps, StartKeeps,
     OnStreamDataAvailableKeeps, OnStreamCanWriteMoreKeeps, OnStreamGoneKeeps, FillKeeps,
     BeginReadKeeps, RcvDataKeeps, AfterWriteKeeps, UpdateIdleClassKeeps, RcvEofKeeps,
     RcvErrKeeps, WriteFinKeeps, SendOkKeeps, SendErrKeeps, FlushKeeps, AfterQuicFinKeeps,
     FinalizeKeeps DEF Steps
<1>3. CASE Events
  <2>1. CASE PeerData
    <3>1. 1 \in 0..1 /\ FALSE \in BOOLEAN
      OBVIOUS
    <3>2. PeerSends(1, FALSE)
      BY <2>1, Zenon DEF PeerData
    <3> QED BY <3>1, <3>2, PeerSendsKeeps, Zenon
  <2>2. CASE PeerFin
    <3>1. PICK data \in 0..1 : PeerSends(data, TRUE)
      BY <2>2, Zenon DEF PeerFin
    <3> QED BY <3>1, PeerSendsKeeps, Zenon
  <2> QED BY <1>3, <2>1, <2>2, DialCompletesKeeps, PeerResetKeeps, PeerStopSendingKeeps,
        AckDataKeeps, AckFinKeeps, OnCanWriteKeeps, ConnectionClosesKeeps, IdleSweepKeeps,
        TcpArrivesKeeps, SocketReadableKeeps, SocketWritableKeeps, FlushAlarmKeeps, Zenon
        DEF Events
<1>4. CASE Tick
  BY <1>4, TickKeeps
<1>5. CASE Collected
  BY <1>5, StutterKeeps DEF Collected
<1> QED BY <1>1, <1>2, <1>3, <1>4, <1>5 DEF Next

\* No callback order breaks a contract that the code CHECKs or DCHECKs:
\* Close() runs once, and the socket is used only while it is connected, by
\* one send at a time (quictun_tunnel.cc:555, the CHECKs of
\* event_loop_connecting_client_socket.cc).
THEOREM ContractsHold == Spec => []ContractsKept
<1>1. Init => IInv
  BY InitEstablishes
<1>2. IInv /\ [Next]_vars => IInv'
  BY StepKeeps
<1>3. IInv => ContractsKept
  BY Zenon DEF IInv, CloseInv, ContractsKept
<1> QED BY <1>1, <1>2, <1>3, PTL DEF Spec, SafeSpec

\* The tunnel implements QuictunRelay: the peer's data reaches the TCP socket
\* in order, none lost or repeated, and a tunnel that finishes before the TCP
\* side has closed has delivered all of it (FillQueueFromStream(),
\* MaybeFlushQuicToTcp(), MaybeCloseAfterQuicFin()).
THEOREM TunnelImplementsRelay == Spec => ImplementsRelay
<1>1. Init => IInv /\ Relay!RelayInit
  BY InitEstablishes
<1>2. IInv /\ [Next]_vars => IInv' /\ [Relay!RelayNext]_(Relay!relayVars)
  BY StepKeeps DEF Relays
<1> QED BY <1>1, <1>2, PTL DEF Spec, SafeSpec, ImplementsRelay, Relay!RelaySpec
===========================================================================
