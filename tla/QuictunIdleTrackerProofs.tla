---------------------- MODULE QuictunIdleTrackerProofs ----------------------
(***************************************************************************)
(* Proofs about the idle tracker, for any number of tunnels and            *)
(* connections and any timeouts.                                           *)
(***************************************************************************)
EXTENDS QuictunIdleTracker, SequenceTheorems, TLAPS

-----------------------------------------------------------------------------
(* Lists: no duplicates, oldest first by the timestamps f.                 *)

Distinct(l) == \A i, j \in DOMAIN l : l[i] = l[j] => i = j

SortedBy(l, f) == \A i, j \in DOMAIN l : i < j => f[l[i]] <= f[l[j]]

\* Erase() keeps the type, the order and the distinctness, and drops just t.
LEMMA EraseLemma ==
  ASSUME NEW S, NEW l \in Seq(S), NEW t \in S, Distinct(l),
         NEW f \in [S -> Int], SortedBy(l, f)
  PROVE  /\ Erase(l, t) \in Seq(S)
         /\ Distinct(Erase(l, t))
         /\ SortedBy(Erase(l, t), f)
         /\ ListOf(Erase(l, t)) = ListOf(l) \ {t}
<1>1. CASE t \notin ListOf(l)
  BY <1>1 DEF Erase
<1>2. CASE t \in ListOf(l)
  <2> DEFINE n == Len(l)
             k == CHOOSE i \in DOMAIN l : l[i] = t
             e == [j \in 1 .. (n - 1) |-> IF j < k THEN l[j] ELSE l[j + 1]]
  <2>1. n \in Nat /\ DOMAIN l = 1 .. n /\ \A i \in 1 .. n : l[i] \in S
    OBVIOUS
  <2>2. k \in 1 .. n /\ l[k] = t
    BY <1>2 DEF ListOf
  <2>3. Erase(l, t) = e
    BY <1>2 DEF Erase
  <2> HIDE DEF n, k
  <2>4. n - 1 \in Nat
    BY <2>1, <2>2
  <2>5. DOMAIN e = 1 .. (n - 1)
        /\ \A j \in 1 .. (n - 1) : e[j] = IF j < k THEN l[j] ELSE l[j + 1]
    OBVIOUS
  <2>6. \A j \in 1 .. (n - 1) : j \in 1 .. n /\ j + 1 \in 1 .. n
    BY <2>1
  <2>7. e \in Seq(S)
    <3>1. \A j \in 1 .. (n - 1) : e[j] \in S
      BY <2>1, <2>5, <2>6
    <3>2. e \in [1 .. (n - 1) -> S]
      BY <3>1, <2>5
    <3> HIDE DEF e
    <3> QED BY <3>2, <2>4, SeqDef
  <2> HIDE DEF e
  <2>8. Distinct(e)
    <3> SUFFICES ASSUME NEW i \in 1 .. (n - 1), NEW j \in 1 .. (n - 1), e[i] = e[j]
                 PROVE  i = j
      BY <2>5 DEF Distinct
    <3>1. \A p, q \in 1 .. n : l[p] = l[q] => p = q
      BY <2>1 DEF Distinct
    <3>2. i \in 1 .. n /\ i + 1 \in 1 .. n /\ j \in 1 .. n /\ j + 1 \in 1 .. n
      BY <2>6
    <3>3. CASE i < k /\ j < k
      BY <3>1, <3>2, <3>3, <2>5
    <3>4. CASE i < k /\ ~(j < k)
      <4>1. i = j + 1
        BY <3>1, <3>2, <3>4, <2>5
      <4> QED BY <4>1, <3>2, <3>4, <2>2
    <3>5. CASE ~(i < k) /\ j < k
      <4>1. i + 1 = j
        BY <3>1, <3>2, <3>5, <2>5
      <4> QED BY <4>1, <3>2, <3>5, <2>2
    <3>6. CASE ~(i < k) /\ ~(j < k)
      <4>1. i + 1 = j + 1
        BY <3>1, <3>2, <3>6, <2>5
      <4> QED BY <4>1, <3>2
    <3> QED BY <3>3, <3>4, <3>5, <3>6
  <2>9. SortedBy(e, f)
    <3> SUFFICES ASSUME NEW i \in 1 .. (n - 1), NEW j \in 1 .. (n - 1), i < j
                 PROVE  f[e[i]] <= f[e[j]]
      BY <2>5 DEF SortedBy
    <3>1. \A p, q \in 1 .. n : p < q => f[l[p]] <= f[l[q]]
      BY <2>1 DEF SortedBy
    <3>2. i \in 1 .. n /\ i + 1 \in 1 .. n /\ j \in 1 .. n /\ j + 1 \in 1 .. n
      BY <2>6
    <3>3. CASE i < k /\ j < k
      BY <3>1, <3>2, <3>3, <2>5
    <3>4. CASE i < k /\ ~(j < k)
      BY <3>1, <3>2, <3>4, <2>5
    <3>5. CASE ~(i < k)
      BY <3>1, <3>2, <3>5, <2>2, <2>5
    <3> QED BY <3>3, <3>4, <3>5
  <2>10. ASSUME NEW i \in 1 .. (n - 1) PROVE e[i] \in ListOf(l) \ {t}
    <3>1. \A p, q \in 1 .. n : l[p] = l[q] => p = q
      BY <2>1 DEF Distinct
    <3>2. i \in 1 .. n /\ i + 1 \in 1 .. n
      BY <2>6
    <3>3. e[i] # t
      BY <3>1, <3>2, <2>2, <2>5
    <3> QED BY <3>2, <3>3, <2>1, <2>5 DEF ListOf
  <2>11. ASSUME NEW x \in ListOf(l) \ {t} PROVE x \in ListOf(e)
    <3>1. PICK i \in 1 .. n : l[i] = x
      BY <2>1 DEF ListOf
    <3>2. CASE i < k
      <4>1. i \in 1 .. (n - 1)
        BY <3>2, <2>1, <2>2
      <4> QED BY <4>1, <3>1, <3>2, <2>5 DEF ListOf
    <3>3. CASE i > k
      <4>1. i - 1 \in 1 .. (n - 1) /\ ~(i - 1 < k) /\ (i - 1) + 1 = i
        BY <3>3, <2>1, <2>2
      <4> QED BY <4>1, <3>1, <2>5 DEF ListOf
    <3>4. i # k
      BY <3>1, <2>2
    <3> QED BY <3>2, <3>3, <3>4, <2>2
  <2>12. ListOf(e) = ListOf(l) \ {t}
    BY <2>5, <2>10, <2>11 DEF ListOf
  <2> QED BY <2>3, <2>7, <2>8, <2>9, <2>12
<1> QED BY <1>1, <1>2

\* push_back() of an unlinked tunnel that is as recent as any linked one.
LEMMA AppendLemma ==
  ASSUME NEW S, NEW l \in Seq(S), NEW t \in S, Distinct(l), t \notin ListOf(l),
         NEW f \in [S -> Int], SortedBy(l, f), \A u \in S : f[u] <= f[t]
  PROVE  /\ Append(l, t) \in Seq(S)
         /\ Distinct(Append(l, t))
         /\ SortedBy(Append(l, t), f)
         /\ ListOf(Append(l, t)) = ListOf(l) \union {t}
<1> DEFINE a == Append(l, t)
<1>1. /\ a \in Seq(S) /\ Len(l) \in Nat /\ Len(a) = Len(l) + 1
      /\ DOMAIN a = 1 .. Len(l) + 1 /\ DOMAIN l = 1 .. Len(l)
      /\ \A i \in 1 .. Len(l) : a[i] = l[i]
      /\ a[Len(l) + 1] = t
  OBVIOUS
<1> HIDE DEF a
<1>2. \A i \in 1 .. Len(l) : l[i] # t /\ l[i] \in S
  BY DEF ListOf
<1>3. Distinct(a)
  BY <1>1, <1>2 DEF Distinct
<1>4. SortedBy(a, f)
  <2> SUFFICES ASSUME NEW i \in DOMAIN a, NEW j \in DOMAIN a, i < j
               PROVE  f[a[i]] <= f[a[j]]
    BY DEF SortedBy
  <2>1. i \in 1 .. Len(l)
    BY <1>1
  <2>2. CASE j \in 1 .. Len(l)
    BY <2>1, <2>2, <1>1 DEF SortedBy
  <2>3. CASE j = Len(l) + 1
    BY <2>1, <2>3, <1>1, <1>2
  <2> QED BY <2>2, <2>3, <1>1
<1>5. ListOf(a) = ListOf(l) \union {t}
  <2>1. ListOf(a) \subseteq ListOf(l) \union {t}
    BY <1>1 DEF ListOf
  <2>2. t \in ListOf(a)
    <3>1. Len(l) + 1 \in DOMAIN a
      BY <1>1
    <3> QED BY <3>1, <1>1 DEF ListOf
  <2>3. ListOf(l) \subseteq ListOf(a)
    BY <1>1 DEF ListOf
  <2> QED BY <2>1, <2>2, <2>3
<1> QED BY <1>1, <1>3, <1>4, <1>5 DEF a

-----------------------------------------------------------------------------
(* The pair of lists.                                                      *)

GoodLists(lists, f) ==
  /\ lists \in [Classes -> Seq(Tunnels)]
  /\ \A s \in Classes : Distinct(lists[s]) /\ SortedBy(lists[s], f)

\* No tunnel was active after x.
UpTo(f, x) == \A u \in Tunnels : f[u] <= x

\* t is linked in one list at most, and if so maybe in s.
OneList(lists, t, s) ==
  \A c \in Classes \ {s} : t \in ListOf(lists[c]) => t \notin ListOf(lists[s])

\* r is lists with t moved to s, and good for the timestamps f.
MovedTo(lists, r, t, s, f) ==
  /\ GoodLists(r, f)
  /\ ListOf(r[s]) = ListOf(lists[s]) \union {t}
  /\ \A c \in Classes \ {s} : ListOf(r[c]) = ListOf(lists[c]) \ {t}

\* Remove() keeps both lists good and unlinks t from both.
LEMMA RemoveLemma ==
  ASSUME NEW lists, NEW t \in Tunnels, NEW f \in [Tunnels -> Int],
         GoodLists(lists, f)
  PROVE  /\ GoodLists(Remove(lists, t), f)
         /\ \A s \in Classes : ListOf(Remove(lists, t)[s]) = ListOf(lists[s]) \ {t}
<1>1. ASSUME NEW s \in Classes
      PROVE  /\ Remove(lists, t)[s] = Erase(lists[s], t)
             /\ Erase(lists[s], t) \in Seq(Tunnels)
             /\ Distinct(Erase(lists[s], t))
             /\ SortedBy(Erase(lists[s], t), f)
             /\ ListOf(Erase(lists[s], t)) = ListOf(lists[s]) \ {t}
  <2>1. lists[s] \in Seq(Tunnels) /\ Distinct(lists[s]) /\ SortedBy(lists[s], f)
    BY DEF GoodLists
  <2> QED BY <2>1, EraseLemma DEF Remove
<1>2. Remove(lists, t) \in [Classes -> Seq(Tunnels)]
  BY <1>1 DEF Remove
<1> QED BY <1>1, <1>2 DEF GoodLists

\* Raising the timestamp of an unlinked tunnel disturbs no order.
LEMMA RestampLemma ==
  ASSUME NEW l \in Seq(Tunnels), NEW t \in Tunnels, NEW f \in [Tunnels -> Int],
         NEW x \in Int, SortedBy(l, f), t \notin ListOf(l)
  PROVE  SortedBy(l, [f EXCEPT ![t] = x])
<1>1. \A i \in DOMAIN l : l[i] # t /\ l[i] \in Tunnels
  BY DEF ListOf
<1> QED BY <1>1 DEF SortedBy

\* Touch() of a tunnel whose last_activity_ has just become the present:
\* the DCHECK in Touch() holds, and the tunnel ends up in list s alone.
LEMMA TouchLemma ==
  ASSUME NEW lists, NEW t \in Tunnels, NEW s \in Classes, NEW x \in Int,
         NEW f \in [Tunnels -> Int], UpTo(f, x), GoodLists(lists, f),
         OneList(lists, t, s)
  PROVE  MovedTo(lists, Touch(lists, t, s), t, s, [f EXCEPT ![t] = x])
<1> DEFINE g == [f EXCEPT ![t] = x]
           m == Remove(lists, t)
<1>1. g \in [Tunnels -> Int] /\ g[t] = x /\ \A u \in Tunnels : g[u] <= g[t]
  BY DEF UpTo
<1>2. \A c \in Classes : /\ lists[c] \in Seq(Tunnels) /\ Distinct(lists[c])
                          /\ SortedBy(lists[c], f)
  BY DEF GoodLists
<1>3. CASE lists[s] # <<>> /\ lists[s][Len(lists[s])] = t
  <2> DEFINE l == lists[s]
             n == Len(l)
  <2>1. n \in Nat /\ DOMAIN l = 1 .. n /\ n \in 1 .. n /\ l[n] = t
        /\ \A i \in 1 .. n : l[i] \in Tunnels
    BY <1>2, <1>3
  <2>2. t \in ListOf(lists[s])
    BY <2>1 DEF ListOf
  <2>3. \A c \in Classes \ {s} : t \notin ListOf(lists[c])
    BY <2>2 DEF OneList
  <2>4. \A c \in Classes \ {s} : SortedBy(lists[c], g)
    BY <1>2, <2>3, RestampLemma
  <2>5. SortedBy(l, g)
    <3> SUFFICES ASSUME NEW i \in 1 .. n, NEW j \in 1 .. n, i < j
                 PROVE  g[l[i]] <= g[l[j]]
      BY <2>1 DEF SortedBy
    <3>1. l[i] # t
      <4>1. i # n
        BY <2>1
      <4> QED BY <4>1, <1>2, <2>1 DEF Distinct
    <3>2. CASE j = n
      BY <3>2, <2>1, <1>1
    <3>3. CASE j # n
      <4>1. l[j] # t
        BY <3>3, <1>2, <2>1 DEF Distinct
      <4>2. f[l[i]] <= f[l[j]]
        BY <1>2, <2>1 DEF SortedBy
      <4> QED BY <3>1, <4>1, <4>2, <2>1
    <3> QED BY <3>2, <3>3
  <2>6. Touch(lists, t, s) = lists
    BY <1>3 DEF Touch
  <2> HIDE DEF g
  <2>7. GoodLists(lists, g)
    BY <2>4, <2>5 DEF GoodLists
  <2> QED BY <2>2, <2>3, <2>6, <2>7 DEF g, MovedTo
<1>4. CASE ~(lists[s] # <<>> /\ lists[s][Len(lists[s])] = t)
  <2> DEFINE r == [m EXCEPT ![s] = Append(@, t)]
  <2>1. Touch(lists, t, s) = r
    BY <1>4 DEF Touch
  <2>2. GoodLists(m, f) /\ \A c \in Classes : ListOf(m[c]) = ListOf(lists[c]) \ {t}
    BY RemoveLemma
  <2> HIDE DEF m
  <2>3. /\ m \in [Classes -> Seq(Tunnels)]
        /\ \A c \in Classes : m[c] \in Seq(Tunnels) /\ Distinct(m[c])
                               /\ SortedBy(m[c], f) /\ t \notin ListOf(m[c])
    BY <2>2 DEF GoodLists
  <2>4. \A c \in Classes : SortedBy(m[c], g)
    BY <2>3, RestampLemma
  <2> HIDE DEF g
  <2>5. /\ Append(m[s], t) \in Seq(Tunnels)
        /\ Distinct(Append(m[s], t))
        /\ SortedBy(Append(m[s], t), g)
        /\ ListOf(Append(m[s], t)) = ListOf(m[s]) \union {t}
    BY <2>3, <2>4, <1>1, AppendLemma
  <2>6. /\ r \in [Classes -> Seq(Tunnels)] /\ r[s] = Append(m[s], t)
        /\ \A c \in Classes \ {s} : r[c] = m[c]
    BY <2>3, <2>5
  <2> HIDE DEF r
  <2>7. GoodLists(r, g)
    BY <2>3, <2>4, <2>5, <2>6 DEF GoodLists
  <2>8. ListOf(r[s]) = ListOf(lists[s]) \union {t}
        /\ \A c \in Classes \ {s} : ListOf(r[c]) = ListOf(lists[c]) \ {t}
    BY <2>2, <2>5, <2>6
  <2> QED BY <2>1, <2>7, <2>8 DEF g, MovedTo
<1> QED BY <1>3, <1>4

\* Touching again, in the same instant, for either class.
LEMMA RetouchLemma ==
  ASSUME NEW lists, NEW t \in Tunnels, NEW s \in Classes, NEW h \in Classes,
         NEW x \in Int, NEW f \in [Tunnels -> Int], UpTo(f, x),
         GoodLists(lists, f), OneList(lists, t, s)
  PROVE  MovedTo(lists, Touch(Touch(lists, t, s), t, h), t, h, [f EXCEPT ![t] = x])
<1> DEFINE l == Touch(lists, t, s)
           g == [f EXCEPT ![t] = x]
           r == Touch(l, t, h)
<1>1. MovedTo(lists, l, t, s, g)
  BY TouchLemma
<1>2. g \in [Tunnels -> Int] /\ UpTo(g, x)
  BY DEF UpTo
<1>3. [g EXCEPT ![t] = x] = g
  OBVIOUS
<1> HIDE DEF l, g
<1>4. GoodLists(l, g) /\ OneList(l, t, h)
  BY <1>1 DEF MovedTo, OneList
<1>5. MovedTo(l, r, t, h, g)
  BY <1>2, <1>3, <1>4, TouchLemma
<1> HIDE DEF r
<1>6. MovedTo(lists, r, t, h, g)
  BY <1>1, <1>5 DEF MovedTo
<1> QED BY <1>6 DEF r, g, l

-----------------------------------------------------------------------------
(* The inductive invariant.                                                *)

\* While the second list is swept the first has no expired tunnel left.
OrderSwept ==
  sweep = "stalled" =>
    \A t \in Tunnels : Open(t) /\ filed[t] = "order" =>
                         now - lastActivity[t] < Timeout

IInv == TypeOK /\ ListsSorted /\ LinkedWhileOpen /\ FiledByBuffers /\ OrderSwept

\* What the invariant says of the lists, in the terms of the lemmas.
Filed(c) == {t \in Tunnels : Open(t) /\ filed[t] = c}

LEMMA ListsAreGood ==
  ASSUME TypeOK
  PROVE  ListsSorted /\ LinkedWhileOpen
         <=> GoodLists(list, lastActivity) /\ \A c \in Classes : ListOf(list[c]) = Filed(c)
BY DEF TypeOK, ListsSorted, LinkedWhileOpen, GoodLists, SortedBy, Distinct, Filed

LEMMA ListsAreGoodPrimed ==
  ASSUME TypeOK'
  PROVE  (ListsSorted /\ LinkedWhileOpen)'
         <=> GoodLists(list', lastActivity') /\ \A c \in Classes : ListOf(list'[c]) = Filed(c)'
BY DEF TypeOK, ListsSorted, LinkedWhileOpen, GoodLists, SortedBy, Distinct, Filed

\* What the invariant gives for a call of Touch().
LEMMA Touchable ==
  ASSUME IInv, NEW t \in Tunnels
  PROVE  /\ now \in Int /\ lastActivity \in [Tunnels -> Int]
         /\ UpTo(lastActivity, now) /\ GoodLists(list, lastActivity)
         /\ \A s \in Classes : OneList(list, t, s)
<1>1. now \in Int /\ lastActivity \in [Tunnels -> Int] /\ UpTo(lastActivity, now)
  BY DEF IInv, TypeOK, UpTo
<1>2. GoodLists(list, lastActivity) /\ \A c \in Classes : ListOf(list[c]) = Filed(c)
  BY ListsAreGood DEF IInv
<1>3. \A s \in Classes : OneList(list, t, s)
  BY <1>2 DEF Filed, OneList
<1> QED BY <1>1, <1>2, <1>3

\* NoteActivity() then UpdateIdleClass() on an open tunnel.
LEMMA NoteActivityLemma ==
  ASSUME IInv, NEW t \in Tunnels, NEW h \in Classes, ~closed[t],
         NoteActivityThenUpdate(t, h)
  PROVE  /\ filed' = [filed EXCEPT ![t] = h]
         /\ lastActivity' = [lastActivity EXCEPT ![t] = now]
         /\ MovedTo(list, list', t, h, lastActivity')
<1>1. PICK o \in Classes : o = holding[t]
  BY DEF IInv, TypeOK
<1>2. MovedTo(list, Touch(list, t, o), t, o, [lastActivity EXCEPT ![t] = now])
  BY Touchable, TouchLemma
<1>3. CASE h = o
  <2>1. /\ filed' = [filed EXCEPT ![t] = h] /\ list' = Touch(list, t, o)
        /\ lastActivity' = [lastActivity EXCEPT ![t] = now]
    BY <1>1, <1>3 DEF NoteActivityThenUpdate, UpdateIdleClass
  <2> QED BY <2>1, <1>2, <1>3
<1>4. CASE h # o
  <2>1. t \in ListOf(Touch(list, t, o)[o])
    BY <1>2 DEF MovedTo
  <2>2. /\ filed' = [filed EXCEPT ![t] = h]
        /\ list' = Touch(Touch(list, t, o), t, h)
        /\ lastActivity' = [lastActivity EXCEPT ![t] = now]
    BY <1>1, <1>4, <2>1 DEF NoteActivityThenUpdate, UpdateIdleClass, Refile
  <2>3. MovedTo(list, list', t, h, [lastActivity EXCEPT ![t] = now])
    BY <2>2, Touchable, RetouchLemma
  <2> QED BY <2>2, <2>3
<1> QED BY <1>3, <1>4

\* UpdateIdleClass() alone on an open tunnel.
LEMMA UpdateIdleClassLemma ==
  ASSUME IInv, NEW t \in Tunnels, NEW h \in Classes, Open(t),
         UpdateIdleClass(t, h, filed[t], lastActivity[t], list)
  PROVE  /\ filed' = [filed EXCEPT ![t] = h]
         /\ lastActivity' = IF h = filed[t] THEN lastActivity
                            ELSE [lastActivity EXCEPT ![t] = now]
         /\ MovedTo(list, list', t, h, lastActivity')
<1>1. GoodLists(list, lastActivity) /\ \A c \in Classes : ListOf(list[c]) = Filed(c)
  BY ListsAreGood DEF IInv
<1>2. filed \in [Tunnels -> Classes] /\ ~closed[t]
  BY DEF IInv, TypeOK, Open
<1>3. CASE h = filed[t]
  <2>1. filed' = filed /\ lastActivity' = lastActivity /\ list' = list
    BY <1>2, <1>3 DEF UpdateIdleClass, IInv, TypeOK
  <2>2. t \in ListOf(list[h]) /\ \A c \in Classes \ {h} : t \notin ListOf(list[c])
    BY <1>1, <1>3 DEF Filed
  <2> QED BY <2>1, <2>2, <1>1, <1>2, <1>3 DEF MovedTo
<1>4. CASE h # filed[t]
  <2>1. t \in ListOf(list[filed[t]])
    BY <1>1, <1>2 DEF Filed
  <2>2. /\ filed' = [filed EXCEPT ![t] = h] /\ list' = Touch(list, t, h)
        /\ lastActivity' = [lastActivity EXCEPT ![t] = now]
    BY <1>2, <1>4, <2>1 DEF UpdateIdleClass, Refile
  <2>3. MovedTo(list, list', t, h, [lastActivity EXCEPT ![t] = now])
    BY <2>2, Touchable, TouchLemma
  <2> QED BY <2>2, <2>3, <1>4
<1> QED BY <1>3, <1>4
\* A callback that moved t to the list of class h keeps the lists right.
LEMMA MoveStep ==
  ASSUME IInv, TypeOK', NEW t \in Tunnels, NEW h \in Classes,
         MovedTo(list, list', t, h, lastActivity'),
         filed' = [filed EXCEPT ![t] = h], closed' = closed, ~closed[t],
         started' = [started EXCEPT ![t] = TRUE]
  PROVE  (ListsSorted /\ LinkedWhileOpen)'
<1>1. \A c \in Classes : ListOf(list[c]) = Filed(c)
  BY ListsAreGood DEF IInv
<1>2. \A u \in Tunnels : /\ Open(u)' <=> u = t \/ Open(u)
                         /\ filed'[u] = (IF u = t THEN h ELSE filed[u])
  BY DEF IInv, TypeOK, Open
<1>3. \A c \in Classes \ {h} : Filed(c)' = Filed(c) \ {t}
  BY <1>2 DEF Filed
<1>4. Filed(h)' = Filed(h) \union {t}
  <2>1. ASSUME NEW u \in Tunnels PROVE u \in Filed(h)' <=> u \in Filed(h) \/ u = t
    <3>1. CASE u = t
      <4>1. Open(t)' /\ filed'[t] = h
        BY <1>2 DEF Open, IInv, TypeOK
      <4>2. t \in Filed(h)'
        BY <4>1 DEF Filed, Open
      <4> QED BY <3>1, <4>2
    <3>2. CASE u # t
      BY <1>2, <3>2 DEF Filed
    <3> QED BY <3>1, <3>2
  <2>2. Filed(h)' \subseteq Tunnels /\ Filed(h) \subseteq Tunnels
    BY DEF Filed
  <2> QED BY <2>1, <2>2
<1>5. \A c \in Classes : ListOf(list'[c]) = Filed(c)'
  BY <1>1, <1>3, <1>4 DEF MovedTo
<1> QED BY <1>5, ListsAreGoodPrimed DEF MovedTo

\* Close() keeps the invariant, whoever calls it.
LEMMA CloseStep ==
  ASSUME IInv, NEW t \in Tunnels, Close(t), doomed' \in SUBSET Tunnels,
         UNCHANGED <<now, started, filed, lastActivity, sweep, finishing, histories>>
  PROVE  IInv'
<1>1. GoodLists(list, lastActivity) /\ \A c \in Classes : ListOf(list[c]) = Filed(c)
  BY ListsAreGood DEF IInv
<1>2. lastActivity \in [Tunnels -> Int]
  BY DEF IInv, TypeOK
<1>3. GoodLists(list', lastActivity)
      /\ \A c \in Classes : ListOf(list'[c]) = ListOf(list[c]) \ {t}
  BY <1>1, <1>2, RemoveLemma DEF Close
<1>4. TypeOK'
  BY <1>3 DEF IInv, TypeOK, Close, GoodLists, histories
<1>5. \A u \in Tunnels : Open(u)' <=> Open(u) /\ u # t
  BY DEF IInv, TypeOK, Open, Close
<1>6. \A c \in Classes : Filed(c)' = Filed(c) \ {t}
  BY <1>5 DEF Filed
<1>7. (ListsSorted /\ LinkedWhileOpen)'
  BY <1>1, <1>3, <1>4, <1>6, ListsAreGoodPrimed
<1>8. FiledByBuffers'
  BY <1>5 DEF IInv, FiledByBuffers, histories
<1>9. OrderSwept'
  BY <1>5 DEF IInv, OrderSwept
<1> QED BY <1>4, <1>7, <1>8, <1>9 DEF IInv

\* A step that leaves the lists and what they are judged by alone.
LEMMA ListsUntouched ==
  ASSUME IInv, UNCHANGED <<started, closed, filed, lastActivity, list>>
  PROVE  (ListsSorted /\ LinkedWhileOpen)'
BY DEF IInv, ListsSorted, LinkedWhileOpen, Open

\* DataArrives() and Start(): the tunnel is active now.
LEMMA ArrivalStep ==
  ASSUME IInv, InMainLoop, NEW t \in Tunnels, NEW h \in Classes, ~closed[t],
         NoteActivityThenUpdate(t, h), Moved(t, h),
         started' = [started EXCEPT ![t] = TRUE],
         UNCHANGED <<now, closed, sweep, finishing, doomed>>
  PROVE  IInv'
<1>1. /\ filed' = [filed EXCEPT ![t] = h]
      /\ lastActivity' = [lastActivity EXCEPT ![t] = now]
      /\ MovedTo(list, list', t, h, lastActivity')
  BY NoteActivityLemma
<1>2. TypeOK'
  <2>1. now \in Nat /\ now \in 0 .. now /\ now' = now
    BY DEF IInv, TypeOK
  <2>2. /\ lastActivity' \in [Tunnels -> 0 .. now] /\ moved' \in [Tunnels -> 0 .. now]
        /\ progressed' \in [Tunnels -> 0 .. now]
    BY <1>1, <2>1 DEF IInv, TypeOK, Moved
  <2>3. /\ filed' \in [Tunnels -> Classes] /\ holding' \in [Tunnels -> Classes]
        /\ started' \in [Tunnels -> BOOLEAN]
    BY <1>1 DEF IInv, TypeOK, Moved
  <2>4. list' \in [Classes -> Seq(Tunnels)]
    BY <1>1 DEF MovedTo, GoodLists
  <2> QED BY <2>1, <2>2, <2>3, <2>4 DEF IInv, TypeOK
<1>3. (ListsSorted /\ LinkedWhileOpen)'
  BY <1>1, <1>2, MoveStep
<1>4. FiledByBuffers'
  <2> SUFFICES ASSUME NEW u \in Tunnels, Open(u)'
               PROVE  /\ holding'[u] = "stalled" => filed'[u] = "stalled"
                      /\ lastActivity'[u] <= progressed'[u]
                      /\ u \notin finishing' => /\ filed'[u] = holding'[u]
                                                /\ moved'[u] <= lastActivity'[u]
    BY DEF FiledByBuffers
  <2>1. CASE u = t
    BY <1>1, <2>1 DEF IInv, TypeOK, Moved
  <2>2. CASE u # t
    BY <1>1, <2>2 DEF IInv, TypeOK, FiledByBuffers, Moved, Open
  <2> QED BY <2>1, <2>2
<1>5. OrderSwept'
  BY DEF OrderSwept, InMainLoop
<1> QED BY <1>2, <1>3, <1>4, <1>5 DEF IInv

\* DataLeaves() on the two paths.
LEMMA LeavingStep ==
  ASSUME IInv, NEW t \in Tunnels, DataLeaves(t)
  PROVE  IInv'
<1>1. Open(t) /\ ~closed[t] /\ closed' = closed
      /\ started' = [started EXCEPT ![t] = TRUE] /\ now' = now
      /\ finishing' = finishing /\ doomed' = doomed /\ sweep' = sweep /\ sweep = "off"
  BY DEF DataLeaves, Open, InMainLoop, IInv, TypeOK
<1>2. PICK h \in Classes :
        /\ UpdateIdleClass(t, h, filed[t], lastActivity[t], list)
        /\ \/ h = "order" /\ holding[t] = "stalled" /\ Moved(t, h)
           \/ /\ h = holding[t] /\ UNCHANGED <<holding, moved>>
              /\ progressed' = [progressed EXCEPT ![t] = now]
  BY DEF DataLeaves, IInv, TypeOK, Classes
<1>3. /\ filed' = [filed EXCEPT ![t] = h]
      /\ lastActivity' = IF h = filed[t] THEN lastActivity
                         ELSE [lastActivity EXCEPT ![t] = now]
      /\ MovedTo(list, list', t, h, lastActivity')
  BY <1>1, <1>2, UpdateIdleClassLemma
<1>4. TypeOK'
  <2>1. now \in Nat /\ now \in 0 .. now
    BY DEF IInv, TypeOK
  <2>2. /\ lastActivity' \in [Tunnels -> 0 .. now] /\ moved' \in [Tunnels -> 0 .. now]
        /\ progressed' \in [Tunnels -> 0 .. now]
    BY <1>2, <1>3, <2>1 DEF IInv, TypeOK, Moved
  <2>3. /\ filed' \in [Tunnels -> Classes] /\ holding' \in [Tunnels -> Classes]
        /\ started' \in [Tunnels -> BOOLEAN]
    BY <1>1, <1>2, <1>3 DEF IInv, TypeOK, Moved
  <2>4. list' \in [Classes -> Seq(Tunnels)]
    BY <1>3 DEF MovedTo, GoodLists
  <2> QED BY <1>1, <2>1, <2>2, <2>3, <2>4 DEF IInv, TypeOK
<1>5. (ListsSorted /\ LinkedWhileOpen)'
  BY <1>1, <1>3, <1>4, MoveStep
<1>6. FiledByBuffers'
  <2> SUFFICES ASSUME NEW u \in Tunnels, Open(u)'
               PROVE  /\ holding'[u] = "stalled" => filed'[u] = "stalled"
                      /\ lastActivity'[u] <= progressed'[u]
                      /\ u \notin finishing' => /\ filed'[u] = holding'[u]
                                                /\ moved'[u] <= lastActivity'[u]
    BY DEF FiledByBuffers
  <2>1. CASE u = t
    BY <1>1, <1>2, <1>3, <2>1 DEF IInv, TypeOK, FiledByBuffers, Moved
  <2>2. CASE u # t
    BY <1>1, <1>2, <1>3, <2>2 DEF IInv, TypeOK, FiledByBuffers, Moved, Open
  <2> QED BY <2>1, <2>2
<1>7. OrderSwept'
  BY <1>1 DEF OrderSwept
<1> QED BY <1>4, <1>5, <1>6, <1>7 DEF IInv

-----------------------------------------------------------------------------
LEMMA InitIInv == Init => IInv
<1> SUFFICES ASSUME Init PROVE IInv
  OBVIOUS
<1>1. TypeOK
  BY DEF Init, TypeOK, Classes
<1>2. ListsSorted
  BY DEF Init, ListsSorted
<1>3. LinkedWhileOpen
  BY DEF Init, LinkedWhileOpen, Open, ListOf
<1>4. FiledByBuffers /\ OrderSwept
  BY DEF Init, FiledByBuffers, OrderSwept, Open
<1> QED BY <1>1, <1>2, <1>3, <1>4 DEF IInv

\* Every tunnel of a sorted list is at least as recent as its front.
LEMMA FrontIsOldest ==
  ASSUME IInv, NEW c \in Classes, NEW t \in Tunnels, Open(t), filed[t] = c
  PROVE  list[c] # <<>> /\ lastActivity[Head(list[c])] <= lastActivity[t]
<1>1. GoodLists(list, lastActivity) /\ t \in ListOf(list[c])
  BY ListsAreGood DEF IInv, Filed
<1>2. list[c] \in Seq(Tunnels) /\ SortedBy(list[c], lastActivity)
  BY <1>1 DEF GoodLists
<1>3. PICK i \in DOMAIN list[c] : list[c][i] = t
  BY <1>1 DEF ListOf
<1>4. /\ list[c] # <<>> /\ 1 \in DOMAIN list[c] /\ Head(list[c]) = list[c][1]
      /\ i = 1 \/ 1 < i
  BY <1>2, <1>3
<1>5. lastActivity \in [Tunnels -> Int]
  BY DEF IInv, TypeOK
<1> QED BY <1>2, <1>3, <1>4, <1>5 DEF SortedBy

LEMMA NextIInv == IInv /\ [Next]_vars => IInv'
<1> SUFFICES ASSUME IInv, [Next]_vars PROVE IInv'
  OBVIOUS
<1>1. ASSUME NEW t \in Tunnels, Start(t) PROVE IInv'
  BY <1>1, ArrivalStep DEF Start
<1>2. ASSUME NEW t \in Tunnels, DataArrives(t) PROVE IInv'
  <2>1. started' = [started EXCEPT ![t] = TRUE]
    BY <1>2 DEF DataArrives, IInv, TypeOK
  <2> QED BY <1>2, <2>1, ArrivalStep DEF DataArrives
<1>3. ASSUME NEW t \in Tunnels, DataLeaves(t) PROVE IInv'
  BY <1>3, LeavingStep
<1>4. ASSUME NEW t \in Tunnels, Finish(t) PROVE IInv'
  <2>1. (ListsSorted /\ LinkedWhileOpen)'
    BY <1>4, ListsUntouched DEF Finish
  <2>2. TypeOK'
    BY <1>4 DEF Finish, IInv, TypeOK, histories
  <2>3. FiledByBuffers' /\ OrderSwept'
    BY <1>4 DEF Finish, IInv, FiledByBuffers, OrderSwept, Open, histories
  <2> QED BY <2>1, <2>2, <2>3 DEF IInv
<1>5. ASSUME NEW t \in Tunnels, DrainUnnoticed(t) PROVE IInv'
  <2>1. (ListsSorted /\ LinkedWhileOpen)'
    BY <1>5, ListsUntouched DEF DrainUnnoticed
  <2>2. TypeOK'
    <3>1. now \in 0 .. now /\ "order" \in Classes
      BY DEF IInv, TypeOK, Classes
    <3> QED BY <1>5, <3>1 DEF DrainUnnoticed, Moved, IInv, TypeOK
  <2>3. FiledByBuffers'
    BY <1>5 DEF DrainUnnoticed, Moved, IInv, TypeOK, FiledByBuffers, Open
  <2>4. OrderSwept'
    BY <1>5 DEF DrainUnnoticed, IInv, OrderSwept, Open
  <2> QED BY <2>1, <2>2, <2>3, <2>4 DEF IInv
<1>6. ASSUME NEW t \in Tunnels, LateCallback(t) PROVE IInv'
  <2>1. UNCHANGED <<now, started, closed, filed, lastActivity, list, sweep, finishing,
                    doomed, histories>>
    BY <1>6 DEF LateCallback, NoteActivityThenUpdate
  <2>2. (ListsSorted /\ LinkedWhileOpen)'
    BY <2>1, ListsUntouched
  <2>3. TypeOK' /\ FiledByBuffers' /\ OrderSwept'
    BY <2>1 DEF IInv, TypeOK, FiledByBuffers, OrderSwept, Open, histories
  <2> QED BY <2>2, <2>3 DEF IInv
<1>7. ASSUME NEW t \in Tunnels, CloseTunnel(t) PROVE IInv'
  <2>1. doomed' \in SUBSET Tunnels
    BY <1>7 DEF CloseTunnel, IInv, TypeOK
  <2> QED BY <1>7, <2>1, CloseStep DEF CloseTunnel
<1>8. ASSUME NEW c \in Connections, ConnectionCloses(c) PROVE IInv'
  <2>1. (ListsSorted /\ LinkedWhileOpen)'
    BY <1>8, ListsUntouched DEF ConnectionCloses
  <2>2. TypeOK' /\ FiledByBuffers' /\ OrderSwept'
    BY <1>8 DEF ConnectionCloses, IInv, TypeOK, FiledByBuffers, OrderSwept, Open, histories
  <2> QED BY <2>1, <2>2 DEF IInv
<1>9. CASE BeginSweep
  <2>1. (ListsSorted /\ LinkedWhileOpen)'
    BY <1>9, ListsUntouched DEF BeginSweep
  <2>2. TypeOK' /\ FiledByBuffers' /\ OrderSwept'
    BY <1>9 DEF BeginSweep, IInv, TypeOK, FiledByBuffers, OrderSwept, Open, histories
  <2> QED BY <2>1, <2>2 DEF IInv
<1>10. ASSUME NEW t \in Tunnels, CloseSnapshotEntry(t) PROVE IInv'
  <2>1. doomed' \in SUBSET Tunnels
    BY <1>10 DEF CloseSnapshotEntry, IInv, TypeOK
  <2> QED BY <1>10, <2>1, CloseStep DEF CloseSnapshotEntry
<1>11. ASSUME NEW s \in Classes, CloseFront(s) PROVE IInv'
  <2>1. Head(list[s]) \in Tunnels
    BY <1>11 DEF CloseFront, IInv, TypeOK
  <2>2. doomed' \in SUBSET Tunnels
    BY <1>11 DEF CloseFront, Siblings
  <2> QED BY <1>11, <2>1, <2>2, CloseStep DEF CloseFront
<1>12. ASSUME NEW s \in Classes, EndList(s) PROVE IInv'
  <2>1. (ListsSorted /\ LinkedWhileOpen)'
    BY <1>12, ListsUntouched DEF EndList
  <2>2. TypeOK' /\ FiledByBuffers'
    BY <1>12 DEF EndList, IInv, TypeOK, FiledByBuffers, Open, histories
  <2>3. OrderSwept'
    <3> SUFFICES ASSUME sweep' = "stalled", NEW t \in Tunnels, Open(t), filed[t] = "order"
                 PROVE  now - lastActivity[t] < Timeout
      BY <1>12 DEF EndList, OrderSwept, Open
    <3>1. s = "order"
      BY <1>12 DEF EndList
    <3>2. list[s] # <<>> /\ lastActivity[Head(list[s])] <= lastActivity[t]
      BY <3>1, FrontIsOldest
    <3>3. now - lastActivity[Head(list[s])] < Timeout
      BY <1>12, <3>1, <3>2 DEF EndList, TimeoutOf
    <3>4. lastActivity \in [Tunnels -> 0 .. now] /\ now \in Nat /\ list[s] \in Seq(Tunnels)
      BY DEF IInv, TypeOK
    <3>5. Head(list[s]) \in Tunnels
      BY <3>2, <3>4
    <3>6. /\ lastActivity[t] \in Int /\ lastActivity[Head(list[s])] \in Int
          /\ now \in Int /\ Timeout \in Int
      BY <3>4, <3>5, TrackerAssumption
    <3> QED BY <3>2, <3>3, <3>6
  <2> QED BY <2>1, <2>2, <2>3 DEF IInv
<1>13. CASE Tick
  <2>1. (ListsSorted /\ LinkedWhileOpen)'
    BY <1>13, ListsUntouched DEF Tick
  <2>2. now \in Nat /\ now' = now + 1
    BY <1>13 DEF Tick, IInv, TypeOK
  <2>3. 0 .. now \subseteq 0 .. now'
    BY <2>2
  <2>4. TypeOK'
    BY <1>13, <2>2, <2>3 DEF Tick, IInv, TypeOK, histories
  <2>5. FiledByBuffers' /\ OrderSwept'
    BY <1>13 DEF Tick, InMainLoop, IInv, FiledByBuffers, OrderSwept, Open, histories
  <2> QED BY <2>1, <2>4, <2>5 DEF IInv
<1>14. CASE UNCHANGED vars
  <2>1. (ListsSorted /\ LinkedWhileOpen)'
    BY <1>14, ListsUntouched DEF vars
  <2>2. TypeOK' /\ FiledByBuffers' /\ OrderSwept'
    BY <1>14 DEF vars, IInv, TypeOK, FiledByBuffers, OrderSwept, Open
  <2> QED BY <2>1, <2>2 DEF IInv
<1> QED BY <1>1, <1>2, <1>3, <1>4, <1>5, <1>6, <1>7, <1>8, <1>9, <1>10, <1>11,
           <1>12, <1>13, <1>14 DEF Next, Sweeping

-----------------------------------------------------------------------------
\* The inductive invariant holds for any tunnels, connections and timeouts.
THEOREM TrackerIInv == Spec => []IInv
BY InitIInv, NextIInv, PTL DEF Spec

\* The lists stay sorted, hold exactly the open tunnels, each once, and file
\* them by their buffers: what the sweep of CloseIdleTunnels() relies on.
THEOREM TrackerSafety == Spec => []TrackerInv
<1>1. IInv => TrackerInv
  BY DEF IInv, TrackerInv
<1> QED BY <1>1, TrackerIInv, PTL

\* CloseExpired() looks at fronts only and still misses no expired tunnel.
THEOREM NobodyMissed == Spec => SweepMissesNobody
<1>1. ASSUME IInv, [Next]_vars, sweep = "stalled", sweep' = "off",
             NEW t \in Tunnels, Open(t)
      PROVE  now - progressed[t] < TimeoutOf(holding[t])
  <2>1. EndList("stalled")
    BY <1>1 DEF Next, vars, Sweeping, Start, DataArrives, DataLeaves, Finish,
       DrainUnnoticed, LateCallback, CloseTunnel, ConnectionCloses, BeginSweep,
       CloseSnapshotEntry, CloseFront, EndList, Tick, InMainLoop, Classes
  <2>2. /\ lastActivity \in [Tunnels -> 0 .. now] /\ progressed \in [Tunnels -> 0 .. now]
        /\ filed[t] \in Classes /\ holding[t] \in Classes /\ now \in Nat
        /\ list["stalled"] \in Seq(Tunnels)
    BY <1>1 DEF IInv, TypeOK, Classes
  <2>3. /\ now \in Int /\ lastActivity[t] \in Int /\ progressed[t] \in Int
        /\ Timeout \in Int /\ StalledTimeout \in Int /\ StalledTimeout <= Timeout
    BY <2>2, TrackerAssumption
  <2>4. lastActivity[t] <= progressed[t] /\ (holding[t] = "stalled" => filed[t] = "stalled")
    BY <1>1 DEF IInv, FiledByBuffers
  <2>5. CASE filed[t] = "order"
    <3>1. now - lastActivity[t] < Timeout
      BY <1>1, <2>5 DEF IInv, OrderSwept
    <3>2. TimeoutOf(holding[t]) = Timeout
      BY <2>2, <2>4, <2>5 DEF TimeoutOf, Classes
    <3> QED BY <3>1, <3>2, <2>3, <2>4
  <2>6. CASE filed[t] = "stalled"
    <3>1. list["stalled"] # <<>>
          /\ lastActivity[Head(list["stalled"])] <= lastActivity[t]
      BY <1>1, <2>6, FrontIsOldest DEF Classes
    <3>2. now - lastActivity[Head(list["stalled"])] < StalledTimeout
      BY <2>1, <3>1 DEF EndList, TimeoutOf
    <3>3. lastActivity[Head(list["stalled"])] \in Int
      BY <2>2, <3>1
    <3>4. TimeoutOf(holding[t]) = StalledTimeout \/ TimeoutOf(holding[t]) = Timeout
      BY DEF TimeoutOf
    <3> QED BY <3>1, <3>2, <3>3, <3>4, <2>3, <2>4
  <2> QED BY <2>2, <2>5, <2>6 DEF Classes
<1>2. IInv /\ [Next]_vars =>
        [sweep = "stalled" /\ sweep' = "off" =>
           \A t \in Tunnels : Open(t) => now - progressed[t] < TimeoutOf(holding[t])]_vars
  BY <1>1
<1> QED BY <1>2, TrackerIInv, PTL DEF Spec, SweepMissesNobody

\* CloseExpired() reaps no tunnel whose data moved within its timeout.
THEOREM OnlyQuietReaped == Spec => SweepReapsOnlyQuiet
<1>1. ASSUME IInv, [Next]_vars, NEW t \in Tunnels, sweep # "off", ~closed[t],
             closed'[t], t \notin doomed \union finishing
      PROVE  now - moved[t] >= TimeoutOf(holding[t])
  <2>1. PICK s \in Classes : CloseFront(s)
    BY <1>1 DEF Next, vars, Sweeping, Start, DataArrives, DataLeaves, Finish,
       DrainUnnoticed, LateCallback, CloseTunnel, ConnectionCloses, BeginSweep,
       CloseSnapshotEntry, CloseFront, EndList, Tick, InMainLoop, Close, IInv, TypeOK
  <2>2. list[s] \in Seq(Tunnels) /\ list[s] # <<>>
    BY <1>1, <2>1 DEF CloseFront, IInv, TypeOK
  <2>3. t = Head(list[s])
    BY <1>1, <2>1, <2>2 DEF CloseFront, Close, IInv, TypeOK
  <2>4. t \in ListOf(list[s])
    BY <2>2, <2>3 DEF ListOf
  <2>5. Open(t) /\ filed[t] = s
    BY <1>1, <2>4 DEF IInv, LinkedWhileOpen
  <2>6. holding[t] = s /\ moved[t] <= lastActivity[t]
    BY <1>1, <2>5 DEF IInv, FiledByBuffers
  <2>7. now - lastActivity[t] >= TimeoutOf(s)
    BY <2>1, <2>3 DEF CloseFront
  <2>8. /\ lastActivity[t] \in Int /\ moved[t] \in Int /\ now \in Int
        /\ TimeoutOf(s) \in Int
    BY <1>1, TrackerAssumption DEF IInv, TypeOK, TimeoutOf
  <2> QED BY <2>6, <2>7, <2>8
<1>2. IInv /\ [Next]_vars =>
        [\A t \in Tunnels :
           /\ sweep # "off" /\ ~closed[t] /\ closed'[t]
           /\ t \notin doomed \union finishing
           => now - moved[t] >= TimeoutOf(holding[t])]_vars
  BY <1>1
<1> QED BY <1>2, TrackerIInv, PTL DEF Spec, SweepReapsOnlyQuiet
=============================================================================
