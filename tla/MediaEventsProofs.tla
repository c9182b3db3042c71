------------------------- MODULE MediaEventsProofs -------------------------
(***************************************************************************)
(* Proofs about MediaEvents.                                               *)
(***************************************************************************)
EXTENDS MediaEvents, FiniteSetTheorems, WellFoundedInduction, TLAPS

-----------------------------------------------------------------------------
\* A non-empty set of naturals has a least element.
LEMMA Least ==
    ASSUME NEW T \in SUBSET Nat, T # {}
    PROVE  \E m \in T : \A n \in T : m <= n
<1> DEFINE R == OpToRel(<, Nat)
<1>1. IsWellFoundedOn(R, Nat)
  BY NatLessThanWellFounded, Zenon
<1>2. \A a, b \in Nat : a < b => <<a, b>> \in R
  BY DEF OpToRel
<1> HIDE DEF R
<1>3. PICK m \in T : \A n \in T : ~(<<n, m>> \in R)
  BY <1>1, WFMin, Zenon
<1>4. ASSUME NEW n \in T PROVE m <= n
  <2>1. n \in Nat /\ m \in Nat /\ ~(n < m)
    BY <1>2, <1>3
  <2> QED BY <2>1
<1> QED BY <1>4

\* A non-empty set of naturals with an upper bound has a greatest element.
LEMMA Greatest ==
    ASSUME NEW T \in SUBSET Nat, T # {}, NEW b \in Nat, \A n \in T : n <= b
    PROVE  \E m \in T : \A n \in T : n <= m
<1> DEFINE U == {u \in Nat : \A n \in T : n <= u}
<1>1. PICK m \in U : \A u \in U : m <= u
  <2>1. b \in U
    OBVIOUS
  <2>2. U \in SUBSET Nat /\ U # {}
    BY <2>1
  <2> HIDE DEF U
  <2> QED BY <2>2, Least
<1>2. m \in T
  <2> SUFFICES ASSUME m \notin T PROVE FALSE
    OBVIOUS
  <2>1. PICK x \in T : TRUE
    OBVIOUS
  <2>2. m \in Nat /\ m # 0 /\ m - 1 \in Nat
    BY <2>1
  <2>3. m - 1 \in U
    BY <2>2
  <2> QED BY <1>1, <2>2, <2>3
<1> QED BY <1>1, <1>2

-----------------------------------------------------------------------------
\* A library has finitely many items, and UpTo counts them.
LEMMA UpToType ==
    ASSUME NEW items, NEW i \in Int
    PROVE  /\ IsFiniteSet({j \in Present(items) : j <= i})
           /\ UpTo(items, i) \in Nat
           /\ UpTo(items, i) >= IdLess
<1>1. MaxId \in Nat /\ IdLess \in Nat
  BY MediaEventsAssumption
<1>2. IsFiniteSet(Ids)
  BY <1>1, FS_Interval DEF Ids
<1>3. {j \in Present(items) : j <= i} \subseteq Ids
  BY DEF Present
<1>4. IsFiniteSet({j \in Present(items) : j <= i})
  BY <1>2, <1>3, FS_Subset
<1>5. Cardinality({j \in Present(items) : j <= i}) \in Nat
  BY <1>4, FS_CardinalityType
<1> QED BY <1>1, <1>4, <1>5 DEF UpTo

\* Items up to a later id are no fewer, and more if that id is there.
LEMMA UpToGrows ==
    ASSUME NEW items, NEW i \in Int, NEW j \in Int, i <= j
    PROVE  /\ UpTo(items, i) <= UpTo(items, j)
           /\ i < j /\ j \in Present(items) => UpTo(items, i) < UpTo(items, j)
<1> DEFINE A == {n \in Present(items) : n <= i}
           B == {n \in Present(items) : n <= j}
<1>0. IdLess \in Nat
  BY MediaEventsAssumption
<1>a. \A n \in Present(items) : n \in Int
  BY MediaEventsAssumption DEF Present, Ids
<1>1. IsFiniteSet(A) /\ IsFiniteSet(B)
  BY UpToType
<1>2. A \subseteq B
  BY <1>a
<1>3. Cardinality(A) <= Cardinality(B) /\ Cardinality(A) \in Nat /\ Cardinality(B) \in Nat
      /\ (Cardinality(A) = Cardinality(B) => A = B)
  BY <1>1, <1>2, FS_Subset, FS_CardinalityType
<1>4. UpTo(items, i) = IdLess + Cardinality(A) /\ UpTo(items, j) = IdLess + Cardinality(B)
  BY DEF UpTo
<1>5. i < j /\ j \in Present(items) => A # B
  <2> SUFFICES ASSUME i < j, j \in Present(items) PROVE j \in B /\ j \notin A
    OBVIOUS
  <2> QED OBVIOUS
<1> HIDE DEF A, B
<1> QED BY <1>0, <1>3, <1>4, <1>5

\* A page holds the next items behind the cursor and no others; a next cursor is
\* the last of them, and without one nothing is left behind the page.
LEMMA SlicePageExact ==
    ASSUME NEW items, NEW cursor \in Ids \cup {NoCursor}, NEW limit \in Nat
    PROVE  LET p == slice_page(items, cursor, limit)
           IN  /\ p.page \subseteq Present(items)
               /\ p.next \in p.page \cup {NoId}
               /\ \A i \in p.page : cursor < i
               /\ p.next # NoId =>
                    /\ \A i \in p.page : i <= p.next
                    /\ \A i \in Present(items) : cursor < i /\ i <= p.next => i \in p.page
               /\ p.next = NoId => \A i \in Present(items) : cursor < i => i \in p.page
<1> DEFINE p == slice_page(items, cursor, limit)
           start == IF cursor = NoCursor THEN 0 ELSE UpTo(items, cursor)
           total == UpTo(items, MaxId)
           end == IF start + limit < total THEN start + limit ELSE total
           page == {i \in Present(items) : start < UpTo(items, i) /\ UpTo(items, i) <= end}
           rest == {i \in Present(items) : end < UpTo(items, i)}
<1>1. p = IF end = total THEN [page |-> page, next |-> NoId]
          ELSE IF page # {} THEN [page |-> page, next |-> Max(page)]
          ELSE IF rest = {} THEN [page |-> page, next |-> NoId]
          ELSE [page |-> {Min(rest)}, next |-> Min(rest)]
  BY DEF slice_page
<1>2. /\ MaxId \in Nat /\ IdLess \in Nat /\ Present(items) \subseteq Ids
      /\ \A i \in Ids : i \in Nat \ {0} /\ i \in Int /\ i <= MaxId
      /\ NoId \notin Ids /\ NoCursor = -1
  BY MediaEventsAssumption DEF Present, Ids, NoId, NoCursor
<1>3. ASSUME NEW i \in Present(items)
      PROVE  UpTo(items, i) \in Nat /\ UpTo(items, i) > IdLess /\ UpTo(items, i) <= total
  <2>1. i \in Int /\ 0 \in Int /\ 0 < i /\ i <= MaxId /\ MaxId \in Int
    BY <1>2
  <2>2. /\ UpTo(items, 0) \in Nat /\ UpTo(items, 0) >= IdLess
        /\ UpTo(items, i) \in Nat /\ UpTo(items, MaxId) \in Nat
    BY <2>1, UpToType
  <2>3. UpTo(items, 0) < UpTo(items, i)
    <3>1. 0 <= i
      BY <2>1
    <3> QED BY <2>1, <3>1, UpToGrows
  <2>4. UpTo(items, i) <= UpTo(items, MaxId)
    BY <2>1, UpToGrows
  <2> QED BY <1>2, <2>2, <2>3, <2>4
<1>4. total \in Nat /\ start \in Nat /\ start <= total /\ end \in Nat /\ start <= end /\ end <= total
  <2>1. total \in Nat
    BY <1>2, UpToType, SMTT(40)
  <2>2. start \in Nat /\ start <= total
    <3>1. CASE cursor = NoCursor
      BY <3>1, <2>1
    <3>2. CASE cursor # NoCursor
      <4>1. cursor \in Int /\ MaxId \in Int /\ cursor <= MaxId
        BY <3>2, <1>2
      <4> QED BY <3>2, <4>1, UpToGrows, UpToType
    <3> QED BY <3>1, <3>2
  <2> HIDE DEF total, start
  <2> QED BY <2>1, <2>2
<1>5. ASSUME NEW i \in Present(items)
      PROVE  start < UpTo(items, i) <=> cursor < i
  <2>1. CASE cursor = NoCursor
    <3>1. start = 0 /\ UpTo(items, i) \in Nat /\ UpTo(items, i) > IdLess /\ IdLess \in Nat
      BY <2>1, <1>2, <1>3
    <3>2. i \in Nat /\ cursor = -1
      BY <2>1, <1>2
    <3> HIDE DEF start
    <3> QED BY <3>1, <3>2
  <2>2. CASE cursor # NoCursor
    <3>1. cursor \in Int /\ i \in Int /\ start = UpTo(items, cursor) /\ UpTo(items, i) \in Nat
          /\ start \in Nat
      BY <2>2, <1>2, <1>3, <1>4
    <3>2. cursor < i => UpTo(items, cursor) < UpTo(items, i)
      BY <3>1, UpToGrows
    <3>3. i <= cursor => UpTo(items, i) <= UpTo(items, cursor)
      BY <3>1, UpToGrows
    <3> HIDE DEF start
    <3> QED BY <3>1, <3>2, <3>3
  <2> QED BY <2>1, <2>2
<1>6. \A i \in Present(items) : /\ i \in Nat \ {0} /\ i <= MaxId
                                /\ UpTo(items, i) \in Nat /\ UpTo(items, i) <= total
                                /\ (start < UpTo(items, i) <=> cursor < i)
  BY <1>2, <1>3, <1>5
<1>7. \A i, j \in Present(items) : i <= j => UpTo(items, i) <= UpTo(items, j)
  <2> SUFFICES ASSUME NEW i \in Present(items), NEW j \in Present(items), i <= j
               PROVE  UpTo(items, i) <= UpTo(items, j)
    OBVIOUS
  <2>1. i \in Int /\ j \in Int
    BY <1>2
  <2> QED BY <2>1, UpToGrows
<1>8. \A i \in page : i \in Present(items) /\ start < UpTo(items, i) /\ UpTo(items, i) <= end
  OBVIOUS
<1>9. \A i \in Present(items) : start < UpTo(items, i) /\ UpTo(items, i) <= end => i \in page
  OBVIOUS
<1>10. \A i \in rest : i \in Present(items) /\ end < UpTo(items, i)
  OBVIOUS
<1>11. \A i \in Present(items) : end < UpTo(items, i) => i \in rest
  OBVIOUS
<1>12. cursor \in Int
  BY <1>2
<1> HIDE DEF start, total, end, page, rest, p
<1> DEFINE Exact ==
       /\ p.page \subseteq Present(items)
       /\ p.next \in p.page \cup {NoId}
       /\ \A i \in p.page : cursor < i
       /\ p.next # NoId =>
            /\ \A i \in p.page : i <= p.next
            /\ \A i \in Present(items) : cursor < i /\ i <= p.next => i \in p.page
       /\ p.next = NoId => \A i \in Present(items) : cursor < i => i \in p.page
<1>13. ASSUME end = total \/ (page = {} /\ rest = {}) PROVE Exact
  <2>1. p = [page |-> page, next |-> NoId]
    BY <1>1, <1>13
  <2>2. ASSUME NEW i \in Present(items), cursor < i PROVE i \in page
    <3>1. start < UpTo(items, i) /\ UpTo(items, i) \in Nat
      BY <2>2, <1>6
    <3>2. UpTo(items, i) <= end
      BY <3>1, <1>13, <1>4, <1>6, <1>11
    <3> QED BY <3>1, <3>2, <1>9
  <2> QED BY <2>1, <2>2, <1>8, <1>6
<1>14. ASSUME end # total /\ page # {} PROVE Exact
  <2>1. p = [page |-> page, next |-> Max(page)]
    BY <1>1, <1>14
  <2>2. page \in SUBSET Nat /\ \A i \in page : i <= MaxId
    BY <1>6, <1>8
  <2>3. PICK m \in page : \A i \in page : i <= m
    BY <2>2, <1>14, <1>2, Greatest
  <2>4. Max(page) \in page /\ \A i \in page : i <= Max(page)
    <3>1. \A i \in page : m >= i
      BY <2>2, <2>3
    <3>2. Max(page) \in page /\ \A i \in page : Max(page) >= i
      BY <3>1 DEF Max
    <3> QED BY <3>2, <2>2
  <2>5. Max(page) # NoId
    BY <2>4, <1>8, <1>2
  <2>6. ASSUME NEW i \in Present(items), cursor < i, i <= Max(page) PROVE i \in page
    <3>1. start < UpTo(items, i) /\ UpTo(items, i) \in Nat
      BY <2>6, <1>6
    <3>2. UpTo(items, i) <= UpTo(items, Max(page)) /\ UpTo(items, Max(page)) <= end
          /\ UpTo(items, Max(page)) \in Nat
      BY <2>6, <2>4, <1>6, <1>7, <1>8
    <3>3. UpTo(items, i) <= end
      BY <3>1, <3>2, <1>4
    <3> QED BY <3>1, <3>3, <1>9
  <2> QED BY <2>1, <2>4, <2>5, <2>6, <1>8, <1>6
<1>15. ASSUME end # total /\ page = {} /\ rest # {} PROVE Exact
  <2>1. p = [page |-> {Min(rest)}, next |-> Min(rest)]
    BY <1>1, <1>15
  <2>2. rest \in SUBSET Nat
    BY <1>6, <1>10
  <2>3. PICK m \in rest : \A i \in rest : m <= i
    BY <2>2, <1>15, Least
  <2>4. Min(rest) \in rest /\ \A i \in rest : Min(rest) <= i
    BY <2>3 DEF Min
  <2>5. Min(rest) # NoId /\ Min(rest) \in Present(items) /\ Min(rest) \in Nat
    BY <2>4, <1>10, <1>2, <2>2
  <2>6. cursor < Min(rest)
    <3>1. end < UpTo(items, Min(rest)) /\ UpTo(items, Min(rest)) \in Nat
      BY <2>4, <2>5, <1>6, <1>10
    <3>2. start < UpTo(items, Min(rest))
      BY <3>1, <1>4
    <3> QED BY <3>2, <2>5, <1>6
  <2>7. ASSUME NEW i \in Present(items), cursor < i, i <= Min(rest) PROVE i = Min(rest)
    <3>1. start < UpTo(items, i) /\ UpTo(items, i) \in Nat /\ i \in Nat
      BY <2>7, <1>6
    <3>2. ~(UpTo(items, i) <= end)
      BY <3>1, <1>9, <1>15
    <3>3. end < UpTo(items, i)
      BY <3>1, <3>2, <1>4
    <3>4. Min(rest) <= i
      BY <3>3, <1>11, <2>4
    <3> QED BY <3>1, <3>4, <2>7, <2>5
  <2>8. Min(rest) <= Min(rest)
    BY <2>5
  <2> QED BY <2>1, <2>5, <2>6, <2>7, <2>8
<1>16. Exact
  BY <1>13, <1>14, <1>15
<1> QED BY <1>16 DEF p

-----------------------------------------------------------------------------
(***************************************************************************)
(* The inductive invariant.                                                *)
(***************************************************************************)
Change(e, k) == e.kind = "MediaLibraryChanged" /\ e.lib = k

Library == [items : [Ids -> 0..(MaxPushes + 1)], ver : 0..MaxPushes]

Event == {NoEvent, OtherEvent, Warning, [kind |-> "Unknown"]}
            \cup [kind : {"MediaLibraryChanged"}, lib : Kinds, ver : 0..MaxPushes,
                  added : SUBSET (Ids \X Nat), updated : SUBSET (Ids \X Nat),
                  deleted : SUBSET Ids]

Walk == [pc : {"page", "fetch", "insert", "done", "failed"}, kind : Kinds, limit : 1..MaxLimit,
         cursor : Ids \cup {NoCursor, NoId}, got : SUBSET Ids, twice : BOOLEAN,
         always : SUBSET Ids, after : Nat, epoch : Nat, lib : Entry]

Walking(r) == reader[r].pc \in {"page", "fetch", "insert"}

\* Every value is of its type; the bridge holds an event only while it handles
\* one, and a reader's epoch is one the session has had.
Typed ==
    /\ phone \in [Kinds -> Library]
    /\ pushes \in 0..MaxPushes
    /\ bus \in Seq(Event) /\ Len(bus) <= BusCapacity /\ missed \in Nat
    /\ hub \in Seq(Event) /\ Len(hub) <= HubCapacity /\ skipped \in Nat
    /\ bridge \in [pc : {"recv", "clear", "publish", "ended"}, event : Event]
    /\ bridge.pc \in {"recv", "ended"} => bridge.event = NoEvent
    /\ bridge.pc = "clear" => bridge.event.kind = "MediaLibraryChanged"
    /\ cache \in [Kinds -> Entry]
    /\ epoch \in Nat
    /\ reader \in [Readers -> {[pc |-> "new"]} \cup Walk]
    /\ \A r \in Readers :
        /\ Walking(r) => reader[r].cursor # NoId
        /\ reader[r].pc = "insert" => reader[r].lib # NoEntry
        /\ reader[r].pc # "new" => reader[r].epoch <= epoch
    /\ sub \in {"live", "closed"}
    /\ seen \in [Kinds -> 0..MaxPushes]
    /\ warned \in BOOLEAN /\ hub_open \in BOOLEAN
    /\ session \in {"open", "removed", "bump", "clear", "closed"}

\* No event, and nothing the subscriber was told, is ahead of the phone.
Versions ==
    \A k \in Kinds :
        /\ phone[k].ver <= pushes
        /\ seen[k] <= phone[k].ver
        /\ \A n \in DOMAIN bus : Change(bus[n], k) => bus[n].ver <= phone[k].ver
        /\ \A n \in DOMAIN hub : Change(hub[n], k) => hub[n].ver <= phone[k].ver
        /\ Change(bridge.event, k) => bridge.event.ver <= phone[k].ver

\* All that was published of library k is within version v.
Published(k, v) ==
    /\ seen[k] <= v
    /\ \A n \in DOMAIN hub : Change(hub[n], k) => hub[n].ver <= v

\* The answer a reader is about to insert into the cache.
Inserting(r) == reader[r].pc = "insert" /\ may_insert(r)

\* The cache, and any answer that may still enter it, are as new as what was
\* published, and as what the bridge is going to publish without another clear.
Fresh ==
    /\ \A k \in Kinds :
        cache[k] # NoEntry
            => /\ Published(k, cache[k].ver)
               /\ bridge.pc = "publish" /\ Change(bridge.event, k)
                    => bridge.event.ver <= cache[k].ver
    /\ \A r \in Readers :
        Inserting(r)
            => /\ Published(reader[r].kind, reader[r].lib.ver)
               /\ Change(bridge.event, reader[r].kind)
                    => bridge.event.ver <= reader[r].lib.ver

\* A page is on its way to showing what its reader had been told of.
Noticed ==
    \A r \in Readers :
        /\ reader[r].pc = "fetch" => reader[r].after <= phone[reader[r].kind].ver
        /\ reader[r].pc = "insert" => reader[r].after <= reader[r].lib.ver
        /\ reader[r].pc \in {"page", "done"} /\ reader[r].lib # NoEntry
            => reader[r].after <= reader[r].lib.ver

\* Something was missed or not understood.
Unsure ==
    \/ missed > 0 \/ warned \/ bridge.event.kind = "Unknown"
    \/ \E n \in DOMAIN bus : bus[n].kind = "Unknown"

\* An outdated answer that may still be cached has its change on the bus.
Late ==
    /\ StaleIsTransient
    /\ \A r \in Readers :
        Inserting(r) /\ reader[r].lib.ver < phone[reader[r].kind].ver
            => Events(bus, reader[r].kind) \/ Unsure

\* Once a closing session has bumped the epoch, no fetch can insert any more.
Closing ==
    /\ session \in {"clear", "closed"}
        => \A r \in Readers : reader[r].pc \in {"fetch", "insert"} => ~may_insert(r)
    /\ NothingCachedAfterClose

\* A walk has returned, once each, the lasting items up to its cursor.
Walked ==
    \A r \in Readers :
        /\ Walking(r) => /\ \A i \in reader[r].got : i <= reader[r].cursor
                         /\ \A i \in reader[r].always : i <= reader[r].cursor => i \in reader[r].got
                         /\ ~reader[r].twice
        /\ reader[r].pc = "done" => reader[r].always \subseteq reader[r].got /\ ~reader[r].twice

IInv == Typed /\ Versions /\ Fresh /\ Noticed /\ Late /\ Closing /\ Walked

-----------------------------------------------------------------------------
(***************************************************************************)
(* What the channels, the decoder and a page do to the state.              *)
(***************************************************************************)
\* A broadcast channel ends in the event that was sent, and loses none of the
\* others unless it counts a loss.
LEMMA BusAfterFacts ==
    ASSUME NEW S, NEW q \in Seq(S), NEW cap \in Nat \ {0}, Len(q) <= cap, NEW e \in S
    PROVE  LET z == BusAfter(q, cap, e)
               d == DropsOne(q, cap)
           IN  /\ z \in Seq(S) /\ Len(z) <= cap
               /\ Len(z) \in DOMAIN z /\ z[Len(z)] = e
               /\ \A n \in DOMAIN z : z[n] = e \/ \E m \in DOMAIN q : z[n] = q[m]
               /\ d \in {0, 1}
               /\ d = 0 => \A m \in DOMAIN q : m \in DOMAIN z /\ z[m] = q[m]
<1> DEFINE z == BusAfter(q, cap, e)
           d == DropsOne(q, cap)
<1>1. Len(q) \in Nat /\ DOMAIN q = 1..Len(q)
  OBVIOUS
<1>2. CASE Len(q) < cap
  BY <1>1, <1>2 DEF BusAfter, DropsOne
<1>3. CASE ~(Len(q) < cap)
  <2> DEFINE t == Tail(q)
  <2>1. q # <<>> /\ Len(q) = cap
    <3>1. Len(q) = cap
      <4> DEFINE n == Len(q)
      <4>1. n \in Nat /\ cap \in Nat /\ n <= cap /\ ~(n < cap)
        BY <1>1, <1>3
      <4> HIDE DEF n
      <4>2. n = cap
        BY <4>1
      <4> QED BY <4>2 DEF n
    <3>2. Len(q) # 0
      BY <3>1
    <3> QED BY <3>1, <3>2
  <2>2. t \in Seq(S) /\ Len(t) = Len(q) - 1 /\ \A n \in 1..Len(t) : t[n] = q[n + 1]
    BY <2>1
  <2>3. z = Append(t, e) /\ d = 1
    BY <1>3 DEF BusAfter, DropsOne
  <2> HIDE DEF t, z, d
  <2>4. z \in Seq(S) /\ Len(z) = Len(q) /\ z[Len(z)] = e /\ DOMAIN z = 1..Len(q)
        /\ \A n \in 1..Len(t) : z[n] = t[n]
    BY <2>1, <2>2, <2>3
  <2>5. ASSUME NEW n \in DOMAIN z PROVE z[n] = e \/ \E m \in DOMAIN q : z[n] = q[m]
    <3>1. n = Len(z) \/ n \in 1..Len(t)
      BY <2>2, <2>4, <1>1
    <3>2. n \in 1..Len(t) => z[n] = q[n + 1] /\ n + 1 \in DOMAIN q
      BY <2>2, <2>4, <1>1
    <3> QED BY <3>1, <3>2, <2>4
  <2>6. /\ z \in Seq(S) /\ Len(z) <= cap
        /\ Len(z) \in DOMAIN z /\ z[Len(z)] = e
        /\ \A n \in DOMAIN z : z[n] = e \/ \E m \in DOMAIN q : z[n] = q[m]
        /\ d = 1
    BY <2>1, <2>3, <2>4, <2>5, <1>1
  <2>7. d \in {0, 1} /\ (d = 0 => \A m \in DOMAIN q : m \in DOMAIN z /\ z[m] = q[m])
    BY <2>6
  <2> QED BY <2>6, <2>7 DEF z, d
<1> QED BY <1>2, <1>3

\* Taking the oldest event leaves the others.
LEMMA TailFacts ==
    ASSUME NEW S, NEW q \in Seq(S), q # <<>>, NEW z, z = Tail(q)
    PROVE  /\ z \in Seq(S) /\ Len(z) <= Len(q)
           /\ 1 \in DOMAIN q /\ Head(q) = q[1] /\ Head(q) \in S
           /\ \A n \in DOMAIN z : n + 1 \in DOMAIN q /\ z[n] = q[n + 1]
           /\ \A m \in DOMAIN q : m = 1 \/ (m - 1 \in DOMAIN z /\ z[m - 1] = q[m])
<1>1. Len(q) \in Nat \ {0} /\ DOMAIN q = 1..Len(q)
  OBVIOUS
<1>2. z \in Seq(S) /\ Len(z) = Len(q) - 1 /\ \A n \in 1..Len(z) : z[n] = q[n + 1]
  OBVIOUS
<1>3. DOMAIN z = 1..Len(z)
  BY <1>2
<1> QED BY <1>1, <1>2, <1>3

\* publish sends to the hub or does nothing.
LEMMA PublishFacts ==
    ASSUME Typed, NEW e \in Event, publish(e)
    PROVE  /\ hub' \in Seq(Event) /\ Len(hub') <= HubCapacity /\ skipped' \in Nat
           /\ \A n \in DOMAIN hub' : hub'[n] = e \/ \E m \in DOMAIN hub : hub'[n] = hub[m]
<1>1. HubCapacity \in Nat \ {0}
  BY MediaEventsAssumption
<1>2. hub \in Seq(Event) /\ Len(hub) <= HubCapacity /\ skipped \in Nat
  BY DEF Typed
<1>3. CASE hub_open
  <2> DEFINE d == DropsOne(hub, HubCapacity)
  <2>1. hub' = BusAfter(hub, HubCapacity, e) /\ skipped' = skipped + d
    BY <1>3 DEF publish
  <2>2. /\ hub' \in Seq(Event) /\ Len(hub') <= HubCapacity
        /\ \A n \in DOMAIN hub' : hub'[n] = e \/ \E m \in DOMAIN hub : hub'[n] = hub[m]
        /\ d \in {0, 1}
    BY <1>1, <1>2, <2>1, BusAfterFacts
  <2> HIDE DEF d
  <2> QED BY <1>2, <2>1, <2>2
<1>4. CASE ~hub_open
  BY <1>2, <1>4 DEF publish
<1> QED BY <1>3, <1>4

\* A push ends up on the bus, and loses no other event silently.
LEMMA PushFacts ==
    ASSUME Typed, NEW e \in Event, Push(e)
    PROVE  /\ bus' \in Seq(Event) /\ Len(bus') <= BusCapacity /\ missed' \in Nat
           /\ \E n \in DOMAIN bus' : bus'[n] = e
           /\ \A n \in DOMAIN bus' : bus'[n] = e \/ \E m \in DOMAIN bus : bus'[n] = bus[m]
           /\ missed > 0 => missed' > 0
           /\ \/ missed' > 0
              \/ \A m \in DOMAIN bus : m \in DOMAIN bus' /\ bus'[m] = bus[m]
<1>1. BusCapacity \in Nat \ {0}
  BY MediaEventsAssumption
<1>2. bus \in Seq(Event) /\ Len(bus) <= BusCapacity /\ missed \in Nat
  BY DEF Typed
<1> DEFINE d == DropsOne(bus, BusCapacity)
<1>3. bus' = BusAfter(bus, BusCapacity, e) /\ missed' = missed + d
  BY DEF Push
<1>4. /\ bus' \in Seq(Event) /\ Len(bus') <= BusCapacity
      /\ Len(bus') \in DOMAIN bus' /\ bus'[Len(bus')] = e
      /\ d \in {0, 1}
  BY <1>1, <1>2, <1>3, BusAfterFacts
<1>a. \A n \in DOMAIN bus' : bus'[n] = e \/ \E m \in DOMAIN bus : bus'[n] = bus[m]
  BY <1>1, <1>2, <1>3, BusAfterFacts
<1>b. d = 0 => \A m \in DOMAIN bus : m \in DOMAIN bus' /\ bus'[m] = bus[m]
  <2> SUFFICES ASSUME d = 0, NEW m \in DOMAIN bus PROVE m \in DOMAIN bus' /\ bus'[m] = bus[m]
    OBVIOUS
  <2> QED BY <1>1, <1>2, <1>3, BusAfterFacts
<1> HIDE DEF d
<1>5. missed' \in Nat /\ (missed > 0 => missed' > 0) /\ (d = 1 => missed' > 0)
  BY <1>2, <1>3, <1>4
<1> QED BY <1>4, <1>a, <1>b, <1>5

\* A change of library k decodes to a change of k, or is not understood.
LEMMA DecodeFacts ==
    ASSUME NEW k \in Kinds, NEW v \in 0..MaxPushes,
           NEW added \in SUBSET (Ids \X Nat), NEW updated \in SUBSET (Ids \X Nat),
           NEW deleted \in SUBSET Ids, NEW typed, NEW candidates
    PROVE  LET w == [type |-> k, added |-> added, updated |-> updated, deleted |-> deleted,
                     ver |-> v]
               e == decode_event(w, typed, candidates)
           IN  /\ e \in Event
               /\ e.kind = "Unknown" \/ (Change(e, k) /\ e.ver = v)
               /\ \A j \in Kinds : Change(e, j) => j = k
<1> DEFINE w == [type |-> k, added |-> added, updated |-> updated, deleted |-> deleted, ver |-> v]
           e == decode_event(w, typed, candidates)
<1>1. k \in {"Photo", "Video", "Audio"}
  BY MediaEventsAssumption
<1>2. \E a \in SUBSET (Ids \X Nat), u \in SUBSET (Ids \X Nat), d \in SUBSET Ids :
        decoded(w) = MediaChange(k, a, u, d, v)
  <2>1. CASE k = "Photo"
    <3>1. decoded(w) = MediaChange(k, added, {}, deleted, v)
      BY <2>1 DEF decoded, photo_change
    <3> QED BY <3>1
  <2>2. CASE k = "Video"
    <3>1. decoded(w) = MediaChange(k, added, updated, deleted, v)
      BY <2>2 DEF decoded, video_change
    <3> QED BY <3>1
  <2>3. CASE k = "Audio"
    <3>1. decoded(w) = MediaChange(k, added, {}, {}, v)
      BY <2>3 DEF decoded, audio_change
    <3> QED BY <3>1
  <2> QED BY <1>1, <2>1, <2>2, <2>3
<1>3. PICK a \in SUBSET (Ids \X Nat), u \in SUBSET (Ids \X Nat), d \in SUBSET Ids :
        decoded(w) = MediaChange(k, a, u, d, v)
  BY <1>2
<1>4. e = [kind |-> "Unknown"] \/ e = MediaChange(k, a, u, d, v)
  BY <1>3 DEF decode_event, infer_event
<1>5. CASE e = [kind |-> "Unknown"]
  BY <1>5 DEF Event, Change
<1>6. CASE e = MediaChange(k, a, u, d, v)
  <2>1. e = [kind |-> "MediaLibraryChanged", lib |-> k, ver |-> v, added |-> a, updated |-> u,
             deleted |-> d]
    BY <1>6 DEF MediaChange
  <2> QED BY <2>1 DEF Event, Change
<1> QED BY <1>4, <1>5, <1>6

\* A library change is a push of its event and a new version of that library.
LEMMA LibraryFacts ==
    ASSUME Typed, Versions, NEW k \in Kinds, NEW i \in Ids, NEW typed, NEW candidates,
           LibraryChanges(k, i, typed, candidates)
    PROVE  \E e \in Event, items \in [Ids -> 0..(MaxPushes + 1)] :
                /\ Push(e)
                /\ phone[k].ver + 1 \in 0..MaxPushes
                /\ phone' = [phone EXCEPT ![k] = [items |-> items, ver |-> phone[k].ver + 1]]
                /\ e.kind = "Unknown" \/ (Change(e, k) /\ e.ver = phone[k].ver + 1)
                /\ \A j \in Kinds : Change(e, j) => j = k
<1> DEFINE v == phone[k].ver + 1
           wire(added, updated, deleted) ==
             [type |-> k, added |-> added, updated |-> updated, deleted |-> deleted, ver |-> v]
           becomes(version, w) ==
             /\ phone' = [phone EXCEPT ![k] = [items |-> [@.items EXCEPT ![i] = version], ver |-> v]]
             /\ Push(decode_event(w, typed, candidates))
<1>1. \/ becomes(v + 1, wire({<<i, v + 1>>}, {}, {}))
      \/ becomes(Absent, wire({}, {}, {i}))
      \/ becomes(v + 1, wire({}, {<<i, v + 1>>}, {}))
  BY DEF LibraryChanges
<1>2. pushes < MaxPushes /\ pushes \in Nat /\ MaxPushes \in Nat
  BY <1>1, MediaEventsAssumption DEF Push, Typed
<1>3. phone[k].ver \in Nat /\ phone[k].ver <= pushes /\ phone[k].items \in [Ids -> 0..(MaxPushes + 1)]
  BY DEF Typed, Versions, Library
<1>4. v \in 0..MaxPushes /\ v + 1 \in 0..(MaxPushes + 1) /\ v + 1 \in Nat
      /\ Absent \in 0..(MaxPushes + 1)
  BY <1>2, <1>3 DEF Absent
<1> HIDE DEF v
<1>5. ASSUME NEW version \in 0..(MaxPushes + 1),
             NEW added \in SUBSET (Ids \X Nat), NEW updated \in SUBSET (Ids \X Nat),
             NEW deleted \in SUBSET Ids, becomes(version, wire(added, updated, deleted))
      PROVE  \E e \in Event, items \in [Ids -> 0..(MaxPushes + 1)] :
                /\ Push(e)
                /\ phone' = [phone EXCEPT ![k] = [items |-> items, ver |-> v]]
                /\ e.kind = "Unknown" \/ (Change(e, k) /\ e.ver = v)
                /\ \A j \in Kinds : Change(e, j) => j = k
  <2> DEFINE e == decode_event(wire(added, updated, deleted), typed, candidates)
             items == [phone[k].items EXCEPT ![i] = version]
  <2>1. /\ e \in Event
        /\ e.kind = "Unknown" \/ (Change(e, k) /\ e.ver = v)
        /\ \A j \in Kinds : Change(e, j) => j = k
    BY <1>4, DecodeFacts, SMTT(40)
  <2>2. items \in [Ids -> 0..(MaxPushes + 1)]
    BY <1>3
  <2>3. Push(e) /\ phone' = [phone EXCEPT ![k] = [items |-> items, ver |-> v]]
    BY <1>5
  <2> HIDE DEF e, items
  <2> QED BY <2>1, <2>2, <2>3
<1>6. {<<i, v + 1>>} \in SUBSET (Ids \X Nat) /\ {} \in SUBSET (Ids \X Nat)
      /\ {i} \in SUBSET Ids /\ {} \in SUBSET Ids
  BY <1>4
<1>7. \E e \in Event, items \in [Ids -> 0..(MaxPushes + 1)] :
                /\ Push(e)
                /\ phone' = [phone EXCEPT ![k] = [items |-> items, ver |-> v]]
                /\ e.kind = "Unknown" \/ (Change(e, k) /\ e.ver = v)
                /\ \A j \in Kinds : Change(e, j) => j = k
  <2> HIDE DEF becomes, wire
  <2> QED BY <1>1, <1>4, <1>5, <1>6
<1> QED BY <1>4, <1>7 DEF v

\* A served page extends the walk by the lasting items up to the new cursor.
LEMMA ServedFacts ==
    ASSUME Typed, Walked, NEW r \in Readers, Walking(r), NEW l \in Library, NEW after \in Nat,
           reader' = Served(r, l, after)
    PROVE  /\ reader' \in [Readers -> {[pc |-> "new"]} \cup Walk]
           /\ \A q \in Readers \ {r} : reader'[q] = reader[q]
           /\ reader'[r].pc \in {"page", "done"}
           /\ reader'[r].pc = "page" => reader'[r].cursor # NoId
           /\ reader'[r].after = after /\ reader'[r].lib = l
           /\ reader'[r].epoch = reader[r].epoch /\ reader'[r].kind = reader[r].kind
           /\ reader'[r].pc = "page" =>
                /\ \A i \in reader'[r].got : i <= reader'[r].cursor
                /\ \A i \in reader'[r].always : i <= reader'[r].cursor => i \in reader'[r].got
           /\ reader'[r].pc = "done" => reader'[r].always \subseteq reader'[r].got
           /\ ~reader'[r].twice
<1> DEFINE c == reader[r].cursor
           p == slice_page(l.items, c, reader[r].limit)
           new == reader'[r]
<1>1. reader[r] \in Walk /\ reader \in [Readers -> {[pc |-> "new"]} \cup Walk]
  BY DEF Typed, Walking
<1>2. c \in Ids \cup {NoCursor} /\ reader[r].limit \in Nat
  <2>1. c \in Ids \cup {NoCursor, NoId} /\ reader[r].limit \in 1..MaxLimit
    BY <1>1 DEF Walk
  <2>2. c # NoId /\ MaxLimit \in Nat
    BY MediaEventsAssumption DEF Typed
  <2> HIDE DEF c
  <2> QED BY <2>1, <2>2
<1>3. /\ p.page \subseteq Present(l.items)
      /\ p.next \in p.page \cup {NoId}
      /\ \A i \in p.page : c < i
      /\ p.next # NoId => /\ \A i \in p.page : i <= p.next
                          /\ \A i \in Present(l.items) : c < i /\ i <= p.next => i \in p.page
      /\ p.next = NoId => \A i \in Present(l.items) : c < i => i \in p.page
  BY <1>2, SlicePageExact, ZenonT(60)
<1>4. l \in Entry
  BY Zenon DEF Library, Entry
<1>5. /\ reader' = [reader EXCEPT ![r] = new]
      /\ new = [reader[r] EXCEPT !.pc = IF p.next = NoId THEN "done" ELSE "page",
                                 !.cursor = p.next,
                                 !.got = @ \cup p.page,
                                 !.twice = @ \/ p.page \cap reader[r].got # {},
                                 !.always = @ \cap Present(l.items),
                                 !.after = after,
                                 !.lib = l]
  <2> DEFINE f == [reader[r] EXCEPT !.pc = IF p.next = NoId THEN "done" ELSE "page",
                                    !.cursor = p.next,
                                    !.got = @ \cup p.page,
                                    !.twice = @ \/ p.page \cap reader[r].got # {},
                                    !.always = @ \cap Present(l.items),
                                    !.after = after,
                                    !.lib = l]
  <2>1. reader' = [reader EXCEPT ![r] = f]
    BY ZenonT(120) DEF Served
  <2> HIDE DEF f
  <2>2. new = f
    BY <1>1, <2>1
  <2> QED BY <2>1, <2>2, Zenon DEF f
<1>6. /\ \A i \in reader[r].got : i <= c
      /\ \A i \in reader[r].always : i <= c => i \in reader[r].got
      /\ ~reader[r].twice
  BY DEF Walked
<1>7. Present(l.items) \subseteq Ids /\ NoId \notin Ids /\ (\A i \in Ids : i \in Nat) /\ c \in Int
  BY <1>2, MediaEventsAssumption DEF Present, Ids, NoId, NoCursor
<1>8. reader[r].got \subseteq Ids /\ reader[r].always \subseteq Ids
  BY <1>1 DEF Walk
<1> HIDE DEF p, c, new
<1>9. /\ new.pc = IF p.next = NoId THEN "done" ELSE "page"
      /\ new.cursor = p.next /\ new.got = reader[r].got \cup p.page
      /\ new.twice = (reader[r].twice \/ p.page \cap reader[r].got # {})
      /\ new.always = reader[r].always \cap Present(l.items)
      /\ new.after = after /\ new.lib = l /\ new.epoch = reader[r].epoch
      /\ new.kind = reader[r].kind /\ new.limit = reader[r].limit
  BY <1>1, <1>5 DEF Walk
<1>10. p.page \cap reader[r].got = {}
  BY <1>3, <1>6, <1>7, <1>8
<1>11. ~new.twice
  BY <1>6, <1>9, <1>10
<1>12. p.next \in Ids \cup {NoCursor, NoId} /\ p.page \subseteq Ids
  BY <1>3, <1>7
<1>13. new \in Walk
  <2>1. new \in [pc : {"page", "fetch", "insert", "done", "failed"}, kind : Kinds,
                 limit : 1..MaxLimit, cursor : Ids \cup {NoCursor, NoId}, got : SUBSET Ids,
                 twice : BOOLEAN, always : SUBSET Ids, after : Nat, epoch : Nat, lib : Entry]
    BY <1>1, <1>4, <1>5, <1>8, <1>12, ZenonT(120) DEF Walk
  <2> QED BY <2>1 DEF Walk
<1>14. reader' \in [Readers -> {[pc |-> "new"]} \cup Walk]
  BY <1>1, <1>5, <1>13
<1>15. \A q \in Readers \ {r} : reader'[q] = reader[q]
  BY <1>1, <1>5
<1>16. new.pc = "page" =>
                /\ new.cursor # NoId
                /\ \A i \in new.got : i <= new.cursor
                /\ \A i \in new.always : i <= new.cursor => i \in new.got
  <2> SUFFICES ASSUME p.next # NoId
               PROVE  /\ \A i \in new.got : i <= p.next
                      /\ \A i \in new.always : i <= p.next => i \in new.got
    BY <1>9
  <2>1. p.next \in p.page /\ c < p.next /\ p.next \in Nat
    BY <1>3, <1>7
  <2>2. ASSUME NEW i \in new.got PROVE i <= p.next
    <3>1. i \in p.page \/ (i \in reader[r].got /\ i <= c /\ i \in Nat)
      BY <1>6, <1>7, <1>8, <1>9
    <3> QED BY <3>1, <2>1, <1>3, <1>7
  <2>3. ASSUME NEW i \in new.always, i <= p.next PROVE i \in new.got
    <3>1. i \in reader[r].always /\ i \in Present(l.items) /\ i \in Nat
      BY <1>7, <1>9
    <3>2. i <= c \/ c < i
      BY <3>1, <1>7
    <3> QED BY <3>1, <3>2, <2>3, <1>3, <1>6, <1>9
  <2> QED BY <2>2, <2>3
<1>17. new.pc = "done" => new.always \subseteq new.got
  <2> SUFFICES ASSUME p.next = NoId, NEW i \in new.always PROVE i \in new.got
    BY <1>9
  <2>1. i \in reader[r].always /\ i \in Present(l.items) /\ i \in Nat
    BY <1>7, <1>9
  <2>2. i <= c \/ c < i
    BY <2>1, <1>7
  <2> QED BY <2>1, <2>2, <1>3, <1>6, <1>9
<1>18. new.pc \in {"page", "done"}
  BY <1>9
<1> QED BY <1>9, <1>11, <1>14, <1>15, <1>16, <1>17, <1>18 DEF new

\* A reader's step that is not a served page changes that reader only.
LEMMA ReaderFacts ==
    ASSUME Typed, NEW r \in Readers
    PROVE  /\ \A k \in Kinds, limit \in Limits : WalkBegins(r, k, limit) =>
                     /\ reader' \in [Readers -> {[pc |-> "new"]} \cup Walk]
                     /\ \A q \in Readers \ {r} : reader'[q] = reader[q]
                     /\ reader'[r].pc = "page" /\ reader'[r].kind = k
                     /\ reader'[r].cursor = NoCursor /\ reader'[r].got = {}
                     /\ reader'[r].always = Ids /\ ~reader'[r].twice
                     /\ reader'[r].epoch = 0 /\ reader'[r].lib = NoEntry
           /\ PageMiss(r) \/ PhoneAnswers(r) \/ FetchFails(r) =>
                     /\ reader' \in [Readers -> {[pc |-> "new"]} \cup Walk]
                     /\ \A q \in Readers \ {r} : reader'[q] = reader[q]
                     /\ reader'[r].kind = reader[r].kind
                     /\ reader'[r].cursor = reader[r].cursor /\ reader'[r].got = reader[r].got
                     /\ reader'[r].always = reader[r].always /\ reader'[r].twice = reader[r].twice
                     /\ Walking(r)
           /\ PageMiss(r) =>
                     /\ reader'[r].pc = IF session = "open" THEN "fetch" ELSE "failed"
                     /\ reader'[r].epoch = epoch /\ reader'[r].after = seen[reader[r].kind]
           /\ PhoneAnswers(r) =>
                     /\ reader[r].pc = "fetch" /\ reader'[r].pc = "insert"
                     /\ reader'[r].lib = phone[reader[r].kind]
                     /\ reader'[r].epoch = reader[r].epoch /\ reader'[r].after = reader[r].after
           /\ FetchFails(r) => reader'[r].pc = "failed" /\ reader'[r].epoch = reader[r].epoch
<1>1. reader \in [Readers -> {[pc |-> "new"]} \cup Walk]
  BY DEF Typed
<1>2. ASSUME NEW k \in Kinds, NEW limit \in Limits, WalkBegins(r, k, limit)
      PROVE  /\ reader' \in [Readers -> {[pc |-> "new"]} \cup Walk]
             /\ \A q \in Readers \ {r} : reader'[q] = reader[q]
             /\ reader'[r].pc = "page" /\ reader'[r].kind = k
             /\ reader'[r].cursor = NoCursor /\ reader'[r].got = {}
             /\ reader'[r].always = Ids /\ ~reader'[r].twice
             /\ reader'[r].epoch = 0 /\ reader'[r].lib = NoEntry
  <2> DEFINE new == [pc |-> "page", kind |-> k, limit |-> limit, cursor |-> NoCursor, got |-> {},
                     twice |-> FALSE, always |-> Ids, after |-> 0, epoch |-> 0, lib |-> NoEntry]
  <2>1. limit \in 1..MaxLimit /\ reader' = [reader EXCEPT ![r] = new]
    BY <1>2 DEF WalkBegins, validate_page_limit
  <2>2. new \in Walk
    BY <2>1 DEF Walk, Entry
  <2>3. /\ new.pc = "page" /\ new.kind = k /\ new.cursor = NoCursor /\ new.got = {}
        /\ new.always = Ids /\ ~new.twice /\ new.epoch = 0 /\ new.lib = NoEntry
    OBVIOUS
  <2> HIDE DEF new
  <2> QED BY <1>1, <2>1, <2>2, <2>3
<1>3. ASSUME PageMiss(r)
      PROVE  LET new == [reader[r] EXCEPT !.pc = IF session = "open" THEN "fetch" ELSE "failed",
                                          !.epoch = epoch, !.after = seen[reader[r].kind]]
             IN  reader' = [reader EXCEPT ![r] = new] /\ new \in Walk /\ reader[r] \in Walk
  <2>1. reader[r] \in Walk
    BY <1>1, <1>3 DEF PageMiss
  <2>2. epoch \in Nat /\ seen[reader[r].kind] \in Nat
    <3>1. reader[r].kind \in Kinds
      BY <2>1 DEF Walk
    <3>2. seen[reader[r].kind] \in 0..MaxPushes /\ MaxPushes \in Nat /\ epoch \in Nat
      BY <3>1, MediaEventsAssumption DEF Typed
    <3> QED BY <3>2
  <2> QED BY <2>1, <2>2, <1>1, <1>3 DEF PageMiss, Walk
<1>4. ASSUME PhoneAnswers(r)
      PROVE  LET new == [reader[r] EXCEPT !.pc = "insert", !.lib = phone[reader[r].kind]]
             IN  reader' = [reader EXCEPT ![r] = new] /\ new \in Walk /\ reader[r] \in Walk
  <2>1. reader[r] \in Walk
    BY <1>1, <1>4 DEF PhoneAnswers
  <2>2. phone[reader[r].kind] \in Entry
    BY <2>1 DEF Typed, Walk, Library, Entry
  <2> QED BY <2>1, <2>2, <1>1, <1>4 DEF PhoneAnswers, Walk
<1>5. ASSUME FetchFails(r)
      PROVE  LET new == [reader[r] EXCEPT !.pc = "failed"]
             IN  reader' = [reader EXCEPT ![r] = new] /\ new \in Walk /\ reader[r] \in Walk
  <2>1. reader[r] \in Walk
    BY <1>1, <1>5 DEF FetchFails
  <2> QED BY <2>1, <1>1, <1>5 DEF FetchFails, Walk
<1>6. PageMiss(r) \/ PhoneAnswers(r) \/ FetchFails(r) =>
        /\ reader' \in [Readers -> {[pc |-> "new"]} \cup Walk]
        /\ \A q \in Readers \ {r} : reader'[q] = reader[q]
        /\ Walking(r)
  BY <1>1, <1>3, <1>4, <1>5 DEF Walking, PageMiss, PhoneAnswers, FetchFails
<1>7. PageMiss(r) =>
        /\ reader'[r].kind = reader[r].kind
        /\ reader'[r].cursor = reader[r].cursor /\ reader'[r].got = reader[r].got
        /\ reader'[r].always = reader[r].always /\ reader'[r].twice = reader[r].twice
        /\ reader'[r].pc = IF session = "open" THEN "fetch" ELSE "failed"
        /\ reader'[r].epoch = epoch /\ reader'[r].after = seen[reader[r].kind]
  <2> SUFFICES ASSUME PageMiss(r)
               PROVE  LET new == reader'[r]
                      IN  /\ new.kind = reader[r].kind
                          /\ new.cursor = reader[r].cursor /\ new.got = reader[r].got
                          /\ new.always = reader[r].always /\ new.twice = reader[r].twice
                          /\ new.pc = IF session = "open" THEN "fetch" ELSE "failed"
                          /\ new.epoch = epoch /\ new.after = seen[reader[r].kind]
    OBVIOUS
  <2> DEFINE pc == IF session = "open" THEN "fetch" ELSE "failed"
             after == seen[reader[r].kind]
  <2>1. reader'[r] = [reader[r] EXCEPT !.pc = pc, !.epoch = epoch, !.after = after]
        /\ reader[r] \in Walk
    BY <1>1, <1>3
  <2> HIDE DEF pc, after
  <2>2. LET new == reader'[r]
        IN  /\ new.kind = reader[r].kind
            /\ new.cursor = reader[r].cursor /\ new.got = reader[r].got
            /\ new.always = reader[r].always /\ new.twice = reader[r].twice
            /\ new.pc = pc /\ new.epoch = epoch /\ new.after = after
    BY <2>1 DEF Walk
  <2> QED BY <2>2 DEF pc, after
<1>8. PhoneAnswers(r) =>
        /\ reader'[r].kind = reader[r].kind
        /\ reader'[r].cursor = reader[r].cursor /\ reader'[r].got = reader[r].got
        /\ reader'[r].always = reader[r].always /\ reader'[r].twice = reader[r].twice
        /\ reader[r].pc = "fetch" /\ reader'[r].pc = "insert"
        /\ reader'[r].lib = phone[reader[r].kind]
        /\ reader'[r].epoch = reader[r].epoch /\ reader'[r].after = reader[r].after
  BY <1>1, <1>4 DEF Walk, PhoneAnswers
<1>9. FetchFails(r) =>
        /\ reader'[r].kind = reader[r].kind
        /\ reader'[r].cursor = reader[r].cursor /\ reader'[r].got = reader[r].got
        /\ reader'[r].always = reader[r].always /\ reader'[r].twice = reader[r].twice
        /\ reader'[r].pc = "failed" /\ reader'[r].epoch = reader[r].epoch
  BY <1>1, <1>5 DEF Walk
<1> QED BY <1>2, <1>6, <1>7, <1>8, <1>9

\* The entry a page is served from is a library.
LEMMA EntryFacts ==
    ASSUME Typed, NEW r \in Readers
    PROVE  /\ PageHit(r) => /\ cache[reader[r].kind] \in Library
                            /\ seen[reader[r].kind] \in Nat /\ reader[r].kind \in Kinds
                            /\ Walking(r)
           /\ PageInserts(r) => /\ reader[r].lib \in Library /\ reader[r].after \in Nat
                                /\ reader[r].kind \in Kinds /\ Walking(r)
<1>1. reader[r].pc # "new" => reader[r] \in Walk
  BY DEF Typed
<1>2. ASSUME PageHit(r)
      PROVE  /\ cache[reader[r].kind] \in Library
             /\ seen[reader[r].kind] \in Nat /\ reader[r].kind \in Kinds /\ Walking(r)
  <2>1. reader[r].kind \in Kinds /\ Walking(r)
    BY <1>1, <1>2 DEF PageHit, Walk, Walking
  <2>2. cache[reader[r].kind] \in Library
    BY <1>2, <2>1 DEF PageHit, Typed, Library, Entry
  <2>3. seen[reader[r].kind] \in 0..MaxPushes /\ MaxPushes \in Nat
    BY <2>1, MediaEventsAssumption DEF Typed
  <2>4. seen[reader[r].kind] \in Nat
    BY <2>3
  <2> QED BY <2>1, <2>2, <2>4
<1>3. ASSUME PageInserts(r)
      PROVE  reader[r].lib \in Library /\ reader[r].after \in Nat /\ reader[r].kind \in Kinds
             /\ Walking(r)
  BY <1>1, <1>3 DEF PageInserts, Typed, Walk, Walking, Library, Entry
<1> QED BY <1>2, <1>3

-----------------------------------------------------------------------------
\* Nothing in the initial state is cached, asked for or in flight.
LEMMA InitInv == Init => IInv
<1> SUFFICES ASSUME Init PROVE IInv
  OBVIOUS
<1>0. MaxPushes \in Nat /\ MaxId \in Nat /\ {BusCapacity, HubCapacity} \subseteq Nat \ {0}
  BY MediaEventsAssumption
<1>1. Typed
  <2>1. phone \in [Kinds -> Library]
    BY <1>0 DEF Init, Library, Absent, Ids
  <2>2. bus = <<>> /\ hub = <<>> /\ Len(bus) <= BusCapacity /\ Len(hub) <= HubCapacity
    BY <1>0 DEF Init
  <2>3. bus \in Seq(Event) /\ hub \in Seq(Event)
    BY <2>2
  <2>4. bridge \in [pc : {"recv", "clear", "publish", "ended"}, event : Event]
        /\ bridge.pc = "recv" /\ bridge.event = NoEvent
    BY DEF Init, Event
  <2>5. cache \in [Kinds -> Entry] /\ seen \in [Kinds -> 0..MaxPushes]
    BY <1>0 DEF Init, Entry
  <2>6. reader \in [Readers -> {[pc |-> "new"]} \cup Walk] /\ \A r \in Readers : reader[r].pc = "new"
    BY DEF Init
  <2>7. pushes \in 0..MaxPushes /\ missed \in Nat /\ skipped \in Nat /\ epoch \in Nat
    BY <1>0 DEF Init
  <2>8. sub \in {"live", "closed"} /\ warned \in BOOLEAN /\ hub_open \in BOOLEAN
        /\ session \in {"open", "removed", "bump", "clear", "closed"}
    BY DEF Init
  <2> QED BY <2>1, <2>2, <2>3, <2>4, <2>5, <2>6, <2>7, <2>8 DEF Typed, Walking
<1>2. /\ phone \in [Kinds -> Library] /\ (\A k \in Kinds : phone[k].ver = 0 /\ seen[k] = 0)
      /\ pushes = 0 /\ bus = <<>> /\ hub = <<>> /\ bridge.event = NoEvent
      /\ (\A k \in Kinds : cache[k] = NoEntry) /\ (\A r \in Readers : reader[r].pc = "new")
      /\ session = "open"
  BY <1>1 DEF Init, Typed
<1>3. Versions
  BY <1>2 DEF Versions, Change, NoEvent
<1>4. Fresh
  BY <1>2 DEF Fresh, Inserting
<1>5. Noticed
  BY <1>2 DEF Noticed
<1>6. Late
  BY <1>2 DEF Late, StaleIsTransient, Inserting
<1>7. Closing
  BY <1>2 DEF Closing, NothingCachedAfterClose
<1>8. Walked
  BY <1>2 DEF Walked, Walking
<1> QED BY <1>1, <1>3, <1>4, <1>5, <1>6, <1>7, <1>8 DEF IInv

-----------------------------------------------------------------------------
\* Every step keeps the types.
LEMMA StepTyped ==
    ASSUME IInv, Next
    PROVE  Typed'
<1>0. /\ Typed /\ Versions /\ Walked
      /\ MaxPushes \in Nat /\ {BusCapacity, HubCapacity} \subseteq Nat \ {0}
  BY MediaEventsAssumption DEF IInv
<1>1. ASSUME NEW k \in Kinds, NEW i \in Ids, NEW typed \in BOOLEAN, NEW candidates \in Candidates,
             LibraryChanges(k, i, typed, candidates)
      PROVE  Typed'
  <2>1. PICK e \in Event, items \in [Ids -> 0..(MaxPushes + 1)] :
                /\ Push(e)
                /\ phone[k].ver + 1 \in 0..MaxPushes
                /\ phone' = [phone EXCEPT ![k] = [items |-> items, ver |-> phone[k].ver + 1]]
    BY <1>0, <1>1, LibraryFacts
  <2>2. phone' \in [Kinds -> Library]
    BY <1>0, <2>1 DEF Typed, Library
  <2>3. bus' \in Seq(Event) /\ Len(bus') <= BusCapacity /\ missed' \in Nat
    BY <1>0, <2>1, PushFacts
  <2> QED BY <1>0, <2>1, <2>2, <2>3, SMTT(40) DEF Typed, Push, subscriber, Walking
<1>2. ASSUME OtherPush PROVE Typed'
  <2>1. OtherEvent \in Event /\ Push(OtherEvent)
    BY <1>2 DEF OtherPush, Event
  <2>2. bus' \in Seq(Event) /\ Len(bus') <= BusCapacity /\ missed' \in Nat
    BY <1>0, <2>1, PushFacts
  <2> QED BY <1>0, <1>2, <2>2 DEF Typed, OtherPush, Push, subscriber, Walking
<1>3. ASSUME BridgeLagged PROVE Typed'
  <2>1. Warning \in Event /\ publish(Warning)
    BY <1>3 DEF BridgeLagged, Event
  <2>2. hub' \in Seq(Event) /\ Len(hub') <= HubCapacity /\ skipped' \in Nat
    BY <1>0, <2>1, PublishFacts
  <2> QED BY <1>0, <1>3, <2>2 DEF Typed, BridgeLagged, Walking
<1>4. ASSUME BridgeReceives PROVE Typed'
  <2>1. bus' \in Seq(Event) /\ Len(bus') <= Len(bus) /\ Head(bus) \in Event
    BY <1>0, <1>4, TailFacts DEF Typed, BridgeReceives
  <2>2. Len(bus') <= BusCapacity
    BY <1>0, <2>1 DEF Typed
  <2>3. bridge' \in [pc : {"recv", "clear", "publish", "ended"}, event : Event]
        /\ bridge'.pc \in {"clear", "publish"}
        /\ (bridge'.pc = "clear" => bridge'.event.kind = "MediaLibraryChanged")
    BY <1>4, <2>1 DEF BridgeReceives
  <2>4. epoch' \in Nat /\ epoch <= epoch'
    BY <1>0, <1>4 DEF Typed, BridgeReceives
  <2>5. \A r \in Readers : reader[r].pc # "new" => reader[r].epoch <= epoch'
    <3> SUFFICES ASSUME NEW r \in Readers, reader[r].pc # "new" PROVE reader[r].epoch <= epoch'
      OBVIOUS
    <3>1. reader[r].epoch \in Nat /\ reader[r].epoch <= epoch /\ epoch \in Nat
      BY <1>0 DEF Typed, Walk
    <3> QED BY <3>1, <2>4
  <2> QED BY <1>0, <1>4, <2>1, <2>2, <2>3, <2>4, <2>5 DEF Typed, BridgeReceives, subscriber, Walking
<1>5. ASSUME BridgeClears PROVE Typed'
  <2>1. cache' \in [Kinds -> Entry]
    BY <1>5 DEF BridgeClears, Entry
  <2>2. bridge' \in [pc : {"recv", "clear", "publish", "ended"}, event : Event]
        /\ bridge'.pc = "publish"
    BY <1>0, <1>5 DEF BridgeClears, Typed
  <2> QED BY <1>0, <1>5, <2>1, <2>2 DEF Typed, BridgeClears, subscriber, Walking
<1>6. ASSUME BridgePublishes PROVE Typed'
  <2>1. bridge_client_event(bridge.event) \in Event
    BY <1>0 DEF Typed, bridge_client_event, Event
  <2>2. hub' \in Seq(Event) /\ Len(hub') <= HubCapacity /\ skipped' \in Nat
    BY <1>0, <1>6, <2>1, PublishFacts DEF BridgePublishes
  <2>3. bridge' \in [pc : {"recv", "clear", "publish", "ended"}, event : Event]
        /\ bridge'.pc = "recv" /\ bridge'.event = NoEvent
    BY <1>6 DEF BridgePublishes, Event
  <2> QED BY <1>0, <1>6, <2>2, <2>3 DEF Typed, BridgePublishes, Walking
<1>7. ASSUME BridgeEnds PROVE Typed'
  <2>1. bridge' \in [pc : {"recv", "clear", "publish", "ended"}, event : Event]
        /\ bridge'.pc = "ended" /\ bridge'.event = NoEvent
    BY <1>7 DEF BridgeEnds, Event
  <2> QED BY <1>0, <1>7, <2>1 DEF Typed, BridgeEnds, subscriber, Walking
<1>8. ASSUME SubLagged \/ SubClosed \/ SessionRemoved \/ ClientClosed \/ HubCloses PROVE Typed'
  <2>1. CASE SubLagged
    BY <1>0, <2>1 DEF Typed, SubLagged, buses, Walking
  <2>2. CASE SubClosed
    BY <1>0, <2>2 DEF Typed, SubClosed, buses, Walking
  <2>3. CASE SessionRemoved \/ ClientClosed
    BY <1>0, <2>3, SMTT(40) DEF Typed, SessionRemoved, ClientClosed, buses, subscriber, Walking
  <2>4. CASE HubCloses
    BY <1>0, <2>4 DEF Typed, HubCloses, buses, subscriber, Walking
  <2> QED BY <1>8, <2>1, <2>2, <2>3, <2>4
<1>9. ASSUME SubReceives PROVE Typed'
  <2>1. hub' \in Seq(Event) /\ Len(hub') <= Len(hub) /\ Head(hub) \in Event
    BY <1>0, <1>9, TailFacts DEF Typed, SubReceives
  <2>2. Len(hub') <= HubCapacity
    BY <1>0, <2>1 DEF Typed
  <2>3. Head(hub).kind = "MediaLibraryChanged"
          => Head(hub).lib \in Kinds /\ Head(hub).ver \in 0..MaxPushes
    BY <2>1 DEF Event, NoEvent, OtherEvent, Warning
  <2>4. seen' \in [Kinds -> 0..MaxPushes]
    BY <1>0, <1>9, <2>3 DEF Typed, SubReceives
  <2> QED BY <1>0, <1>9, <2>1, <2>2, <2>4 DEF Typed, SubReceives, buses, Walking
<1>10. ASSUME invalidate_bump PROVE Typed'
  <2>1. epoch' \in Nat /\ epoch <= epoch' /\ session' = "clear" /\ reader' = reader
    BY <1>0, <1>10 DEF Typed, invalidate_bump
  <2>2. \A r \in Readers : reader[r].pc # "new" => reader[r].epoch <= epoch'
    <3> SUFFICES ASSUME NEW r \in Readers, reader[r].pc # "new" PROVE reader[r].epoch <= epoch'
      OBVIOUS
    <3>1. reader[r].epoch \in Nat /\ reader[r].epoch <= epoch /\ epoch \in Nat
      BY <1>0 DEF Typed, Walk
    <3> QED BY <3>1, <2>1
  <2> QED BY <1>0, <1>10, <2>1, <2>2 DEF Typed, invalidate_bump, buses, subscriber, Walking
<1>11. ASSUME invalidate_clear PROVE Typed'
  <2>1. cache' \in [Kinds -> Entry]
    BY <1>11 DEF invalidate_clear, Entry
  <2> QED BY <1>0, <1>11, <2>1 DEF Typed, invalidate_clear, buses, subscriber, Walking
<1>12. ASSUME NEW r \in Readers, ReaderStep(r) PROVE Typed'
  <2>1. ASSUME /\ reader' \in [Readers -> {[pc |-> "new"]} \cup Walk]
               /\ \A q \in Readers \ {r} : reader'[q] = reader[q]
               /\ Walking(r)' => reader'[r].cursor # NoId
               /\ reader'[r].pc = "insert" => reader'[r].lib # NoEntry
               /\ reader'[r].pc # "new" => reader'[r].epoch <= epoch
               /\ cache' \in [Kinds -> Entry]
               /\ UNCHANGED <<phone, pushes, buses, epoch, subscriber, warned, session, hub_open>>
        PROVE  Typed'
    <3>1. \A q \in Readers :
            /\ Walking(q)' => reader'[q].cursor # NoId
            /\ reader'[q].pc = "insert" => reader'[q].lib # NoEntry
            /\ reader'[q].pc # "new" => reader'[q].epoch <= epoch
      <4> SUFFICES ASSUME NEW q \in Readers
                   PROVE  /\ Walking(q)' => reader'[q].cursor # NoId
                          /\ reader'[q].pc = "insert" => reader'[q].lib # NoEntry
                          /\ reader'[q].pc # "new" => reader'[q].epoch <= epoch
        OBVIOUS
      <4>1. CASE q = r
        BY <2>1, <4>1
      <4>2. CASE q # r
        BY <1>0, <2>1, <4>2 DEF Typed, Walking
      <4> QED BY <4>1, <4>2
    <3> QED BY <1>0, <2>1, <3>1 DEF Typed, buses, subscriber
  <2>2. ASSUME NEW k \in Kinds, NEW limit \in Limits, WalkBegins(r, k, limit) PROVE Typed'
    <3>1. /\ reader' \in [Readers -> {[pc |-> "new"]} \cup Walk]
          /\ \A q \in Readers \ {r} : reader'[q] = reader[q]
          /\ reader'[r].pc = "page" /\ reader'[r].cursor = NoCursor /\ reader'[r].epoch = 0
      BY <1>0, <2>2, ReaderFacts
    <3>2. NoCursor # NoId /\ 0 <= epoch
      BY <1>0 DEF Typed, NoCursor, NoId
    <3> QED BY <1>0, <2>1, <2>2, <3>1, <3>2 DEF WalkBegins, Typed
  <2>3. ASSUME PageMiss(r) \/ PhoneAnswers(r) \/ FetchFails(r) PROVE Typed'
    <3>1. /\ reader' \in [Readers -> {[pc |-> "new"]} \cup Walk]
          /\ \A q \in Readers \ {r} : reader'[q] = reader[q]
          /\ reader'[r].cursor = reader[r].cursor /\ Walking(r)
      BY <1>0, <2>3, ReaderFacts
    <3>2. reader'[r].pc = "insert" => reader'[r].lib # NoEntry
      <4>1. PhoneAnswers(r) => phone[reader[r].kind] # NoEntry
        <5>1. reader[r].kind \in Kinds
          BY <1>0, <3>1 DEF Typed, Walk, Walking
        <5> QED BY <1>0, <5>1 DEF Typed, Library, NoEntry
      <4> QED BY <1>0, <2>3, <4>1, ReaderFacts
    <3>3. reader'[r].epoch <= epoch
      <4>1. reader[r].epoch <= epoch /\ epoch \in Nat
        BY <1>0, <3>1 DEF Typed, Walking
      <4> QED BY <1>0, <2>3, <4>1, ReaderFacts
    <3>4. reader[r].cursor # NoId
      BY <1>0, <3>1, Zenon DEF Typed
    <3> QED BY <1>0, <2>1, <2>3, <3>1, <3>2, <3>3, <3>4
            DEF PageMiss, PhoneAnswers, FetchFails, Typed
  <2>4. ASSUME PageHit(r) PROVE Typed'
    <3> DEFINE l == cache[reader[r].kind]
               after == seen[reader[r].kind]
    <3>1. l \in Library /\ after \in Nat /\ Walking(r) /\ reader' = Served(r, l, after)
      <4>1. l \in Library /\ after \in Nat /\ Walking(r)
        BY <1>0, <2>4, EntryFacts
      <4> QED BY <2>4, <4>1, Zenon DEF PageHit
    <3> HIDE DEF l, after
    <3>2. /\ reader' \in [Readers -> {[pc |-> "new"]} \cup Walk]
          /\ \A q \in Readers \ {r} : reader'[q] = reader[q]
          /\ reader'[r].pc \in {"page", "done"}
          /\ reader'[r].pc = "page" => reader'[r].cursor # NoId
          /\ reader'[r].epoch = reader[r].epoch
      BY <1>0, <3>1, ServedFacts
    <3>3. reader[r].epoch <= epoch
      BY <1>0, <3>1 DEF Typed, Walking
    <3> QED BY <1>0, <2>1, <2>4, <3>2, <3>3, Zenon DEF PageHit, Typed, Walking
  <2>5. ASSUME PageInserts(r) PROVE Typed'
    <3> DEFINE l == reader[r].lib
               after == reader[r].after
    <3>1. l \in Library /\ after \in Nat /\ Walking(r) /\ reader' = Served(r, l, after)
      BY <1>0, <2>5, EntryFacts DEF PageInserts
    <3>2. cache' \in [Kinds -> Entry]
      <4>1. l \in Entry
        BY <3>1 DEF Library, Entry
      <4> QED BY <1>0, <2>5, <4>1 DEF Typed, PageInserts
    <3> HIDE DEF l, after
    <3>3. /\ reader' \in [Readers -> {[pc |-> "new"]} \cup Walk]
          /\ \A q \in Readers \ {r} : reader'[q] = reader[q]
          /\ reader'[r].pc \in {"page", "done"}
          /\ reader'[r].pc = "page" => reader'[r].cursor # NoId
          /\ reader'[r].epoch = reader[r].epoch
      BY <1>0, <3>1, ServedFacts
    <3>4. reader[r].epoch <= epoch
      BY <1>0, <3>1 DEF Typed, Walking
    <3> QED BY <1>0, <2>1, <2>5, <3>2, <3>3, <3>4 DEF PageInserts, Walking
  <2> QED BY <1>12, <2>2, <2>3, <2>4, <2>5 DEF ReaderStep
<1> QED BY <1>1, <1>2, <1>3, <1>4, <1>5, <1>6, <1>7, <1>8, <1>9, <1>10, <1>11, <1>12
        DEF Next, BridgeStep, SubStep, CloseStep

\* The steps that touch neither bus, hub, bridge, subscriber nor phone.
LEMMA QuietFacts ==
    ASSUME \/ \E r \in Readers : ReaderStep(r)
           \/ CloseStep \/ HubCloses \/ SubLagged \/ SubClosed
    PROVE  /\ UNCHANGED <<phone, pushes, bus, missed, bridge, hub, seen>>
           /\ warned => warned'
<1>1. ASSUME NEW r \in Readers, ReaderStep(r)
      PROVE  UNCHANGED <<phone, pushes, bus, missed, bridge, hub, seen, warned>>
  BY <1>1 DEF ReaderStep, WalkBegins, PageHit, PageMiss, PhoneAnswers, FetchFails, PageInserts,
              buses, subscriber
<1>2. ASSUME CloseStep
      PROVE  UNCHANGED <<phone, pushes, bus, missed, bridge, hub, seen, warned>>
  BY <1>2 DEF CloseStep, SessionRemoved, ClientClosed, invalidate_bump, invalidate_clear, buses,
              subscriber
<1>3. ASSUME HubCloses \/ SubLagged \/ SubClosed
      PROVE  UNCHANGED <<phone, pushes, bus, missed, bridge, hub, seen>> /\ (warned => warned')
  BY <1>3 DEF HubCloses, SubLagged, SubClosed, buses, subscriber
<1> QED BY <1>1, <1>2, <1>3, SMTT(40)

\* No step lets an event or a notice get ahead of the phone.
LEMMA StepVersions ==
    ASSUME IInv, Next
    PROVE  Versions'
<1>0. /\ Typed /\ Versions
      /\ MaxPushes \in Nat
  BY MediaEventsAssumption DEF IInv
<1>a. \A k \in Kinds : phone[k].ver \in Nat /\ seen[k] \in Nat /\ pushes \in Nat
  BY <1>0 DEF Typed, Library
<1>1. ASSUME NEW k \in Kinds, NEW i \in Ids, NEW typed \in BOOLEAN, NEW candidates \in Candidates,
             LibraryChanges(k, i, typed, candidates)
      PROVE  Versions'
  <2>1. PICK e \in Event, items \in [Ids -> 0..(MaxPushes + 1)] :
                /\ Push(e)
                /\ phone' = [phone EXCEPT ![k] = [items |-> items, ver |-> phone[k].ver + 1]]
                /\ e.kind = "Unknown" \/ (Change(e, k) /\ e.ver = phone[k].ver + 1)
                /\ \A j \in Kinds : Change(e, j) => j = k
    BY <1>0, <1>1, LibraryFacts
  <2>2. \A n \in DOMAIN bus' : bus'[n] = e \/ \E m \in DOMAIN bus : bus'[n] = bus[m]
    BY <1>0, <2>1, PushFacts
  <2>3. phone'[k].ver = phone[k].ver + 1 /\ \A j \in Kinds \ {k} : phone'[j] = phone[j]
    BY <1>0, <2>1 DEF Typed
  <2>4. pushes' = pushes + 1 /\ seen' = seen /\ hub' = hub /\ bridge' = bridge
    BY <2>1 DEF Push, subscriber
  <2>5. \A j \in Kinds : phone'[j].ver \in Nat /\ phone[j].ver <= phone'[j].ver
    BY <1>a, <2>3
  <2> SUFFICES ASSUME NEW j \in Kinds
               PROVE  /\ phone'[j].ver <= pushes'
                      /\ seen'[j] <= phone'[j].ver
                      /\ \A n \in DOMAIN bus' : Change(bus'[n], j) => bus'[n].ver <= phone'[j].ver
                      /\ \A n \in DOMAIN hub' : Change(hub'[n], j) => hub'[n].ver <= phone'[j].ver
                      /\ Change(bridge'.event, j) => bridge'.event.ver <= phone'[j].ver
    BY DEF Versions, Change
  <2>6. /\ phone[j].ver <= pushes /\ seen[j] <= phone[j].ver
        /\ \A n \in DOMAIN bus : Change(bus[n], j) => bus[n].ver <= phone[j].ver
        /\ \A n \in DOMAIN hub : Change(hub[n], j) => hub[n].ver <= phone[j].ver
        /\ Change(bridge.event, j) => bridge.event.ver <= phone[j].ver
    BY <1>0 DEF Versions
  <2>7. phone'[j].ver <= pushes' /\ seen'[j] <= phone'[j].ver
    BY <1>a, <2>3, <2>4, <2>5, <2>6
  <2>8. \A f \in Event : Change(f, j) /\ f.ver <= phone[j].ver => f.ver <= phone'[j].ver
    <3> SUFFICES ASSUME NEW f \in Event, Change(f, j), f.ver <= phone[j].ver
                 PROVE  f.ver <= phone'[j].ver
      OBVIOUS
    <3>1. f.ver \in Nat
      BY <1>0 DEF Event, Change, NoEvent, OtherEvent, Warning
    <3> QED BY <3>1, <1>a, <2>5
  <2>9. (\A n \in DOMAIN bus : bus[n] \in Event) /\ (\A n \in DOMAIN hub : hub[n] \in Event)
        /\ bridge.event \in Event
    BY <1>0 DEF Typed
  <2>10. Change(e, j) => e.ver <= phone'[j].ver
    BY <2>1, <2>3, <1>a DEF Change
  <2> QED BY <2>2, <2>4, <2>6, <2>7, <2>8, <2>9, <2>10
<1>2. ASSUME OtherPush PROVE Versions'
  <2>1. OtherEvent \in Event /\ Push(OtherEvent) /\ phone' = phone
    BY <1>2 DEF OtherPush, Event
  <2>2. \A n \in DOMAIN bus' : bus'[n] = OtherEvent \/ \E m \in DOMAIN bus : bus'[n] = bus[m]
    BY <1>0, <2>1, PushFacts
  <2>3. pushes' = pushes + 1 /\ seen' = seen /\ hub' = hub /\ bridge' = bridge
    BY <2>1 DEF Push, subscriber
  <2>4. \A k \in Kinds : phone[k].ver <= pushes'
    BY <1>0, <1>a, <2>3 DEF Versions
  <2> QED BY <1>0, <2>1, <2>2, <2>3, <2>4 DEF Versions, Change, OtherEvent
<1>3. ASSUME BridgeLagged PROVE Versions'
  <2>1. \A n \in DOMAIN hub' : hub'[n] = Warning \/ \E m \in DOMAIN hub : hub'[n] = hub[m]
    BY <1>0, <1>3, PublishFacts DEF BridgeLagged, Event
  <2>2. UNCHANGED <<phone, pushes, seen, bus, bridge>>
    BY <1>3 DEF BridgeLagged
  <2> QED BY <1>0, <2>1, <2>2 DEF Versions, Change, Warning
<1>4. ASSUME BridgeReceives PROVE Versions'
  <2>1. /\ 1 \in DOMAIN bus /\ Head(bus) = bus[1]
        /\ \A n \in DOMAIN bus' : n + 1 \in DOMAIN bus /\ bus'[n] = bus[n + 1]
    BY <1>0, <1>4, TailFacts DEF Typed, BridgeReceives
  <2>2. bridge'.event = bus[1]
    BY <1>4, <2>1 DEF BridgeReceives
  <2>3. UNCHANGED <<phone, pushes, seen, hub>>
    BY <1>4 DEF BridgeReceives, subscriber
  <2> QED BY <1>0, <2>1, <2>2, <2>3 DEF Versions, Change
<1>5. ASSUME BridgeClears PROVE Versions'
  <2>1. bridge'.event = bridge.event
    BY <1>0, <1>5 DEF BridgeClears, Typed
  <2>2. UNCHANGED <<phone, pushes, seen, bus, hub>>
    BY <1>5 DEF BridgeClears, subscriber
  <2> QED BY <1>0, <2>1, <2>2 DEF Versions, Change
<1>6. ASSUME BridgePublishes PROVE Versions'
  <2> DEFINE e == bridge_client_event(bridge.event)
  <2>1. e \in Event /\ \A k \in Kinds : Change(e, k) => e = bridge.event
    BY <1>0 DEF Typed, bridge_client_event, Event, Change, Warning
  <2>2. publish(e) /\ bridge'.event = NoEvent /\ UNCHANGED <<phone, pushes, seen, bus>>
    BY <1>6 DEF BridgePublishes
  <2> HIDE DEF e
  <2>3. \A n \in DOMAIN hub' : hub'[n] = e \/ \E m \in DOMAIN hub : hub'[n] = hub[m]
    BY <1>0, <2>1, <2>2, PublishFacts
  <2>4. ~\E k \in Kinds : Change(NoEvent, k)
    BY DEF Change, NoEvent
  <2>5. ASSUME NEW k \in Kinds, NEW n \in DOMAIN hub', Change(hub'[n], k)
        PROVE  hub'[n].ver <= phone[k].ver
    BY <1>0, <2>1, <2>3, <2>5 DEF Versions
  <2> QED BY <1>0, <2>2, <2>4, <2>5 DEF Versions, Change
<1>7. ASSUME BridgeEnds PROVE Versions'
  <2>1. bridge'.event = NoEvent /\ UNCHANGED <<phone, pushes, seen, bus, hub>>
    BY <1>7 DEF BridgeEnds, subscriber
  <2> QED BY <1>0, <2>1 DEF Versions, Change, NoEvent
<1>8. ASSUME SubReceives PROVE Versions'
  <2>1. /\ 1 \in DOMAIN hub /\ Head(hub) = hub[1]
        /\ \A n \in DOMAIN hub' : n + 1 \in DOMAIN hub /\ hub'[n] = hub[n + 1]
    BY <1>0, <1>8, TailFacts DEF Typed, SubReceives
  <2>2. UNCHANGED <<phone, pushes, bus, bridge>>
    BY <1>8 DEF SubReceives, buses
  <2>3. \A k \in Kinds : seen'[k] <= phone[k].ver
    <3> SUFFICES ASSUME NEW k \in Kinds PROVE seen'[k] <= phone[k].ver
      OBVIOUS
    <3>1. CASE Change(hub[1], k)
      <4>1. seen' = [seen EXCEPT ![k] = hub[1].ver]
        BY <1>8, <2>1, <3>1 DEF SubReceives, Change
      <4> QED BY <1>0, <2>1, <3>1, <4>1 DEF Versions, Typed
    <3>2. CASE ~Change(hub[1], k)
      <4>1. seen'[k] = seen[k]
        BY <1>0, <1>8, <2>1, <3>2 DEF SubReceives, Change, Typed
      <4> QED BY <1>0, <4>1 DEF Versions
    <3> QED BY <3>1, <3>2
  <2> QED BY <1>0, <2>1, <2>2, <2>3 DEF Versions, Change
<1>9. ASSUME UNCHANGED <<phone, pushes, bus, missed, bridge, hub, seen>> PROVE Versions'
  BY <1>0, <1>9 DEF Versions, Change
<1> QED BY <1>1, <1>2, <1>3, <1>4, <1>5, <1>6, <1>7, <1>8, <1>9, QuietFacts
        DEF Next, BridgeStep, SubStep

\* After an epoch bump no fetch of before may insert.
LEMMA BumpFacts ==
    ASSUME Typed, epoch' = epoch + 1, reader' = reader, NEW r \in Readers, reader[r].pc # "new"
    PROVE  ~may_insert(r)'
<1>1. reader[r].epoch \in Nat /\ reader[r].epoch <= epoch /\ epoch \in Nat
  BY DEF Typed, Walk
<1> QED BY <1>1 DEF may_insert

\* A reader's step either inserts an answer that may be cached, or leaves the
\* cache alone; only an answer of the phone makes a reader one that may insert.
LEMMA InsertFacts ==
    ASSUME Typed, Walked, NEW r \in Readers, ReaderStep(r)
    PROVE  /\ \/ cache' = cache
              \/ /\ Inserting(r) /\ reader[r].kind \in Kinds /\ reader[r].lib \in Library
                 /\ cache' = [cache EXCEPT ![reader[r].kind] = reader[r].lib]
           /\ epoch' = epoch
           /\ \A q \in Readers \ {r} : reader'[q] = reader[q]
           /\ Inserting(r)' => /\ PhoneAnswers(r) /\ reader[r].kind \in Kinds
                               /\ reader'[r].kind = reader[r].kind
                               /\ reader'[r].lib = phone[reader[r].kind]
<1>1. epoch' = epoch
  BY DEF ReaderStep, WalkBegins, PageHit, PageMiss, PhoneAnswers, FetchFails, PageInserts
<1>2. ASSUME NEW k \in Kinds, NEW limit \in Limits, WalkBegins(r, k, limit)
      PROVE  cache' = cache /\ ~Inserting(r)' /\ \A q \in Readers \ {r} : reader'[q] = reader[q]
  <2>1. reader'[r].pc = "page" /\ \A q \in Readers \ {r} : reader'[q] = reader[q]
    BY <1>2, ReaderFacts
  <2> QED BY <1>2, <2>1 DEF WalkBegins, Inserting
<1>3. ASSUME PageMiss(r) \/ FetchFails(r)
      PROVE  cache' = cache /\ ~Inserting(r)' /\ \A q \in Readers \ {r} : reader'[q] = reader[q]
  <2>1. reader'[r].pc # "insert" /\ \A q \in Readers \ {r} : reader'[q] = reader[q]
    BY <1>3, ReaderFacts
  <2> QED BY <1>3, <2>1 DEF PageMiss, FetchFails, Inserting
<1>4. ASSUME PhoneAnswers(r)
      PROVE  /\ cache' = cache /\ \A q \in Readers \ {r} : reader'[q] = reader[q]
             /\ reader[r].kind \in Kinds /\ reader'[r].kind = reader[r].kind
             /\ reader'[r].lib = phone[reader[r].kind]
  <2>1. reader[r].kind \in Kinds
    BY <1>4 DEF PhoneAnswers, Typed, Walk
  <2> QED BY <1>4, <2>1, ReaderFacts DEF PhoneAnswers
<1>5. ASSUME PageHit(r)
      PROVE  cache' = cache /\ ~Inserting(r)' /\ \A q \in Readers \ {r} : reader'[q] = reader[q]
  <2>1. /\ cache[reader[r].kind] \in Library /\ seen[reader[r].kind] \in Nat /\ Walking(r)
        /\ reader' = Served(r, cache[reader[r].kind], seen[reader[r].kind])
    <3>1. cache[reader[r].kind] \in Library /\ seen[reader[r].kind] \in Nat /\ Walking(r)
      BY <1>5, EntryFacts, SMTT(40)
    <3> QED BY <1>5, <3>1, Zenon DEF PageHit
  <2>2. reader'[r].pc \in {"page", "done"} /\ \A q \in Readers \ {r} : reader'[q] = reader[q]
    BY <2>1, ServedFacts, Zenon
  <2> QED BY <1>5, <2>2 DEF PageHit, Inserting
<1>6. ASSUME PageInserts(r)
      PROVE  /\ \/ cache' = cache
                \/ /\ Inserting(r) /\ reader[r].kind \in Kinds /\ reader[r].lib \in Library
                   /\ cache' = [cache EXCEPT ![reader[r].kind] = reader[r].lib]
             /\ ~Inserting(r)' /\ \A q \in Readers \ {r} : reader'[q] = reader[q]
  <2>1. /\ reader[r].lib \in Library /\ reader[r].after \in Nat /\ Walking(r)
        /\ reader[r].kind \in Kinds
        /\ reader' = Served(r, reader[r].lib, reader[r].after)
    BY <1>6, EntryFacts, SMTT(40) DEF PageInserts
  <2>2. reader'[r].pc \in {"page", "done"} /\ \A q \in Readers \ {r} : reader'[q] = reader[q]
    BY <2>1, ServedFacts
  <2>3. \/ cache' = cache
        \/ Inserting(r) /\ cache' = [cache EXCEPT ![reader[r].kind] = reader[r].lib]
    BY <1>6 DEF PageInserts, Inserting
  <2> QED BY <2>1, <2>2, <2>3 DEF Inserting
<1> QED BY <1>1, <1>2, <1>3, <1>4, <1>5, <1>6 DEF ReaderStep

\* No step publishes what the cache, or an answer on its way there, lacks.
LEMMA StepFresh ==
    ASSUME IInv, Next
    PROVE  Fresh'
<1>0. Typed /\ Versions /\ Fresh /\ Walked
  BY DEF IInv
<1>1. ASSUME UNCHANGED <<cache, epoch, reader, seen, hub, bridge>> PROVE Fresh'
  BY <1>0, <1>1 DEF Fresh, Inserting, may_insert, Published, Change
<1>2. ASSUME OtherPush \/ \E k \in Kinds, i \in Ids, typed \in BOOLEAN, candidates \in Candidates :
                                LibraryChanges(k, i, typed, candidates)
      PROVE  Fresh'
  <2>1. CASE OtherPush
    BY <1>1, <2>1 DEF OtherPush, Push, subscriber
  <2>2. ASSUME NEW k \in Kinds, NEW i \in Ids, NEW typed \in BOOLEAN, NEW candidates \in Candidates,
               LibraryChanges(k, i, typed, candidates)
        PROVE  Fresh'
    <3>1. PICK e \in Event : Push(e)
      BY <1>0, <2>2, LibraryFacts
    <3> QED BY <1>1, <3>1 DEF Push, subscriber
  <2> QED BY <1>2, <2>1, <2>2
<1>3. ASSUME BridgeLagged PROVE Fresh'
  <2>1. \A n \in DOMAIN hub' : hub'[n] = Warning \/ \E m \in DOMAIN hub : hub'[n] = hub[m]
    BY <1>0, <1>3, PublishFacts DEF BridgeLagged, Event
  <2>2. UNCHANGED <<cache, epoch, reader, seen, bridge>>
    BY <1>3 DEF BridgeLagged
  <2>3. \A v : \A k \in Kinds : Published(k, v) => Published(k, v)'
    BY <2>1, <2>2 DEF Published, Change, Warning
  <2> QED BY <1>0, <2>2, <2>3 DEF Fresh, Inserting, may_insert, Change, Typed, Walk
<1>4. ASSUME BridgeReceives PROVE Fresh'
  <2>1. UNCHANGED <<cache, reader, seen, hub>> /\ Head(bus) \in Event
    BY <1>0, <1>4, TailFacts DEF BridgeReceives, subscriber, Typed
  <2>2. CASE Head(bus).kind = "MediaLibraryChanged"
    <3>1. bridge'.pc = "clear" /\ epoch' = epoch + 1
      BY <1>4, <2>2 DEF BridgeReceives
    <3>2. \A r \in Readers : ~Inserting(r)'
      <4> SUFFICES ASSUME NEW r \in Readers, reader'[r].pc = "insert" PROVE ~may_insert(r)'
        BY DEF Inserting
      <4>1. reader[r].pc # "new"
        BY <2>1
      <4> QED BY <1>0, <2>1, <3>1, <4>1, BumpFacts
    <3> QED BY <1>0, <2>1, <3>1, <3>2 DEF Fresh, Published, Change
  <2>3. CASE Head(bus).kind # "MediaLibraryChanged"
    <3>1. bridge'.event = Head(bus) /\ epoch' = epoch
      BY <1>4, <2>3 DEF BridgeReceives
    <3>2. \A k : ~Change(bridge'.event, k)
      BY <2>3, <3>1 DEF Change
    <3>3. \A k, v : Published(k, v) => Published(k, v)'
      BY <2>1 DEF Published, Change
    <3>4. \A r : Inserting(r)' => Inserting(r)
      BY <2>1, <3>1 DEF Inserting, may_insert
    <3> QED BY <1>0, <2>1, <3>2, <3>3, <3>4 DEF Fresh, Change
  <2> QED BY <2>2, <2>3
<1>5. ASSUME BridgeClears PROVE Fresh'
  <2>1. \A k \in Kinds : cache'[k] = NoEntry
    BY <1>5 DEF BridgeClears
  <2>2. bridge'.event = bridge.event /\ UNCHANGED <<epoch, reader, seen, hub>>
    BY <1>0, <1>5 DEF BridgeClears, subscriber, Typed
  <2> QED BY <1>0, <2>1, <2>2 DEF Fresh, Inserting, may_insert, Published, Change
<1>6. ASSUME BridgePublishes PROVE Fresh'
  <2> DEFINE e == bridge_client_event(bridge.event)
  <2>1. e \in Event /\ \A k \in Kinds : Change(e, k) => e = bridge.event
    BY <1>0 DEF Typed, bridge_client_event, Event, Change, Warning
  <2>2. publish(e) /\ bridge'.event = NoEvent /\ bridge.pc = "publish"
        /\ UNCHANGED <<cache, epoch, reader, seen>>
    BY <1>6 DEF BridgePublishes
  <2> HIDE DEF e
  <2>3. \A n \in DOMAIN hub' : hub'[n] = e \/ \E m \in DOMAIN hub : hub'[n] = hub[m]
    BY <1>0, <2>1, <2>2, PublishFacts
  <2>4. ~\E k \in Kinds : Change(NoEvent, k)
    BY DEF Change, NoEvent
  <2>5. ASSUME NEW k \in Kinds, NEW v, Published(k, v),
               Change(bridge.event, k) => bridge.event.ver <= v
        PROVE  Published(k, v)'
    <3>1. seen'[k] <= v
      BY <2>2, <2>5 DEF Published
    <3>2. ASSUME NEW n \in DOMAIN hub', Change(hub'[n], k) PROVE hub'[n].ver <= v
      BY <2>1, <2>3, <2>5, <3>2 DEF Published
    <3> QED BY <3>1, <3>2 DEF Published, Change
  <2>6. ASSUME NEW k \in Kinds, cache[k] # NoEntry PROVE Published(k, cache[k].ver)'
    <3> DEFINE v == cache[k].ver
    <3>1. Published(k, v) /\ (Change(bridge.event, k) => bridge.event.ver <= v)
      BY <1>0, <2>2, <2>6 DEF Fresh
    <3> HIDE DEF v
    <3>2. v' = v
      BY <2>2 DEF v
    <3>3. Published(k, v)'
      BY <2>5, <3>1, <3>2 DEF Published
    <3> QED BY <3>3 DEF v
  <2>7. ASSUME NEW r \in Readers, Inserting(r)'
        PROVE  Published(reader[r].kind, reader[r].lib.ver)' /\ reader[r].kind \in Kinds
    <3> DEFINE k == reader[r].kind
               v == reader[r].lib.ver
    <3>1. Inserting(r) /\ k \in Kinds
      BY <1>0, <2>2, <2>7 DEF Inserting, may_insert, Typed, Walk
    <3>2. Published(k, v) /\ (Change(bridge.event, k) => bridge.event.ver <= v)
      BY <1>0, <3>1 DEF Fresh
    <3>3. k' = k /\ v' = v
      BY <2>2
    <3> HIDE DEF k, v
    <3>4. Published(k, v)'
      BY <2>5, <3>1, <3>2, <3>3 DEF Published
    <3> QED BY <3>1, <3>4 DEF k, v
  <2> QED BY <2>2, <2>4, <2>6, <2>7 DEF Fresh, Change
<1>7. ASSUME BridgeEnds PROVE Fresh'
  <2>1. bridge'.event = NoEvent /\ UNCHANGED <<cache, epoch, reader, seen, hub>>
    BY <1>7 DEF BridgeEnds, subscriber
  <2> QED BY <1>0, <2>1 DEF Fresh, Inserting, may_insert, Published, Change, NoEvent
<1>8. ASSUME SubReceives PROVE Fresh'
  <2>1. /\ 1 \in DOMAIN hub /\ Head(hub) = hub[1]
        /\ \A n \in DOMAIN hub' : n + 1 \in DOMAIN hub /\ hub'[n] = hub[n + 1]
    BY <1>0, <1>8, TailFacts DEF Typed, SubReceives
  <2>2. UNCHANGED <<cache, epoch, reader, bridge>>
    BY <1>8 DEF SubReceives, buses
  <2>3. ASSUME NEW k \in Kinds, NEW v, Published(k, v) PROVE Published(k, v)'
    <3>1. seen'[k] <= v
      <4>1. CASE Change(hub[1], k)
        <5>1. seen' = [seen EXCEPT ![k] = hub[1].ver]
          BY <1>8, <2>1, <4>1 DEF SubReceives, Change
        <5> QED BY <1>0, <2>1, <2>3, <4>1, <5>1 DEF Published, Typed
      <4>2. CASE ~Change(hub[1], k)
        <5>1. seen'[k] = seen[k]
          BY <1>0, <1>8, <2>1, <4>2 DEF SubReceives, Change, Typed
        <5> QED BY <2>3, <5>1 DEF Published
      <4> QED BY <4>1, <4>2
    <3> QED BY <2>1, <2>3, <3>1 DEF Published, Change
  <2>4. \A r \in Readers : Inserting(r)' => Inserting(r) /\ reader[r].kind \in Kinds
    <3> SUFFICES ASSUME NEW r \in Readers, Inserting(r)'
                 PROVE  Inserting(r) /\ reader[r].kind \in Kinds
      OBVIOUS
    <3>1. Inserting(r)
      BY <2>2 DEF Inserting, may_insert
    <3>2. reader[r] \in Walk
      BY <1>0, <3>1 DEF Inserting, Typed
    <3> QED BY <3>1, <3>2 DEF Walk
  <2> QED BY <1>0, <2>2, <2>3, <2>4 DEF Fresh, Change
<1>9. ASSUME NEW r \in Readers, ReaderStep(r) PROVE Fresh'
  <2>1. UNCHANGED <<phone, pushes, bus, missed, bridge, hub, seen>>
    BY <1>9, QuietFacts
  <2>3. /\ \/ cache' = cache
           \/ /\ Inserting(r) /\ reader[r].kind \in Kinds /\ reader[r].lib \in Library
              /\ cache' = [cache EXCEPT ![reader[r].kind] = reader[r].lib]
        /\ epoch' = epoch
        /\ \A q \in Readers \ {r} : reader'[q] = reader[q]
        /\ Inserting(r)' => /\ reader[r].kind \in Kinds /\ reader'[r].kind = reader[r].kind
                            /\ reader'[r].lib = phone[reader[r].kind]
    BY <1>0, <1>9, InsertFacts
  <2>4. \A k \in Kinds : cache'[k] # NoEntry =>
          /\ Published(k, cache'[k].ver)
          /\ bridge.pc = "publish" /\ Change(bridge.event, k) => bridge.event.ver <= cache'[k].ver
    <3>1. CASE cache' = cache
      BY <1>0, <3>1 DEF Fresh
    <3>2. CASE /\ Inserting(r) /\ reader[r].kind \in Kinds /\ reader[r].lib \in Library
               /\ cache' = [cache EXCEPT ![reader[r].kind] = reader[r].lib]
      <4>1. /\ Published(reader[r].kind, reader[r].lib.ver)
            /\ Change(bridge.event, reader[r].kind) => bridge.event.ver <= reader[r].lib.ver
        BY <1>0, <3>2 DEF Fresh
      <4>2. \A k \in Kinds : cache'[k] = IF k = reader[r].kind THEN reader[r].lib ELSE cache[k]
        BY <1>0, <3>2 DEF Typed
      <4> SUFFICES ASSUME NEW k \in Kinds, cache'[k] # NoEntry
                   PROVE  /\ Published(k, cache'[k].ver)
                          /\ bridge.pc = "publish" /\ Change(bridge.event, k)
                               => bridge.event.ver <= cache'[k].ver
        OBVIOUS
      <4>3. CASE k = reader[r].kind
        BY <4>1, <4>2, <4>3
      <4>4. CASE k # reader[r].kind
        BY <1>0, <4>2, <4>4 DEF Fresh
      <4> QED BY <4>3, <4>4
    <3> QED BY <2>3, <3>1, <3>2
  <2>5. ASSUME NEW q \in Readers, Inserting(q)'
        PROVE  /\ Published(reader'[q].kind, reader'[q].lib.ver)
               /\ Change(bridge.event, reader'[q].kind) => bridge.event.ver <= reader'[q].lib.ver
    <3>1. CASE q = r
      <4>1. /\ reader[r].kind \in Kinds /\ reader'[r].kind = reader[r].kind
            /\ reader'[r].lib = phone[reader[r].kind]
        BY <2>3, <2>5, <3>1
      <4>2. Published(reader[r].kind, phone[reader[r].kind].ver)
            /\ (Change(bridge.event, reader[r].kind)
                  => bridge.event.ver <= phone[reader[r].kind].ver)
        BY <1>0, <4>1 DEF Versions, Published
      <4> QED BY <3>1, <4>1, <4>2
    <3>2. CASE q # r
      <4>1. reader'[q] = reader[q] /\ Inserting(q)
        BY <2>3, <2>5, <3>2 DEF Inserting, may_insert
      <4> QED BY <1>0, <4>1 DEF Fresh
    <3> QED BY <3>1, <3>2
  <2> QED BY <2>1, <2>4, <2>5 DEF Fresh, Published, Change
<1>10. ASSUME CloseStep PROVE Fresh'
  <2>1. UNCHANGED <<phone, pushes, bus, missed, bridge, hub, seen>>
    BY <1>10, QuietFacts
  <2>2. /\ reader' = reader
        /\ cache' = cache \/ \A k \in Kinds : cache'[k] = NoEntry
        /\ epoch' = epoch \/ epoch' = epoch + 1
    BY <1>10 DEF CloseStep, SessionRemoved, ClientClosed, invalidate_bump, invalidate_clear
  <2>3. \A r \in Readers : Inserting(r)' => Inserting(r)
    <3> SUFFICES ASSUME NEW r \in Readers, Inserting(r)' PROVE Inserting(r)
      OBVIOUS
    <3>1. reader[r].pc = "insert" /\ may_insert(r)' /\ reader[r].pc # "new"
      BY <2>2 DEF Inserting
    <3>2. epoch' = epoch
      BY <1>0, <2>2, <3>1, BumpFacts
    <3> QED BY <2>2, <3>1, <3>2 DEF Inserting, may_insert
  <2> QED BY <1>0, <2>1, <2>2, <2>3 DEF Fresh, Published, Change
<1>11. ASSUME HubCloses \/ SubLagged \/ SubClosed PROVE Fresh'
  <2>1. UNCHANGED <<cache, epoch, reader, seen, hub, bridge>>
    BY <1>11 DEF HubCloses, SubLagged, SubClosed, buses, subscriber
  <2> QED BY <1>1, <2>1
<1> QED BY <1>2, <1>3, <1>4, <1>5, <1>6, <1>7, <1>8, <1>9, <1>10, <1>11
        DEF Next, BridgeStep, SubStep

\* No step shows a reader less than it had been told of when it asked.
LEMMA StepNoticed ==
    ASSUME IInv, Next
    PROVE  Noticed'
<1>0. Typed /\ Versions /\ Fresh /\ Noticed /\ Walked /\ MaxPushes \in Nat
  BY MediaEventsAssumption DEF IInv
<1>a. \A k \in Kinds : phone[k].ver \in Nat /\ seen[k] \in Nat
  BY <1>0 DEF Typed, Library
<1>1. ASSUME reader' = reader, NEW k \in Kinds, NEW items,
             phone' = phone \/ phone' = [phone EXCEPT ![k] = [items |-> items,
                                                             ver |-> phone[k].ver + 1]]
      PROVE  Noticed'
  <2>1. \A j \in Kinds : phone'[j].ver \in Nat /\ phone[j].ver <= phone'[j].ver
    <3>1. CASE phone' = phone
      BY <1>a, <3>1
    <3>2. CASE phone' = [phone EXCEPT ![k] = [items |-> items, ver |-> phone[k].ver + 1]]
      <4>1. \A j \in Kinds : phone'[j].ver = IF j = k THEN phone[k].ver + 1 ELSE phone[j].ver
        BY <1>0, <3>2 DEF Typed
      <4> QED BY <1>a, <4>1
    <3> QED BY <1>1, <3>1, <3>2
  <2>2. ASSUME NEW r \in Readers, reader[r].pc = "fetch"
        PROVE  reader[r].after <= phone'[reader[r].kind].ver
    <3>1. reader[r].kind \in Kinds /\ reader[r].after \in Nat
      BY <1>0, <2>2 DEF Typed, Walk
    <3>2. reader[r].after <= phone[reader[r].kind].ver
      BY <1>0, <2>2 DEF Noticed
    <3> QED BY <1>a, <2>1, <3>1, <3>2
  <2> QED BY <1>0, <1>1, <2>2 DEF Noticed
<1>2. ASSUME reader' = reader, phone' = phone PROVE Noticed'
  BY <1>0, <1>2 DEF Noticed
<1>3. ASSUME NEW k \in Kinds, NEW i \in Ids, NEW typed \in BOOLEAN, NEW candidates \in Candidates,
             LibraryChanges(k, i, typed, candidates)
      PROVE  Noticed'
  <2>1. PICK e \in Event, items \in [Ids -> 0..(MaxPushes + 1)] :
                /\ Push(e)
                /\ phone' = [phone EXCEPT ![k] = [items |-> items, ver |-> phone[k].ver + 1]]
    BY <1>0, <1>3, LibraryFacts
  <2>2. reader' = reader
    BY <2>1 DEF Push
  <2> QED BY <1>1, <2>1, <2>2
<1>4. ASSUME OtherPush \/ BridgeStep \/ SubStep \/ CloseStep \/ HubCloses PROVE Noticed'
  <2>1. reader' = reader /\ phone' = phone
    BY <1>4 DEF OtherPush, Push, BridgeStep, BridgeLagged, BridgeReceives, BridgeClears,
                BridgePublishes, BridgeEnds, SubStep, SubLagged, SubReceives, SubClosed, CloseStep,
                SessionRemoved, ClientClosed, invalidate_bump, invalidate_clear, HubCloses
  <2> QED BY <1>2, <2>1
<1>5. ASSUME NEW r \in Readers, ReaderStep(r) PROVE Noticed'
  <2>0. phone' = phone
    BY <1>5, QuietFacts
  <2>1. ASSUME /\ \A q \in Readers \ {r} : reader'[q] = reader[q]
               /\ reader'[r].pc = "fetch" => reader'[r].after <= phone[reader'[r].kind].ver
               /\ reader'[r].pc = "insert" => reader'[r].after <= reader'[r].lib.ver
               /\ reader'[r].pc \in {"page", "done"} /\ reader'[r].lib # NoEntry
                    => reader'[r].after <= reader'[r].lib.ver
        PROVE  Noticed'
    <3> SUFFICES ASSUME NEW q \in Readers
                 PROVE  /\ reader'[q].pc = "fetch" => reader'[q].after <= phone[reader'[q].kind].ver
                        /\ reader'[q].pc = "insert" => reader'[q].after <= reader'[q].lib.ver
                        /\ reader'[q].pc \in {"page", "done"} /\ reader'[q].lib # NoEntry
                             => reader'[q].after <= reader'[q].lib.ver
      BY <2>0 DEF Noticed
    <3>1. CASE q = r
      BY <2>1, <3>1
    <3>2. CASE q # r
      <4>1. reader'[q] = reader[q]
        BY <2>1, <3>2
      <4> QED BY <1>0, <4>1 DEF Noticed
    <3> QED BY <3>1, <3>2
  <2>2. ASSUME NEW k \in Kinds, NEW limit \in Limits, WalkBegins(r, k, limit) PROVE Noticed'
    <3>1. /\ \A q \in Readers \ {r} : reader'[q] = reader[q]
          /\ reader'[r].pc = "page" /\ reader'[r].lib = NoEntry
      BY <1>0, <2>2, ReaderFacts
    <3> QED BY <2>1, <3>1
  <2>3. ASSUME PageMiss(r) PROVE Noticed'
    <3>1. /\ \A q \in Readers \ {r} : reader'[q] = reader[q]
          /\ reader'[r].kind = reader[r].kind /\ Walking(r)
          /\ reader'[r].pc \in {"fetch", "failed"} /\ reader'[r].after = seen[reader[r].kind]
      BY <1>0, <2>3, ReaderFacts
    <3>2. reader[r].kind \in Kinds
      BY <1>0, <3>1 DEF Typed, Walk, Walking
    <3>3. seen[reader[r].kind] <= phone[reader[r].kind].ver
      BY <1>0, <3>2 DEF Versions
    <3> QED BY <2>1, <3>1, <3>3
  <2>4. ASSUME PhoneAnswers(r) PROVE Noticed'
    <3>1. /\ \A q \in Readers \ {r} : reader'[q] = reader[q]
          /\ reader[r].pc = "fetch" /\ reader'[r].pc = "insert"
          /\ reader'[r].after = reader[r].after /\ reader'[r].lib = phone[reader[r].kind]
      BY <1>0, <2>4, ReaderFacts
    <3>2. reader[r].after <= phone[reader[r].kind].ver
      BY <1>0, <3>1 DEF Noticed
    <3> QED BY <2>1, <3>1, <3>2
  <2>5. ASSUME FetchFails(r) PROVE Noticed'
    <3>1. (\A q \in Readers \ {r} : reader'[q] = reader[q]) /\ reader'[r].pc = "failed"
      BY <1>0, <2>5, ReaderFacts
    <3> QED BY <2>1, <3>1
  <2>6. ASSUME PageHit(r) PROVE Noticed'
    <3> DEFINE l == cache[reader[r].kind]
               after == seen[reader[r].kind]
    <3>1. l \in Library /\ after \in Nat /\ Walking(r) /\ reader' = Served(r, l, after)
          /\ reader[r].kind \in Kinds /\ l # NoEntry
      BY <1>0, <2>6, EntryFacts DEF PageHit
    <3>2. after <= l.ver
      BY <1>0, <3>1 DEF Fresh, Published
    <3> HIDE DEF l, after
    <3>3. /\ \A q \in Readers \ {r} : reader'[q] = reader[q]
          /\ reader'[r].pc \in {"page", "done"}
          /\ reader'[r].after = after /\ reader'[r].lib = l
      BY <1>0, <3>1, ServedFacts
    <3> QED BY <2>1, <3>2, <3>3
  <2>7. ASSUME PageInserts(r) PROVE Noticed'
    <3> DEFINE l == reader[r].lib
               after == reader[r].after
    <3>1. l \in Library /\ after \in Nat /\ Walking(r) /\ reader' = Served(r, l, after)
      BY <1>0, <2>7, EntryFacts DEF PageInserts
    <3>2. after <= l.ver
      BY <1>0, <2>7 DEF Noticed, PageInserts
    <3> HIDE DEF l, after
    <3>3. /\ \A q \in Readers \ {r} : reader'[q] = reader[q]
          /\ reader'[r].pc \in {"page", "done"}
          /\ reader'[r].after = after /\ reader'[r].lib = l
      BY <1>0, <3>1, ServedFacts
    <3> QED BY <2>1, <3>2, <3>3
  <2> QED BY <1>5, <2>2, <2>3, <2>4, <2>5, <2>6, <2>7 DEF ReaderStep
<1> QED BY <1>3, <1>4, <1>5 DEF Next

\* No step of a closed session fills its cache again.
LEMMA StepClosing ==
    ASSUME IInv, Next
    PROVE  Closing'
<1>0. Typed /\ Versions /\ Closing /\ Walked
  BY DEF IInv
<1>1. ASSUME UNCHANGED <<cache, reader, session>>, epoch' = epoch \/ epoch' = epoch + 1
      PROVE  Closing'
  <2>1. \A r \in Readers : reader[r].pc \in {"fetch", "insert"} => (may_insert(r)' => may_insert(r))
    <3> SUFFICES ASSUME NEW r \in Readers, reader[r].pc \in {"fetch", "insert"}, may_insert(r)'
                 PROVE  may_insert(r)
      OBVIOUS
    <3>1. epoch' = epoch
      BY <1>0, <1>1, BumpFacts
    <3> QED BY <1>1, <3>1 DEF may_insert
  <2> QED BY <1>0, <1>1, <2>1 DEF Closing, NothingCachedAfterClose
<1>2. ASSUME \/ OtherPush \/ SubStep \/ HubCloses
             \/ \E k \in Kinds, i \in Ids, typed \in BOOLEAN, candidates \in Candidates :
                        LibraryChanges(k, i, typed, candidates)
      PROVE  Closing'
  <2>1. UNCHANGED <<cache, reader, session, epoch>>
    <3>1. CASE SubStep \/ HubCloses
      BY <3>1 DEF SubStep, SubLagged, SubReceives, SubClosed, HubCloses
    <3>2. CASE OtherPush
      BY <3>2 DEF OtherPush, Push
    <3>3. ASSUME NEW k \in Kinds, NEW i \in Ids, NEW typed \in BOOLEAN, NEW candidates \in Candidates,
                 LibraryChanges(k, i, typed, candidates)
          PROVE  UNCHANGED <<cache, reader, session, epoch>>
      <4>1. PICK e \in Event : Push(e)
        BY <1>0, <3>3, LibraryFacts
      <4> QED BY <4>1 DEF Push
    <3> QED BY <1>2, <3>1, <3>2, <3>3
  <2> QED BY <1>1, <2>1
<1>3. ASSUME BridgeLagged \/ BridgeReceives \/ BridgePublishes \/ BridgeEnds PROVE Closing'
  <2>1. UNCHANGED <<cache, reader, session>> /\ (epoch' = epoch \/ epoch' = epoch + 1)
    BY <1>3 DEF BridgeLagged, BridgeReceives, BridgePublishes, BridgeEnds
  <2> QED BY <1>1, <2>1
<1>4. ASSUME BridgeClears PROVE Closing'
  BY <1>0, <1>4 DEF BridgeClears, Closing, NothingCachedAfterClose, may_insert
<1>5. ASSUME SessionRemoved \/ ClientClosed PROVE Closing'
  <2>1. session' \notin {"clear", "closed"}
    BY <1>5 DEF SessionRemoved, ClientClosed
  <2> QED BY <2>1 DEF Closing, NothingCachedAfterClose
<1>6. ASSUME invalidate_bump PROVE Closing'
  <2>1. epoch' = epoch + 1 /\ reader' = reader /\ session' = "clear"
    BY <1>6 DEF invalidate_bump
  <2>2. \A r \in Readers : reader'[r].pc \in {"fetch", "insert"} => ~may_insert(r)'
    BY <1>0, <2>1, BumpFacts
  <2> QED BY <2>1, <2>2 DEF Closing, NothingCachedAfterClose
<1>7. ASSUME invalidate_clear PROVE Closing'
  BY <1>0, <1>7 DEF invalidate_clear, Closing, NothingCachedAfterClose, may_insert
<1>8. ASSUME NEW r \in Readers, ReaderStep(r) PROVE Closing'
  <2>1. /\ \/ cache' = cache
           \/ Inserting(r) /\ cache' = [cache EXCEPT ![reader[r].kind] = reader[r].lib]
        /\ epoch' = epoch
        /\ \A q \in Readers \ {r} : reader'[q] = reader[q]
    BY <1>0, <1>8, InsertFacts
  <2>2. session' = session
    BY <1>8 DEF ReaderStep, WalkBegins, PageHit, PageMiss, PhoneAnswers, FetchFails, PageInserts
  <2> SUFFICES ASSUME session \in {"clear", "closed"}
               PROVE  /\ \A q \in Readers : reader'[q].pc \in {"fetch", "insert"} => ~may_insert(q)'
                      /\ session = "closed" => \A k \in Kinds : cache'[k] = NoEntry
    BY <2>2 DEF Closing, NothingCachedAfterClose
  <2>3. \A q \in Readers : reader[q].pc \in {"fetch", "insert"} => ~may_insert(q)
    BY <1>0 DEF Closing
  <2>4. cache' = cache
    BY <2>1, <2>3 DEF Inserting
  <2>5. reader'[r].pc \in {"fetch", "insert"}
          => reader[r].pc = "fetch" /\ reader'[r].epoch = reader[r].epoch
    <3>1. CASE \E k \in Kinds, limit \in Limits : WalkBegins(r, k, limit)
      BY <1>0, <3>1, ReaderFacts
    <3>2. CASE PageMiss(r) \/ PhoneAnswers(r) \/ FetchFails(r)
      BY <1>0, <3>2, ReaderFacts
    <3>3. CASE PageHit(r)
      <4> DEFINE l == cache[reader[r].kind]
                 after == seen[reader[r].kind]
      <4>1. l \in Library /\ after \in Nat /\ Walking(r) /\ reader' = Served(r, l, after)
        BY <1>0, <3>3, EntryFacts DEF PageHit
      <4> HIDE DEF l, after
      <4> QED BY <1>0, <4>1, ServedFacts
    <3>4. CASE PageInserts(r)
      <4> DEFINE l == reader[r].lib
                 after == reader[r].after
      <4>1. l \in Library /\ after \in Nat /\ Walking(r) /\ reader' = Served(r, l, after)
        BY <1>0, <3>4, EntryFacts DEF PageInserts
      <4> HIDE DEF l, after
      <4> QED BY <1>0, <4>1, ServedFacts
    <3> QED BY <1>8, <3>1, <3>2, <3>3, <3>4 DEF ReaderStep
  <2>6. \A q \in Readers : reader'[q].pc \in {"fetch", "insert"} => ~may_insert(q)'
    <3> SUFFICES ASSUME NEW q \in Readers, reader'[q].pc \in {"fetch", "insert"}
                 PROVE  ~may_insert(q)'
      OBVIOUS
    <3>1. CASE q = r
      BY <2>1, <2>3, <2>5, <3>1 DEF may_insert
    <3>2. CASE q # r
      BY <2>1, <2>3, <3>2 DEF may_insert
    <3> QED BY <3>1, <3>2
  <2> QED BY <1>0, <2>4, <2>6 DEF Closing, NothingCachedAfterClose
<1> QED BY <1>2, <1>3, <1>4, <1>5, <1>6, <1>7, <1>8 DEF Next, BridgeStep, CloseStep

\* No step breaks a walk.
LEMMA StepWalked ==
    ASSUME IInv, Next
    PROVE  Walked'
<1>0. Typed /\ Walked /\ MaxId \in Nat
  BY MediaEventsAssumption DEF IInv
<1>1. ASSUME reader' = reader PROVE Walked'
  BY <1>0, <1>1 DEF Walked, Walking
<1>2. ASSUME OtherPush \/ BridgeStep \/ SubStep \/ CloseStep \/ HubCloses PROVE Walked'
  <2>1. reader' = reader
    BY <1>2 DEF OtherPush, Push, BridgeStep, BridgeLagged, BridgeReceives, BridgeClears,
                BridgePublishes, BridgeEnds, SubStep, SubLagged, SubReceives, SubClosed, CloseStep,
                SessionRemoved, ClientClosed, invalidate_bump, invalidate_clear, HubCloses
  <2> QED BY <1>1, <2>1
<1>3. ASSUME NEW k \in Kinds, NEW i \in Ids, NEW typed \in BOOLEAN, NEW candidates \in Candidates,
             LibraryChanges(k, i, typed, candidates)
      PROVE  Walked'
  <2>1. \E e : Push(e)
    BY <1>3 DEF LibraryChanges
  <2> QED BY <1>1, <2>1 DEF Push
<1>4. ASSUME NEW r \in Readers, ReaderStep(r) PROVE Walked'
  <2>1. ASSUME /\ \A q \in Readers \ {r} : reader'[q] = reader[q]
               /\ Walking(r)' =>
                    /\ \A i \in reader'[r].got : i <= reader'[r].cursor
                    /\ \A i \in reader'[r].always : i <= reader'[r].cursor => i \in reader'[r].got
                    /\ ~reader'[r].twice
               /\ reader'[r].pc = "done"
                    => reader'[r].always \subseteq reader'[r].got /\ ~reader'[r].twice
        PROVE  Walked'
    <3> SUFFICES ASSUME NEW q \in Readers
                 PROVE  /\ Walking(q)' =>
                             /\ \A i \in reader'[q].got : i <= reader'[q].cursor
                             /\ \A i \in reader'[q].always :
                                    i <= reader'[q].cursor => i \in reader'[q].got
                             /\ ~reader'[q].twice
                        /\ reader'[q].pc = "done"
                             => reader'[q].always \subseteq reader'[q].got /\ ~reader'[q].twice
      BY DEF Walked
    <3>1. CASE q = r
      BY <2>1, <3>1
    <3>2. CASE q # r
      <4>1. reader'[q] = reader[q]
        BY <2>1, <3>2
      <4> QED BY <1>0, <4>1 DEF Walked, Walking
    <3> QED BY <3>1, <3>2
  <2>2. ASSUME NEW k \in Kinds, NEW limit \in Limits, WalkBegins(r, k, limit) PROVE Walked'
    <3>1. /\ \A q \in Readers \ {r} : reader'[q] = reader[q]
          /\ reader'[r].pc = "page" /\ reader'[r].cursor = NoCursor /\ reader'[r].got = {}
          /\ reader'[r].always = Ids /\ ~reader'[r].twice
      BY <1>0, <2>2, ReaderFacts
    <3>2. \A i \in Ids : ~(i <= NoCursor)
      BY <1>0 DEF Ids, NoCursor
    <3> QED BY <2>1, <3>1, <3>2
  <2>3. ASSUME PageMiss(r) \/ PhoneAnswers(r) \/ FetchFails(r) PROVE Walked'
    <3>1. /\ \A q \in Readers \ {r} : reader'[q] = reader[q]
          /\ reader'[r].cursor = reader[r].cursor /\ reader'[r].got = reader[r].got
          /\ reader'[r].always = reader[r].always /\ reader'[r].twice = reader[r].twice
          /\ Walking(r) /\ reader'[r].pc # "done"
      BY <1>0, <2>3, ReaderFacts
    <3>2. /\ \A i \in reader[r].got : i <= reader[r].cursor
          /\ \A i \in reader[r].always : i <= reader[r].cursor => i \in reader[r].got
          /\ ~reader[r].twice
      BY <1>0, <3>1 DEF Walked
    <3> QED BY <2>1, <3>1, <3>2
  <2>4. ASSUME NEW l \in Library, NEW after \in Nat, Walking(r), reader' = Served(r, l, after)
        PROVE  Walked'
    <3>1. /\ \A q \in Readers \ {r} : reader'[q] = reader[q]
          /\ reader'[r].pc \in {"page", "done"}
          /\ reader'[r].pc = "page" =>
                /\ \A i \in reader'[r].got : i <= reader'[r].cursor
                /\ \A i \in reader'[r].always : i <= reader'[r].cursor => i \in reader'[r].got
          /\ reader'[r].pc = "done" => reader'[r].always \subseteq reader'[r].got
          /\ ~reader'[r].twice
      BY <1>0, <2>4, ServedFacts
    <3> QED BY <2>1, <3>1 DEF Walking
  <2>5. ASSUME PageHit(r) PROVE Walked'
    <3> DEFINE l == cache[reader[r].kind]
               after == seen[reader[r].kind]
    <3>1. l \in Library /\ after \in Nat /\ Walking(r) /\ reader' = Served(r, l, after)
      BY <1>0, <2>5, EntryFacts DEF PageHit
    <3> HIDE DEF l, after
    <3> QED BY <2>4, <3>1
  <2>6. ASSUME PageInserts(r) PROVE Walked'
    <3> DEFINE l == reader[r].lib
               after == reader[r].after
    <3>1. l \in Library /\ after \in Nat /\ Walking(r) /\ reader' = Served(r, l, after)
      BY <1>0, <2>6, EntryFacts DEF PageInserts
    <3> HIDE DEF l, after
    <3> QED BY <2>4, <3>1
  <2> QED BY <1>4, <2>2, <2>3, <2>5, <2>6 DEF ReaderStep
<1> QED BY <1>2, <1>3, <1>4 DEF Next

\* A push keeps what is known to be outdated known.
LEMMA PushKeepsKnown ==
    ASSUME Typed, NEW e \in Event, Push(e)
    PROVE  /\ Unsure => Unsure'
           /\ \A k \in Kinds : Events(bus, k) => Events(bus, k)' \/ Unsure'
           /\ \A k \in Kinds : Change(e, k) => Events(bus, k)'
           /\ e.kind = "Unknown" => Unsure'
<1>1. /\ \E n \in DOMAIN bus' : bus'[n] = e
      /\ missed > 0 => missed' > 0
      /\ missed' > 0 \/ \A m \in DOMAIN bus : m \in DOMAIN bus' /\ bus'[m] = bus[m]
  BY PushFacts
<1>2. warned' = warned /\ bridge' = bridge
  BY DEF Push
<1>3. Unsure => Unsure'
  BY <1>1, <1>2 DEF Unsure
<1>4. \A k \in Kinds : Events(bus, k) => Events(bus, k)' \/ Unsure'
  BY <1>1 DEF Events, Unsure
<1>5. \A k \in Kinds : Change(e, k) => Events(bus, k)'
  BY <1>1 DEF Events, Change
<1>6. e.kind = "Unknown" => Unsure'
  BY <1>1 DEF Unsure
<1> QED BY <1>3, <1>4, <1>5, <1>6

\* No step leaves an outdated entry in the cache, or on its way there, unnoticed.
LEMMA StepLate ==
    ASSUME IInv, Next
    PROVE  Late'
<1>0. Typed /\ Versions /\ Late /\ Walked
  BY DEF IInv
<1> DEFINE Known(k) == Events(bus, k) \/ Unsure
<1>a. \A k \in Kinds : cache[k] # NoEntry /\ cache[k].ver < phone[k].ver /\ session = "open"
                        => Known(k) \/ (bridge.pc = "clear" /\ bridge.event.lib = k)
  BY <1>0 DEF Late, StaleIsTransient, Unsure
<1>b. \A r \in Readers : Inserting(r) /\ reader[r].lib.ver < phone[reader[r].kind].ver
                        => Known(reader[r].kind)
  BY <1>0 DEF Late
<1>c. ASSUME /\ \A k \in Kinds :
                    cache'[k] # NoEntry /\ cache'[k].ver < phone'[k].ver /\ session' = "open"
                        => Known(k)' \/ (bridge'.pc = "clear" /\ bridge'.event.lib = k)
             /\ \A r \in Readers : Inserting(r)' /\ reader'[r].lib.ver < phone'[reader'[r].kind].ver
                        => Known(reader[r].kind)'
      PROVE  Late'
  BY <1>c DEF Late, StaleIsTransient, Unsure
<1>d. \A r \in Readers : Inserting(r) => reader[r].kind \in Kinds
  BY <1>0 DEF Inserting, Typed, Walk
<1>1. ASSUME UNCHANGED <<phone, cache, epoch, reader, session>>, UNCHANGED bridge,
             \A k \in Kinds : Known(k) => Known(k)'
      PROVE  Late'
  <2>1. \A r \in Readers : Inserting(r)' => Inserting(r)
    BY <1>1 DEF Inserting, may_insert
  <2>2. \A r \in Readers : reader'[r] = reader[r]
    BY <1>1
  <2>3. ASSUME NEW r \in Readers, Inserting(r)', reader'[r].lib.ver < phone'[reader'[r].kind].ver
        PROVE  Known(reader[r].kind)'
    <3>1. reader[r].kind \in Kinds /\ Known(reader[r].kind)
      BY <1>1, <1>b, <1>d, <2>1, <2>2, <2>3
    <3>2. PICK k \in Kinds : k = reader[r].kind
      BY <3>1
    <3>3. Known(k)'
      BY <1>1, <3>1, <3>2
    <3>4. k = reader'[r].kind
      BY <2>2, <3>2
    <3> QED BY <3>3, <3>4
  <2> HIDE DEF Known
  <2> QED BY <1>1, <1>a, <1>c, <2>3
<1>2. ASSUME NEW k \in Kinds, NEW i \in Ids, NEW typed \in BOOLEAN, NEW candidates \in Candidates,
             LibraryChanges(k, i, typed, candidates)
      PROVE  Late'
  <2>1. PICK e \in Event, items \in [Ids -> 0..(MaxPushes + 1)] :
                /\ Push(e)
                /\ phone' = [phone EXCEPT ![k] = [items |-> items, ver |-> phone[k].ver + 1]]
                /\ e.kind = "Unknown" \/ Change(e, k)
    BY <1>0, <1>2, LibraryFacts
  <2>2. UNCHANGED <<cache, epoch, reader, session, bridge>>
    BY <2>1 DEF Push
  <2>3. /\ \A j \in Kinds : Known(j) => Known(j)'
        /\ Known(k)'
    BY <1>0, <2>1, PushKeepsKnown
  <2>4. \A j \in Kinds \ {k} : phone'[j] = phone[j]
    BY <1>0, <2>1 DEF Typed
  <2>5. ASSUME NEW j \in Kinds, cache'[j] # NoEntry, cache'[j].ver < phone'[j].ver,
               session' = "open"
        PROVE  Known(j)' \/ (bridge'.pc = "clear" /\ bridge'.event.lib = j)
    <3>1. CASE j = k
      BY <2>3, <3>1
    <3>2. CASE j # k
      BY <1>a, <2>2, <2>3, <2>4, <2>5, <3>2
    <3> QED BY <3>1, <3>2
  <2>6. ASSUME NEW r \in Readers, Inserting(r)', reader'[r].lib.ver < phone'[reader'[r].kind].ver
        PROVE  Known(reader[r].kind)'
    <3>1. Inserting(r) /\ reader'[r] = reader[r]
      BY <2>2, <2>6 DEF Inserting, may_insert
    <3>2. PICK j \in Kinds : j = reader[r].kind
      BY <1>d, <3>1
    <3>3. Known(j)'
      <4>1. CASE j = k
        BY <2>3, <4>1
      <4>2. CASE j # k
        <5>1. reader[r].lib.ver < phone[j].ver
          BY <2>4, <2>6, <3>1, <3>2, <4>2
        <5>2. Known(j)
          BY <1>b, <3>1, <3>2, <5>1
        <5> QED BY <2>3, <5>2
      <4> QED BY <4>1, <4>2
    <3> QED BY <3>1, <3>2, <3>3
  <2> HIDE DEF Known
  <2> QED BY <1>c, <2>5, <2>6
<1>3. ASSUME OtherPush PROVE Late'
  <2>1. OtherEvent \in Event /\ Push(OtherEvent) /\ phone' = phone
    BY <1>3 DEF OtherPush, Event
  <2>2. \A k \in Kinds : Known(k) => Known(k)'
    BY <1>0, <2>1, PushKeepsKnown
  <2> HIDE DEF Known
  <2> QED BY <1>1, <2>1, <2>2 DEF Push
<1>4. ASSUME BridgeLagged PROVE Late'
  <2>1. UNCHANGED <<phone, cache, epoch, reader, session, bridge>> /\ warned'
    BY <1>4 DEF BridgeLagged
  <2>2. \A k \in Kinds : Known(k)'
    BY <2>1 DEF Unsure
  <2> HIDE DEF Known
  <2> QED BY <1>1, <2>1, <2>2
<1>5. ASSUME HubCloses \/ SubLagged \/ SubReceives \/ SubClosed PROVE Late'
  <2>1. UNCHANGED <<phone, cache, epoch, reader, session, bridge, bus, missed>>
        /\ (warned => warned')
    BY <1>5 DEF HubCloses, SubLagged, SubReceives, SubClosed, buses
  <2>2. \A k \in Kinds : Known(k) => Known(k)'
    BY <2>1 DEF Events, Unsure
  <2> HIDE DEF Known
  <2> QED BY <1>1, <2>1, <2>2
<1>6. ASSUME BridgeReceives PROVE Late'
  <2>1. /\ 1 \in DOMAIN bus /\ Head(bus) = bus[1] /\ bus[1] \in Event
        /\ \A m \in DOMAIN bus : m = 1 \/ (m - 1 \in DOMAIN bus' /\ bus'[m - 1] = bus[m])
    BY <1>0, <1>6, TailFacts DEF Typed, BridgeReceives
  <2>2. UNCHANGED <<phone, cache, reader, session, missed, warned>> /\ bridge.pc = "recv"
        /\ bridge'.event = bus[1] /\ bridge.event = NoEvent
    BY <1>0, <1>6, <2>1 DEF BridgeReceives, Typed
  <2>3. Unsure => Unsure'
    <3>1. ASSUME NEW n \in DOMAIN bus, bus[n].kind = "Unknown" PROVE Unsure'
      BY <2>1, <2>2, <3>1 DEF Unsure
    <3>2. NoEvent.kind # "Unknown"
      BY DEF NoEvent
    <3> QED BY <2>2, <3>1, <3>2 DEF Unsure
  <2>4. ASSUME NEW k \in Kinds, Events(bus, k) PROVE Change(bus[1], k) \/ Events(bus, k)'
    BY <2>1, <2>4 DEF Events, Change
  <2>5. ASSUME NEW k \in Kinds, cache'[k] # NoEntry, cache'[k].ver < phone'[k].ver,
               session' = "open"
        PROVE  Known(k)' \/ (bridge'.pc = "clear" /\ bridge'.event.lib = k)
    <3>1. Known(k)
      BY <1>a, <2>2, <2>5
    <3>2. CASE Unsure
      BY <2>3, <3>2
    <3>3. CASE Events(bus, k)
      <4>1. Change(bus[1], k) => bridge'.pc = "clear" /\ bridge'.event.lib = k
        BY <1>6, <2>1 DEF BridgeReceives, Change
      <4> QED BY <2>4, <3>3, <4>1
    <3> QED BY <3>1, <3>2, <3>3
  <2>6. ASSUME NEW r \in Readers, Inserting(r)', reader'[r].lib.ver < phone'[reader'[r].kind].ver
        PROVE  Known(reader[r].kind)'
    <3>1. reader'[r] = reader[r] /\ reader[r].pc = "insert"
      BY <2>2, <2>6 DEF Inserting
    <3>2. Head(bus).kind # "MediaLibraryChanged" /\ epoch' = epoch
      <4>1. epoch' # epoch + 1
        <5>1. reader[r].pc # "new" /\ may_insert(r)' /\ reader' = reader
          BY <2>2, <2>6, <3>1 DEF Inserting
        <5> QED BY <1>0, <5>1, BumpFacts
      <4> QED BY <1>6, <4>1 DEF BridgeReceives
    <3>3. Inserting(r)
      BY <2>6, <3>1, <3>2 DEF Inserting, may_insert
    <3>4. PICK k \in Kinds : k = reader[r].kind
      BY <1>d, <3>3
    <3>5. Known(k)
      BY <1>b, <2>2, <2>6, <3>1, <3>3, <3>4
    <3>6. Known(k)'
      BY <2>1, <2>3, <2>4, <3>2, <3>5 DEF Change
    <3> QED BY <3>1, <3>4, <3>6
  <2> HIDE DEF Known
  <2> QED BY <1>c, <2>5, <2>6
<1>7. ASSUME BridgeClears PROVE Late'
  <2>1. UNCHANGED <<phone, epoch, reader, session, bus, missed, warned>>
        /\ bridge'.event = bridge.event
        /\ \A k \in Kinds : cache'[k] = NoEntry
    BY <1>0, <1>7 DEF BridgeClears, Typed
  <2>2. \A k : Known(k) => Known(k)'
    BY <2>1 DEF Events, Unsure
  <2>3. \A r \in Readers : (Inserting(r)' => Inserting(r)) /\ reader'[r] = reader[r]
    BY <2>1 DEF Inserting, may_insert
  <2>4. ASSUME NEW r \in Readers, Inserting(r)', reader'[r].lib.ver < phone'[reader'[r].kind].ver
        PROVE  Known(reader[r].kind)'
    <3>1. PICK k \in Kinds : k = reader[r].kind
      BY <1>d, <2>3, <2>4
    <3>2. Known(k)
      BY <1>b, <2>1, <2>3, <2>4, <3>1
    <3>3. Known(k)'
      BY <2>2, <3>2
    <3> QED BY <2>3, <3>1, <3>3
  <2> HIDE DEF Known
  <2> QED BY <1>c, <2>1, <2>4
<1>8. ASSUME BridgePublishes \/ BridgeEnds PROVE Late'
  <2>1. UNCHANGED <<phone, cache, epoch, reader, session, bus, missed>> /\ bridge.pc # "clear"
        /\ (warned \/ bridge.event.kind = "Unknown" => warned')
    <3>1. CASE BridgePublishes
      BY <3>1 DEF BridgePublishes
    <3>2. CASE BridgeEnds
      <4>1. bridge.event.kind # "Unknown"
        BY <1>0, <3>2 DEF BridgeEnds, Typed, NoEvent
      <4> QED BY <3>2, <4>1 DEF BridgeEnds
    <3> QED BY <1>8, <3>1, <3>2
  <2>2. \A k : Known(k) => Known(k)'
    BY <2>1 DEF Events, Unsure
  <2>3. \A r \in Readers : (Inserting(r)' => Inserting(r)) /\ reader'[r] = reader[r]
    BY <2>1 DEF Inserting, may_insert
  <2>4. ASSUME NEW r \in Readers, Inserting(r)', reader'[r].lib.ver < phone'[reader'[r].kind].ver
        PROVE  Known(reader[r].kind)'
    <3>1. PICK k \in Kinds : k = reader[r].kind
      BY <1>d, <2>3, <2>4
    <3>2. Known(k)
      BY <1>b, <2>1, <2>3, <2>4, <3>1
    <3>3. Known(k)'
      BY <2>2, <3>2
    <3> QED BY <2>3, <3>1, <3>3
  <2> HIDE DEF Known
  <2> QED BY <1>a, <1>c, <2>1, <2>2, <2>4
<1>9. ASSUME NEW r \in Readers, ReaderStep(r) PROVE Late'
  <2>1. UNCHANGED <<phone, bus, missed, bridge>> /\ (warned => warned')
    BY <1>9, QuietFacts
  <2>2. session' = session
    BY <1>9 DEF ReaderStep, WalkBegins, PageHit, PageMiss, PhoneAnswers, FetchFails, PageInserts
  <2>3. /\ \/ cache' = cache
           \/ /\ Inserting(r) /\ reader[r].kind \in Kinds
              /\ cache' = [cache EXCEPT ![reader[r].kind] = reader[r].lib]
        /\ epoch' = epoch
        /\ \A q \in Readers \ {r} : reader'[q] = reader[q]
        /\ Inserting(r)' => /\ reader[r].kind \in Kinds /\ reader'[r].kind = reader[r].kind
                            /\ reader'[r].lib = phone[reader[r].kind]
    BY <1>0, <1>9, InsertFacts
  <2>4. \A k : Known(k) => Known(k)'
    BY <2>1 DEF Events, Unsure
  <2>5. ASSUME NEW k \in Kinds, cache'[k] # NoEntry, cache'[k].ver < phone'[k].ver,
               session' = "open"
        PROVE  Known(k)' \/ (bridge'.pc = "clear" /\ bridge'.event.lib = k)
    <3>1. CASE cache'[k] = cache[k]
      BY <1>a, <2>1, <2>2, <2>4, <2>5, <3>1
    <3>2. CASE cache'[k] # cache[k]
      <4>1. Inserting(r) /\ k = reader[r].kind /\ cache'[k] = reader[r].lib
        BY <1>0, <2>3, <3>2 DEF Typed
      <4>2. Known(k)
        BY <1>b, <2>1, <2>5, <4>1
      <4> QED BY <2>4, <4>2
    <3> QED BY <3>1, <3>2
  <2>6. ASSUME NEW q \in Readers, Inserting(q)', reader'[q].lib.ver < phone'[reader'[q].kind].ver
        PROVE  Known(reader[q].kind)'
    <3>1. q # r
      <4> SUFFICES ASSUME q = r PROVE FALSE
        OBVIOUS
      <4>1. reader[r].kind \in Kinds /\ phone[reader[r].kind].ver < phone[reader[r].kind].ver
        BY <2>1, <2>3, <2>6
      <4>2. phone[reader[r].kind].ver \in 0..MaxPushes
        BY <1>0, <4>1 DEF Typed, Library
      <4> QED BY <4>1, <4>2
    <3>2. Inserting(q) /\ reader'[q] = reader[q]
      BY <2>3, <2>6, <3>1 DEF Inserting, may_insert
    <3>3. PICK k \in Kinds : k = reader[q].kind
      BY <1>d, <3>2
    <3>4. Known(k)
      BY <1>b, <2>1, <2>6, <3>2, <3>3
    <3>5. Known(k)'
      BY <2>4, <3>4
    <3> QED BY <3>2, <3>3, <3>5
  <2> HIDE DEF Known
  <2> QED BY <1>c, <2>5, <2>6
<1>10. ASSUME CloseStep PROVE Late'
  <2>1. UNCHANGED <<phone, bus, missed, bridge>> /\ (warned => warned')
    BY <1>10, QuietFacts
  <2>2. session' # "open" /\ reader' = reader /\ (epoch' = epoch \/ epoch' = epoch + 1)
    BY <1>10 DEF CloseStep, SessionRemoved, ClientClosed, invalidate_bump, invalidate_clear
  <2>3. \A r \in Readers : Inserting(r)' => Inserting(r)
    <3> SUFFICES ASSUME NEW r \in Readers, Inserting(r)' PROVE Inserting(r)
      OBVIOUS
    <3>1. reader[r].pc = "insert" /\ may_insert(r)' /\ reader[r].pc # "new"
      BY <2>2 DEF Inserting
    <3>2. epoch' = epoch
      BY <1>0, <2>2, <3>1, BumpFacts
    <3> QED BY <2>2, <3>1, <3>2 DEF Inserting, may_insert
  <2>4. \A k : Known(k) => Known(k)'
    BY <2>1 DEF Events, Unsure
  <2>5. ASSUME NEW r \in Readers, Inserting(r)', reader'[r].lib.ver < phone'[reader'[r].kind].ver
        PROVE  Known(reader[r].kind)'
    <3>1. PICK k \in Kinds : k = reader[r].kind
      BY <1>d, <2>3, <2>5
    <3>2. Known(k)
      BY <1>b, <2>1, <2>2, <2>3, <2>5, <3>1
    <3>3. Known(k)'
      BY <2>4, <3>2
    <3> QED BY <2>2, <3>1, <3>3
  <2> HIDE DEF Known
  <2> QED BY <1>c, <2>2, <2>5
<1> QED BY <1>2, <1>3, <1>4, <1>5, <1>6, <1>7, <1>8, <1>9, <1>10 DEF Next, BridgeStep, SubStep

-----------------------------------------------------------------------------
\* Every step, or none, keeps the invariant.
LEMMA NextInv == IInv /\ [Next]_vars => IInv'
<1> SUFFICES ASSUME IInv, [Next]_vars PROVE IInv'
  OBVIOUS
<1>1. CASE Next
  BY <1>1, StepTyped, StepVersions, StepFresh, StepNoticed, StepLate, StepClosing, StepWalked
     DEF IInv
<1>2. CASE UNCHANGED vars
  <2>1. UNCHANGED <<phone, pushes, bus, missed, bridge, cache, epoch, reader, hub, skipped, sub,
                    seen, warned, session, hub_open>>
    BY <1>2 DEF vars, buses, subscriber
  <2>2. Typed'
    BY <2>1 DEF IInv, Typed, Walking
  <2>3. Versions' /\ Fresh' /\ Noticed'
    BY <2>1 DEF IInv, Versions, Fresh, Noticed, Inserting, may_insert, Published, Change
  <2>4. Late'
    BY <2>1 DEF IInv, Late, StaleIsTransient, Inserting, may_insert, Events, Unsure
  <2>5. Closing' /\ Walked'
    BY <2>1 DEF IInv, Closing, NothingCachedAfterClose, may_insert, Walked, Walking
  <2> QED BY <2>2, <2>3, <2>4, <2>5 DEF IInv
<1> QED BY <1>1, <1>2

\* The inductive invariant holds in every state of the media libraries
\* (run_event_bridge, cached_*_library, slice_page).
THEOREM MediaInvariant == Spec => []IInv
BY InitInv, NextInv, PTL DEF Spec

\* What the cache holds is current, on its way out, or reported as possibly
\* stale, and it is gone with its session, for any number of readers and kinds
\* and any capacity of the two channels (may_insert, run_event_bridge,
\* close_session).
THEOREM CacheIsSound == Spec => []CacheSound
<1>1. IInv => CacheSound
  <2> SUFFICES ASSUME IInv PROVE CacheSound
    OBVIOUS
  <2>1. TypeOK
    BY DEF IInv, Typed, TypeOK, Library, Walk, Walking
  <2>2. StaleIsTransient /\ NothingCachedAfterClose
    BY DEF IInv, Late, Closing
  <2> QED BY <2>1, <2>2 DEF CacheSound
<1> QED BY <1>1, MediaInvariant, PTL

\* A page asked for after the subscriber was told of a change shows that change:
\* the bridge bumps the epoch and clears before it publishes, and an answer
\* fetched before the bump is not cached (run_event_bridge, cached_*_library).
THEOREM PagesFollowNotices == Spec => []PageAfterNotice
<1>1. IInv => PageAfterNotice
  <2> SUFFICES ASSUME IInv, NEW r \in Readers, reader[r].pc \in {"page", "done"},
                      reader[r].lib # NoEntry
               PROVE  reader[r].lib.ver >= reader[r].after
    BY DEF PageAfterNotice
  <2>1. reader[r] \in Walk
    BY DEF IInv, Typed
  <2>2. reader[r].after \in Nat /\ reader[r].lib \in Entry
    BY <2>1 DEF Walk
  <2>3. reader[r].lib.ver \in 0..MaxPushes /\ MaxPushes \in Nat
    BY <2>2, MediaEventsAssumption DEF Entry
  <2>4. reader[r].after <= reader[r].lib.ver
    BY DEF IInv, Noticed
  <2> QED BY <2>2, <2>3, <2>4
<1> QED BY <1>1, MediaInvariant, PTL

\* A walk over the pages returns every item that was in all the snapshots it was
\* served from, and none twice, for every page size, library and number of items
\* without id, although the library changes between pages (slice_page).
THEOREM WalksAreComplete == Spec => []WalkComplete
<1>1. IInv => WalkComplete
  BY DEF IInv, Walked, WalkComplete
<1> QED BY <1>1, MediaInvariant, PTL
-----------------------------------------------------------------------------
(***************************************************************************)
(* What a client's merge rests on.  A change is listed from the time the   *)
(* phone pushes it: on the bus, in the bridge, in the hub, and at last in  *)
(* the client's log.  While nothing was lost the listed changes account    *)
(* for every difference between a snapshot and the phone.                  *)
(***************************************************************************)
Listed(k) ==
    {e \in Range(log[k]) \cup Range(hub) \cup {bridge.event} \cup Range(bus) : Change(e, k)}

\* Nothing was lost, on the way to the bridge or to the subscriber.
Clean == ~Unsure /\ skipped = 0 /\ hub_open

Rising(q, k) ==
    \A m, n \in DOMAIN q : m < n /\ Change(q[m], k) /\ Change(q[n], k) => q[m].ver < q[n].ver
Ahead(q, k, v) == \A n \in DOMAIN q : Change(q[n], k) => v < q[n].ver

\* The changes reach the client in the order in which the phone made them.
InOrder(k) ==
    /\ \A n \in DOMAIN log[k] : Change(log[k][n], k) /\ log[k][n].ver <= seen[k]
    /\ Rising(log[k], k) /\ Rising(hub, k) /\ Rising(bus, k)
    /\ Ahead(hub, k, seen[k]) /\ Ahead(bus, k, seen[k])
    /\ \A n \in DOMAIN hub : Change(hub[n], k) => Ahead(bus, k, hub[n].ver)
    /\ Change(bridge.event, k) =>
        /\ seen[k] < bridge.event.ver /\ Ahead(bus, k, bridge.event.ver)
        /\ \A n \in DOMAIN hub : Change(hub[n], k) => hub[n].ver < bridge.event.ver

\* Merging change c leaves item i as it is.
Leaves(c, i) == \A items \in [Ids -> Nat] : apply_change(items, c)[i] = items[i]

\* x is what a client should have for item i of library k.
Right(k, i, x) == x = phone[k].items[i] \/ (k = "Audio" /\ phone[k].items[i] = Absent)

\* Merging a listed change puts an item right, unless a later one is to follow.
Settled(k) ==
    \A e \in Listed(k), i \in Ids :
        \/ Leaves(e, i)
        \/ \E f \in Listed(k) : e.ver < f.ver /\ ~Leaves(f, i)
        \/ \A items \in [Ids -> Nat] : Right(k, i, apply_change(items, e)[i])

\* A snapshot is right but for the items some listed change is about.
Unmoved(k, items) ==
    \A i \in Ids : Right(k, i, items[i]) \/ \E e \in Listed(k) : ~Leaves(e, i)

Logged ==
    /\ log \in [Kinds -> Seq(Event)]
    /\ \A r \in Readers : reader[r].pc = "done" => reader[r].lib # NoEntry
    /\ Clean =>
        /\ \A k \in Kinds : /\ InOrder(k) /\ Settled(k)
                            /\ cache[k] # NoEntry => Unmoved(k, cache[k].items)
        /\ \A r \in Readers : reader[r].pc # "new" /\ reader[r].lib # NoEntry
                                => Unmoved(reader[r].kind, reader[r].lib.items)

-----------------------------------------------------------------------------
\* Merging a change that names one item sets that item and leaves the others.
LEMMA ApplyFacts ==
    ASSUME NEW i \in Ids, NEW x \in Nat, NEW items \in [Ids -> Nat], NEW c
    PROVE  /\ c.added = {<<i, x>>} /\ c.updated = {} /\ c.deleted = {}
                => apply_change(items, c) = [items EXCEPT ![i] = x]
           /\ c.added = {} /\ c.updated = {<<i, x>>} /\ c.deleted = {}
                => apply_change(items, c) = [items EXCEPT ![i] = x]
           /\ c.added = {} /\ c.updated = {} /\ c.deleted = {i}
                => apply_change(items, c) = [items EXCEPT ![i] = Absent]
           /\ c.added = {} /\ c.updated = {} /\ c.deleted = {}
                => apply_change(items, c) = items
<1>1. ASSUME NEW f \in [Ids -> Nat] PROVE upsert(f, {}) = f
  <2>1. upsert(f, {}) = [j \in Ids |-> f[j]]
    BY DEF upsert
  <2> QED BY <2>1
<1>2. ASSUME NEW f \in [Ids -> Nat] PROVE upsert(f, {<<i, x>>}) = [f EXCEPT ![i] = x]
  <2> DEFINE e == CHOOSE e \in {<<i, x>>} : matches(e, i)
  <2>1. matches(<<i, x>>, i) /\ \A j \in Ids : matches(<<i, x>>, j) => j = i
    BY DEF matches
  <2>2. e = <<i, x>>
    BY <2>1
  <2>3. overlap(f, e)[i] = x
    <3>1. overlap(f, <<i, x>>) = [f EXCEPT ![i] = x]
      BY DEF overlap
    <3>2. [f EXCEPT ![i] = x][i] = x
      OBVIOUS
    <3> HIDE DEF e
    <3> QED BY <2>2, <3>1, <3>2
  <2>4. ASSUME NEW j \in Ids PROVE upsert(f, {<<i, x>>})[j] = [f EXCEPT ![i] = x][j]
    <3>1. CASE j = i
      <4>1. upsert(f, {<<i, x>>})[i] = overlap(f, e)[i]
        BY <2>1 DEF upsert
      <4> QED BY <2>3, <3>1, <4>1
    <3>2. CASE j # i
      <4>1. ~ \E d \in {<<i, x>>} : matches(d, j)
        BY <2>1, <3>2
      <4>2. upsert(f, {<<i, x>>})[j] = f[j]
        BY <4>1 DEF upsert
      <4> QED BY <3>2, <4>2
    <3> QED BY <3>1, <3>2
  <2>5. upsert(f, {<<i, x>>}) = [j \in Ids |-> upsert(f, {<<i, x>>})[j]]
    BY DEF upsert
  <2>6. [f EXCEPT ![i] = x] = [j \in Ids |-> [f EXCEPT ![i] = x][j]]
    OBVIOUS
  <2> QED BY <2>4, <2>5, <2>6
<1>3. ASSUME NEW f \in [Ids -> Nat] PROVE remove(f, {}) = f
  BY DEF remove
<1>4. ASSUME NEW f \in [Ids -> Nat] PROVE remove(f, {i}) = [f EXCEPT ![i] = Absent]
  BY DEF remove
<1>5. [items EXCEPT ![i] = x] \in [Ids -> Nat]
  OBVIOUS
<1> QED BY <1>1, <1>2, <1>3, <1>4, <1>5 DEF apply_change

\* The event of a library change tells what became of the item, and of no other;
\* of an audio item that is gone it tells nothing.
LEMMA ChangeContents ==
    ASSUME Typed, Versions, NEW k \in Kinds, NEW i \in Ids, NEW typed, NEW candidates,
           LibraryChanges(k, i, typed, candidates)
    PROVE  \E e \in Event, x \in Nat :
                /\ Push(e)
                /\ phone' = [phone EXCEPT ![k] = [items |-> [@.items EXCEPT ![i] = x],
                                                  ver |-> phone[k].ver + 1]]
                /\ \A j \in Kinds : Change(e, j) => j = k
                /\ \/ e.kind = "Unknown"
                   \/ /\ Change(e, k) /\ e.ver = phone[k].ver + 1
                      /\ \/ \A items \in [Ids -> Nat] :
                                apply_change(items, e) = [items EXCEPT ![i] = x]
                         \/ /\ k = "Audio" /\ x = Absent
                            /\ \A items \in [Ids -> Nat] : apply_change(items, e) = items
<1> DEFINE v == phone[k].ver + 1
           wire(added, updated, deleted) ==
             [type |-> k, added |-> added, updated |-> updated, deleted |-> deleted, ver |-> v]
           becomes(version, w) ==
             /\ phone' = [phone EXCEPT ![k] = [items |-> [@.items EXCEPT ![i] = version], ver |-> v]]
             /\ Push(decode_event(w, typed, candidates))
<1>1. \/ becomes(v + 1, wire({<<i, v + 1>>}, {}, {}))
      \/ becomes(Absent, wire({}, {}, {i}))
      \/ k = "Video" /\ becomes(v + 1, wire({}, {<<i, v + 1>>}, {}))
  BY DEF LibraryChanges
<1>2. phone[k].ver \in Nat /\ phone[k].ver <= pushes /\ pushes < MaxPushes
      /\ pushes \in Nat /\ MaxPushes \in Nat
  BY <1>1, MediaEventsAssumption DEF Push, Typed, Versions, Library
<1>3. v \in 0..MaxPushes /\ v + 1 \in Nat /\ Absent \in Nat
  BY <1>2 DEF Absent
<1>4. k \in {"Photo", "Video", "Audio"}
  BY MediaEventsAssumption
<1> HIDE DEF v
<1> DEFINE Told(e, x) ==
             \/ \A items \in [Ids -> Nat] : apply_change(items, e) = [items EXCEPT ![i] = x]
             \/ /\ k = "Audio" /\ x = Absent
                /\ \A items \in [Ids -> Nat] : apply_change(items, e) = items
<1>5. ASSUME NEW x \in Nat, NEW added \in SUBSET (Ids \X Nat),
             NEW updated \in SUBSET (Ids \X Nat), NEW deleted \in SUBSET Ids,
             becomes(x, wire(added, updated, deleted)),
             Told(decoded(wire(added, updated, deleted)), x)
      PROVE  \E e \in Event :
                /\ Push(e)
                /\ phone' = [phone EXCEPT ![k] = [items |-> [@.items EXCEPT ![i] = x], ver |-> v]]
                /\ \A j \in Kinds : Change(e, j) => j = k
                /\ e.kind = "Unknown" \/ (Change(e, k) /\ e.ver = v /\ Told(e, x))
  <2> DEFINE w == wire(added, updated, deleted)
             e == decode_event(w, typed, candidates)
  <2>1. /\ e \in Event
        /\ e.kind = "Unknown" \/ (Change(e, k) /\ e.ver = v)
        /\ \A j \in Kinds : Change(e, j) => j = k
    BY <1>3, DecodeFacts, SMTT(40)
  <2>2. e = decoded(w) \/ e.kind = "Unknown"
    BY DEF decode_event, infer_event
  <2>3. Told(decoded(w), x)
    BY <1>5
  <2>4. Push(e) /\ phone' = [phone EXCEPT ![k] = [items |-> [@.items EXCEPT ![i] = x], ver |-> v]]
    BY <1>5
  <2> HIDE DEF e, w, Told
  <2>5. e.kind = "Unknown" \/ (Change(e, k) /\ e.ver = v /\ Told(e, x))
    BY <2>1, <2>2, <2>3
  <2> QED BY <2>1, <2>4, <2>5
<1>6. {<<i, v + 1>>} \in SUBSET (Ids \X Nat) /\ {} \in SUBSET (Ids \X Nat)
      /\ {i} \in SUBSET Ids /\ {} \in SUBSET Ids
  BY <1>3
<1>7. Told(decoded(wire({<<i, v + 1>>}, {}, {})), v + 1)
  <2> DEFINE e == decoded(wire({<<i, v + 1>>}, {}, {}))
  <2>1. e.added = {<<i, v + 1>>} /\ e.updated = {} /\ e.deleted = {}
    BY <1>4 DEF decoded, photo_change, video_change, audio_change, MediaChange
  <2> HIDE DEF e
  <2>2. Told(e, v + 1)
    BY <1>3, <2>1, ApplyFacts
  <2> QED BY <2>2 DEF e
<1>8. Told(decoded(wire({}, {}, {i})), Absent)
  <2> DEFINE e == decoded(wire({}, {}, {i}))
  <2>1. e.added = {} /\ e.updated = {} /\ (e.deleted = {i} \/ (k = "Audio" /\ e.deleted = {}))
    BY <1>4 DEF decoded, photo_change, video_change, audio_change, MediaChange
  <2> HIDE DEF e
  <2>2. Told(e, Absent)
    BY <1>3, <2>1, ApplyFacts, SMTT(40)
  <2> QED BY <2>2 DEF e
<1>9. k = "Video" => Told(decoded(wire({}, {<<i, v + 1>>}, {})), v + 1)
  <2> SUFFICES ASSUME k = "Video" PROVE Told(decoded(wire({}, {<<i, v + 1>>}, {})), v + 1)
    OBVIOUS
  <2> DEFINE e == decoded(wire({}, {<<i, v + 1>>}, {}))
  <2>1. e.added = {} /\ e.updated = {<<i, v + 1>>} /\ e.deleted = {}
    BY DEF decoded, photo_change, video_change, audio_change, MediaChange
  <2> HIDE DEF e
  <2>2. Told(e, v + 1)
    BY <1>3, <2>1, ApplyFacts
  <2> QED BY <2>2 DEF e
<1>10. \E e \in Event, x \in Nat :
                /\ Push(e)
                /\ phone' = [phone EXCEPT ![k] = [items |-> [@.items EXCEPT ![i] = x], ver |-> v]]
                /\ \A j \in Kinds : Change(e, j) => j = k
                /\ e.kind = "Unknown" \/ (Change(e, k) /\ e.ver = v /\ Told(e, x))
  <2> HIDE DEF becomes, wire, Told
  <2>1. CASE becomes(v + 1, wire({<<i, v + 1>>}, {}, {}))
    BY <1>3, <1>5, <1>6, <1>7, <2>1
  <2>2. CASE becomes(Absent, wire({}, {}, {i}))
    BY <1>3, <1>5, <1>6, <1>8, <2>2
  <2>3. CASE k = "Video" /\ becomes(v + 1, wire({}, {<<i, v + 1>>}, {}))
    BY <1>3, <1>5, <1>6, <1>9, <2>3
  <2> QED BY <1>1, <2>1, <2>2, <2>3
<1> QED BY <1>10 DEF v

-----------------------------------------------------------------------------
(***************************************************************************)
(* How a step moves the listed changes, as long as nothing is lost.        *)
(***************************************************************************)
Moves ==
    \/ UNCHANGED <<phone, bus, bridge.event, hub, seen, log>>
    \/ /\ bus # <<>> /\ bridge.event = NoEvent
       /\ bus' = Tail(bus) /\ bridge'.event = Head(bus)
       /\ UNCHANGED <<phone, hub, seen, log>>
    \/ /\ hub' = Append(hub, bridge.event) /\ bridge'.event = NoEvent
       /\ UNCHANGED <<phone, bus, seen, log>>
    \/ /\ hub # <<>> /\ hub' = Tail(hub)
       /\ IF Head(hub).kind = "MediaLibraryChanged"
          THEN /\ seen' = [seen EXCEPT ![Head(hub).lib] = Head(hub).ver]
               /\ log' = [log EXCEPT ![Head(hub).lib] = Append(@, Head(hub))]
          ELSE UNCHANGED <<seen, log>>
       /\ UNCHANGED <<phone, bus, bridge.event>>

\* Event e is pushed and nothing else moves.
Adds(e) == bus' = Append(bus, e) /\ UNCHANGED <<bridge, hub, seen, log, cache, reader>>

\* A push that loses nothing is appended to the bus.
LEMMA PushAdds ==
    ASSUME Typed, NEW e \in Event, Push(e), Clean'
    PROVE  Clean /\ Adds(e) /\ e.kind # "Unknown"
<1>1. bus \in Seq(Event) /\ missed \in Nat /\ BusCapacity \in Nat \ {0} /\ Len(bus) <= BusCapacity
  BY MediaEventsAssumption DEF Typed
<1>2. missed' \in Nat /\ ~(missed' > 0)
  BY PushFacts DEF Clean, Unsure
<1>3. DropsOne(bus, BusCapacity) = 0 /\ missed = 0
  <2>1. DropsOne(bus, BusCapacity) \in {0, 1} /\ missed' = missed + DropsOne(bus, BusCapacity)
    BY DEF DropsOne, Push
  <2> QED BY <1>1, <1>2, <2>1
<1>4. bus' = Append(bus, e)
  BY <1>3 DEF DropsOne, BusAfter, Push
<1>5. UNCHANGED <<bridge, hub, seen, log, cache, reader, warned, skipped, hub_open>>
  BY DEF Push, subscriber
<1>6. \A n \in DOMAIN bus : n \in DOMAIN bus' /\ bus'[n] = bus[n]
  BY <1>1, <1>4
<1>7. \E n \in DOMAIN bus' : bus'[n] = e
  BY PushFacts
<1>8. e.kind # "Unknown"
  BY <1>7 DEF Clean, Unsure
<1>9. ~Unsure
  BY <1>3, <1>5, <1>6 DEF Clean, Unsure
<1> QED BY <1>4, <1>5, <1>8, <1>9 DEF Adds, Clean

\* What was published without loss is the next event of the hub.
LEMMA PublishAdds ==
    ASSUME Typed, NEW e \in Event, publish(e), skipped' = 0, hub_open
    PROVE  skipped = 0 /\ hub' = Append(hub, e)
<1>1. skipped \in Nat
  BY DEF Typed
<1>2. DropsOne(hub, HubCapacity) \in {0, 1} /\ skipped' = skipped + DropsOne(hub, HubCapacity)
  BY DEF DropsOne, publish
<1>3. DropsOne(hub, HubCapacity) = 0 /\ skipped = 0
  BY <1>1, <1>2
<1> QED BY <1>3 DEF DropsOne, BusAfter, publish

\* A step after which nothing is lost moves the listed changes on, or adds one.
LEMMA StepMoves ==
    ASSUME IInv, Next, Clean'
    PROVE  /\ Clean
           /\ \/ Moves
              \/ Adds(OtherEvent) /\ UNCHANGED phone
              \/ \E k \in Kinds, i \in Ids, typed \in BOOLEAN, candidates \in Candidates :
                    LibraryChanges(k, i, typed, candidates)
<1>0. Typed /\ Versions
  BY DEF IInv
<1>1. ASSUME NEW k \in Kinds, NEW i \in Ids, NEW typed \in BOOLEAN, NEW candidates \in Candidates,
             LibraryChanges(k, i, typed, candidates)
      PROVE  Clean
  <2>1. PICK e \in Event : Push(e)
    BY <1>0, <1>1, LibraryFacts
  <2> QED BY <1>0, <2>1, PushAdds
<1>2. ASSUME OtherPush PROVE Clean /\ Adds(OtherEvent) /\ UNCHANGED phone
  <2>1. OtherEvent \in Event /\ Push(OtherEvent) /\ phone' = phone
    BY <1>2 DEF OtherPush, Event
  <2> QED BY <1>0, <2>1, PushAdds
<1>3. ~BridgeLagged /\ ~HubCloses /\ ~SubLagged /\ ~SubClosed
  <2>1. warned' # TRUE /\ hub_open'
    BY DEF Clean, Unsure
  <2>2. ~BridgeLagged /\ ~HubCloses /\ ~SubLagged
    BY <2>1 DEF BridgeLagged, HubCloses, SubLagged
  <2>3. ~SubClosed
    BY <2>1 DEF SubClosed
  <2> QED BY <2>2, <2>3
<1>4. ASSUME BridgeReceives PROVE Clean /\ Moves
  <2>1. /\ bus # <<>> /\ bus' = Tail(bus) /\ bridge'.event = Head(bus) /\ bridge.event = NoEvent
        /\ UNCHANGED <<phone, hub, seen, log, missed, warned, skipped, hub_open>>
    BY <1>0, <1>4 DEF BridgeReceives, Typed, subscriber
  <2>2. /\ Head(bus) = bus[1]
        /\ \A m \in DOMAIN bus : m = 1 \/ (m - 1 \in DOMAIN bus' /\ bus'[m - 1] = bus[m])
    BY <1>0, <2>1, TailFacts DEF Typed
  <2>3. NoEvent.kind # "Unknown"
    BY DEF NoEvent
  <2>4. ~Unsure
    BY <2>1, <2>2, <2>3 DEF Clean, Unsure
  <2> QED BY <2>1, <2>4 DEF Clean, Moves
<1>5. ASSUME BridgeClears \/ BridgeEnds \/ CloseStep \/ \E r \in Readers : ReaderStep(r)
      PROVE  Clean /\ Moves
  <2>1. UNCHANGED <<phone, bus, bridge.event, hub, seen, log, missed, warned, skipped, hub_open>>
    <3>1. CASE BridgeClears
      BY <1>0, <3>1 DEF BridgeClears, subscriber, Typed
    <3>2. CASE BridgeEnds
      BY <1>0, <3>2 DEF BridgeEnds, subscriber, Typed
    <3>3. CASE CloseStep
      BY <3>3 DEF CloseStep, SessionRemoved, ClientClosed, invalidate_bump, invalidate_clear,
                  subscriber, buses
    <3>4. ASSUME NEW r \in Readers, ReaderStep(r)
          PROVE  UNCHANGED <<phone, bus, bridge.event, hub, seen, log, missed, warned, skipped,
                             hub_open>>
      BY <3>4 DEF ReaderStep, WalkBegins, PageHit, PageMiss, PhoneAnswers, FetchFails,
                  PageInserts, subscriber, buses
    <3> QED BY <1>5, <3>1, <3>2, <3>3, <3>4
  <2> QED BY <2>1 DEF Clean, Unsure, Moves
<1>6. ASSUME BridgePublishes PROVE Clean /\ Moves
  <2>1. /\ publish(bridge_client_event(bridge.event))
        /\ warned' = (warned \/ bridge.event.kind = "Unknown")
        /\ bridge'.event = NoEvent
        /\ UNCHANGED <<phone, bus, missed, seen, log, hub_open>>
    BY <1>6 DEF BridgePublishes
  <2>2. ~warned /\ bridge.event.kind # "Unknown" /\ skipped' = 0 /\ hub_open
    BY <2>1 DEF Clean, Unsure
  <2>3. bridge_client_event(bridge.event) = bridge.event /\ bridge.event \in Event
    BY <1>0, <2>2 DEF bridge_client_event, Typed
  <2>4. skipped = 0 /\ hub' = Append(hub, bridge.event)
    BY <1>0, <2>1, <2>2, <2>3, PublishAdds
  <2>5. ~Unsure
    BY <2>1, <2>2 DEF Clean, Unsure
  <2> QED BY <2>1, <2>2, <2>4, <2>5 DEF Clean, Moves
<1>7. ASSUME SubReceives PROVE Clean /\ Moves
  <2>1. UNCHANGED <<phone, bus, bridge, missed, warned, skipped, hub_open>>
    BY <1>7 DEF SubReceives, buses
  <2>2. Clean
    BY <2>1 DEF Clean, Unsure
  <2> QED BY <1>7, <2>1, <2>2 DEF SubReceives, Moves
<1> QED BY <1>1, <1>2, <1>3, <1>4, <1>5, <1>6, <1>7 DEF Next, BridgeStep, SubStep

\* Appending, and taking the oldest, keep a channel in order.
LEMMA AppendOrder ==
    ASSUME NEW q \in Seq(Event), NEW e \in Event, NEW z, z = Append(q, e)
    PROVE  /\ z \in Seq(Event) /\ Range(z) = Range(q) \cup {e}
           /\ \A k \in Kinds : \A v :
                Ahead(q, k, v) /\ (Change(e, k) => v < e.ver) => Ahead(z, k, v)
           /\ \A k \in Kinds :
                Rising(q, k) /\ (\A n \in DOMAIN q : Change(e, k) /\ Change(q[n], k) => q[n].ver < e.ver)
                    => Rising(z, k)
<1>1. /\ z \in Seq(Event) /\ DOMAIN q = 1..Len(q) /\ Len(q) \in Nat /\ DOMAIN z = 1..(Len(q) + 1)
      /\ \A n \in DOMAIN q : z[n] = q[n]
      /\ z[Len(q) + 1] = e
  OBVIOUS
<1>2. \A n \in DOMAIN z : (n \in DOMAIN q /\ z[n] = q[n]) \/ (n = Len(q) + 1 /\ z[n] = e)
  BY <1>1
<1>3. \A n \in DOMAIN q : n \in DOMAIN z /\ z[n] = q[n] /\ n \in Nat /\ n <= Len(q)
  BY <1>1
<1>4. Len(q) + 1 \in DOMAIN z
  BY <1>1
<1>5. Range(z) = Range(q) \cup {e}
  BY <1>1, <1>2, <1>3, <1>4 DEF Range
<1>6. ASSUME NEW k \in Kinds, NEW v, Ahead(q, k, v), Change(e, k) => v < e.ver PROVE Ahead(z, k, v)
  BY <1>2, <1>6 DEF Ahead
<1>7. ASSUME NEW k \in Kinds, Rising(q, k),
             \A n \in DOMAIN q : Change(e, k) /\ Change(q[n], k) => q[n].ver < e.ver
      PROVE  Rising(z, k)
  <2> SUFFICES ASSUME NEW m \in DOMAIN z, NEW n \in DOMAIN z, m < n, Change(z[m], k),
                      Change(z[n], k)
               PROVE  z[m].ver < z[n].ver
    BY DEF Rising
  <2>1. m \in DOMAIN q
    BY <1>1
  <2>2. CASE n \in DOMAIN q
    BY <1>3, <1>7, <2>1, <2>2 DEF Rising
  <2>3. CASE n = Len(q) + 1 /\ z[n] = e
    BY <1>3, <1>7, <2>1, <2>3
  <2> QED BY <1>2, <2>2, <2>3
<1> QED BY <1>1, <1>5, <1>6, <1>7

LEMMA TailOrder ==
    ASSUME NEW q \in Seq(Event), q # <<>>, NEW z, z = Tail(q)
    PROVE  /\ z \in Seq(Event) /\ Head(q) \in Event /\ Head(q) \in Range(q)
           /\ Range(q) = Range(z) \cup {Head(q)}
           /\ \A k \in Kinds : \A v : Ahead(q, k, v) => Ahead(z, k, v)
           /\ \A k \in Kinds :
                Rising(q, k) => /\ Rising(z, k)
                                /\ Change(Head(q), k) => Ahead(z, k, Head(q).ver)
<1>1. /\ z \in Seq(Event)
      /\ 1 \in DOMAIN q /\ Head(q) = q[1] /\ Head(q) \in Event
      /\ \A n \in DOMAIN z : n + 1 \in DOMAIN q /\ z[n] = q[n + 1]
      /\ \A m \in DOMAIN q : m = 1 \/ (m - 1 \in DOMAIN z /\ z[m - 1] = q[m])
  BY TailFacts
<1>2. \A n \in DOMAIN z : n \in Nat \ {0}
  BY <1>1
<1>3. Range(q) = Range(z) \cup {Head(q)} /\ Head(q) \in Range(q)
  <2>1. Head(q) \in Range(q)
    BY <1>1 DEF Range
  <2>2. \A x \in Range(z) : x \in Range(q)
    BY <1>1 DEF Range
  <2>3. \A x \in Range(q) : x = Head(q) \/ x \in Range(z)
    BY <1>1 DEF Range
  <2> QED BY <2>1, <2>2, <2>3
<1>4. ASSUME NEW k \in Kinds, NEW v, Ahead(q, k, v) PROVE Ahead(z, k, v)
  BY <1>1, <1>4 DEF Ahead
<1>5. ASSUME NEW k \in Kinds, Rising(q, k) PROVE Rising(z, k)
  <2> SUFFICES ASSUME NEW m \in DOMAIN z, NEW n \in DOMAIN z, m < n, Change(z[m], k),
                      Change(z[n], k)
               PROVE  z[m].ver < z[n].ver
    BY DEF Rising
  <2>1. m + 1 < n + 1 /\ m + 1 \in DOMAIN q /\ n + 1 \in DOMAIN q
    BY <1>1, <1>2
  <2> QED BY <1>1, <1>5, <2>1 DEF Rising
<1>6. ASSUME NEW k \in Kinds, Rising(q, k), Change(Head(q), k) PROVE Ahead(z, k, Head(q).ver)
  <2> SUFFICES ASSUME NEW n \in DOMAIN z, Change(z[n], k) PROVE Head(q).ver < z[n].ver
    BY DEF Ahead
  <2>1. 1 < n + 1 /\ n + 1 \in DOMAIN q
    BY <1>1, <1>2
  <2> QED BY <1>1, <1>6, <2>1 DEF Rising
<1> QED BY <1>1, <1>3, <1>4, <1>5, <1>6

\* Moving the changes on keeps their order and loses none.
LEMMA MovesKeep ==
    ASSUME Typed, log \in [Kinds -> Seq(Event)], Moves, \A k \in Kinds : InOrder(k)
    PROVE  /\ UNCHANGED phone
           /\ \A k \in Kinds : InOrder(k)' /\ Listed(k)' = Listed(k)
<1>1. /\ bus \in Seq(Event) /\ hub \in Seq(Event) /\ bridge.event \in Event
      /\ seen \in [Kinds -> 0..MaxPushes]
  BY DEF Typed
<1>2. \A k \in Kinds : ~Change(NoEvent, k)
  BY DEF Change, NoEvent
<1>3. CASE UNCHANGED <<phone, bus, bridge.event, hub, seen, log>>
  BY <1>3 DEF InOrder, Rising, Ahead, Listed
<1>4. CASE /\ bus # <<>> /\ bridge.event = NoEvent
           /\ bus' = Tail(bus) /\ bridge'.event = Head(bus)
           /\ UNCHANGED <<phone, hub, seen, log>>
  <2> DEFINE e == Head(bus)
  <2>1. /\ bus' \in Seq(Event) /\ e \in Event /\ Range(bus) = Range(bus') \cup {e}
        /\ \A k \in Kinds : \A v : Ahead(bus, k, v) => Ahead(bus', k, v)
        /\ \A k \in Kinds : Rising(bus, k) => /\ Rising(bus', k)
                                              /\ Change(e, k) => Ahead(bus', k, e.ver)
    BY <1>1, <1>4, TailOrder
  <2>2. \A k \in Kinds : \A v : Ahead(bus, k, v) /\ Change(e, k) => v < e.ver
    BY <1>1, <1>4, TailFacts DEF Ahead
  <2>3. bridge'.event = e
    BY <1>4
  <2> HIDE DEF e
  <2>4. ASSUME NEW k \in Kinds PROVE InOrder(k)'
    <3>1. InOrder(k)
      OBVIOUS
    <3>2. /\ \A n \in DOMAIN log'[k] : Change(log'[k][n], k) /\ log'[k][n].ver <= seen'[k]
          /\ Rising(log'[k], k) /\ Rising(hub', k) /\ Rising(bus', k)
          /\ Ahead(hub', k, seen'[k]) /\ Ahead(bus', k, seen'[k])
          /\ \A n \in DOMAIN hub' : Change(hub'[n], k) => Ahead(bus', k, hub'[n].ver)
      BY <1>4, <2>1, <3>1, Zenon DEF InOrder
    <3>3. Change(e, k) => /\ seen'[k] < e.ver /\ Ahead(bus', k, e.ver)
                          /\ \A n \in DOMAIN hub' : Change(hub'[n], k) => hub'[n].ver < e.ver
      BY <1>4, <2>1, <2>2, <3>1 DEF InOrder
    <3> HIDE DEF Moves
    <3> QED BY <2>3, <3>2, <3>3 DEF InOrder, Rising, Ahead, Change
  <2>5. ASSUME NEW k \in Kinds PROVE Listed(k)' = Listed(k)
    <3>1. Listed(k)' = {c \in Range(log[k]) \cup Range(hub) \cup {e} \cup Range(bus') : Change(c, k)}
      BY <1>4, <2>3 DEF Listed, Change
    <3>2. Listed(k) = {c \in Range(log[k]) \cup Range(hub) \cup {NoEvent} \cup Range(bus) :
                            Change(c, k)}
      BY <1>4 DEF Listed
    <3> QED BY <1>2, <2>1, <3>1, <3>2
  <2> QED BY <1>4, <2>4, <2>5
<1>5. CASE /\ hub' = Append(hub, bridge.event) /\ bridge'.event = NoEvent
           /\ UNCHANGED <<phone, bus, seen, log>>
  <2> DEFINE e == bridge.event
  <2>1. /\ hub' \in Seq(Event) /\ Range(hub') = Range(hub) \cup {e}
        /\ \A k \in Kinds : \A v : Ahead(hub, k, v) /\ (Change(e, k) => v < e.ver) => Ahead(hub', k, v)
        /\ \A k \in Kinds :
             Rising(hub, k)
                /\ (\A n \in DOMAIN hub : Change(e, k) /\ Change(hub[n], k) => hub[n].ver < e.ver)
                => Rising(hub', k)
    BY <1>1, <1>5, AppendOrder, Zenon
  <2>2. \A n \in DOMAIN hub' : hub'[n] = e \/ \E m \in DOMAIN hub : hub'[n] = hub[m]
    BY <1>1, <1>5
  <2>3. bridge'.event = NoEvent
    BY <1>5
  <2>4. ASSUME NEW k \in Kinds PROVE InOrder(k)'
    <3>1. InOrder(k)
      OBVIOUS
    <3>2. /\ \A n \in DOMAIN log'[k] : Change(log'[k][n], k) /\ log'[k][n].ver <= seen'[k]
          /\ Rising(log'[k], k) /\ Rising(bus', k)
          /\ Ahead(bus', k, seen'[k])
      BY <1>5, <3>1, Zenon DEF InOrder
    <3>3. Rising(hub', k) /\ Ahead(hub', k, seen'[k])
      BY <1>5, <2>1, <3>1 DEF InOrder
    <3>4. \A n \in DOMAIN hub' : Change(hub'[n], k) => Ahead(bus', k, hub'[n].ver)
      <4> SUFFICES ASSUME NEW n \in DOMAIN hub', Change(hub'[n], k)
                   PROVE  Ahead(bus', k, hub'[n].ver)
        OBVIOUS
      <4> QED BY <1>5, <2>2, <3>1 DEF InOrder
    <3>5. ~Change(bridge'.event, k)
      BY <1>2, <2>3
    <3> HIDE DEF Moves
    <3> QED BY <3>2, <3>3, <3>4, <3>5 DEF InOrder, Rising, Ahead, Change
  <2>5. ASSUME NEW k \in Kinds PROVE Listed(k)' = Listed(k)
    <3>1. Listed(k)' = {c \in Range(log[k]) \cup Range(hub') \cup {NoEvent} \cup Range(bus) :
                            Change(c, k)}
      BY <1>5, <2>3 DEF Listed, Change
    <3> QED BY <1>2, <2>1, <3>1 DEF Listed
  <2> QED BY <1>5, <2>4, <2>5
<1>6. CASE /\ hub # <<>> /\ hub' = Tail(hub)
           /\ IF Head(hub).kind = "MediaLibraryChanged"
              THEN /\ seen' = [seen EXCEPT ![Head(hub).lib] = Head(hub).ver]
                   /\ log' = [log EXCEPT ![Head(hub).lib] = Append(@, Head(hub))]
              ELSE UNCHANGED <<seen, log>>
           /\ UNCHANGED <<phone, bus, bridge.event>>
  <2> DEFINE e == Head(hub)
  <2>1. /\ hub' \in Seq(Event) /\ e \in Event /\ Range(hub) = Range(hub') \cup {e}
        /\ \A k \in Kinds : \A v : Ahead(hub, k, v) => Ahead(hub', k, v)
        /\ \A k \in Kinds : Rising(hub, k) => /\ Rising(hub', k)
                                              /\ Change(e, k) => Ahead(hub', k, e.ver)
    BY <1>1, <1>6, TailOrder
  <2>2. /\ 1 \in DOMAIN hub /\ e = hub[1]
        /\ \A n \in DOMAIN hub' : n + 1 \in DOMAIN hub /\ hub'[n] = hub[n + 1]
    BY <1>1, <1>6, TailFacts
  <2>3. /\ hub' = Tail(hub) /\ UNCHANGED <<phone, bus, bridge.event>>
        /\ e.kind = "MediaLibraryChanged" =>
                /\ seen' = [seen EXCEPT ![e.lib] = e.ver]
                /\ log' = [log EXCEPT ![e.lib] = Append(@, e)]
        /\ e.kind # "MediaLibraryChanged" => seen' = seen /\ log' = log
    BY <1>6
  <2>4. e.kind = "MediaLibraryChanged" => e.lib \in Kinds /\ e.ver \in 0..MaxPushes
    BY <2>1 DEF Event, NoEvent, OtherEvent, Warning
  <2> HIDE DEF e
  <2>5. \A k \in Kinds : IF Change(e, k) THEN seen'[k] = e.ver /\ log'[k] = Append(log[k], e)
                                         ELSE seen'[k] = seen[k] /\ log'[k] = log[k]
    BY <1>1, <2>3, <2>4 DEF Change
  <2>6. ASSUME NEW k \in Kinds, Change(e, k)
        PROVE  InOrder(k)' /\ Range(log'[k]) = Range(log[k]) \cup {e}
    <3>1. InOrder(k) /\ log[k] \in Seq(Event)
      OBVIOUS
    <3>2. seen'[k] = e.ver /\ log'[k] = Append(log[k], e)
      BY <2>5, <2>6
    <3>3. seen[k] < e.ver /\ seen[k] \in Nat /\ e.ver \in Nat
      BY <1>1, <2>2, <2>4, <2>6, <3>1, MediaEventsAssumption DEF InOrder, Ahead, Change
    <3>4. \A n \in DOMAIN log[k] :
                Change(log[k][n], k) /\ log[k][n].ver < e.ver /\ log[k][n].ver <= e.ver
      <4> SUFFICES ASSUME NEW n \in DOMAIN log[k]
                   PROVE  Change(log[k][n], k) /\ log[k][n].ver < e.ver /\ log[k][n].ver <= e.ver
        OBVIOUS
      <4>1. Change(log[k][n], k) /\ log[k][n].ver <= seen[k] /\ log[k][n] \in Event
        BY <3>1 DEF InOrder
      <4>2. log[k][n].ver \in Nat
        BY <4>1, MediaEventsAssumption DEF Event, Change, NoEvent, OtherEvent, Warning
      <4> QED BY <3>3, <4>1, <4>2
    <3>5. Rising(log'[k], k) /\ Range(log'[k]) = Range(log[k]) \cup {e}
      BY <2>1, <3>1, <3>2, <3>4, AppendOrder DEF InOrder
    <3>6. \A n \in DOMAIN log'[k] : Change(log'[k][n], k) /\ log'[k][n].ver <= seen'[k]
      <4> SUFFICES ASSUME NEW n \in DOMAIN log'[k]
                   PROVE  Change(log'[k][n], k) /\ log'[k][n].ver <= e.ver
        BY <3>2
      <4>1. log'[k][n] = e \/ (n \in DOMAIN log[k] /\ log'[k][n] = log[k][n])
        BY <3>1, <3>2
      <4> QED BY <2>6, <3>3, <3>4, <4>1
    <3>7. /\ Rising(hub', k) /\ Rising(bus', k)
          /\ Ahead(hub', k, seen'[k]) /\ Ahead(bus', k, seen'[k])
      BY <2>1, <2>2, <2>3, <2>6, <3>1, <3>2 DEF InOrder
    <3>8. \A n \in DOMAIN hub' : Change(hub'[n], k) => Ahead(bus', k, hub'[n].ver)
      BY <2>2, <2>3, <3>1 DEF InOrder
    <3>9. Change(bridge'.event, k) =>
              /\ seen'[k] < bridge'.event.ver /\ Ahead(bus', k, bridge'.event.ver)
              /\ \A n \in DOMAIN hub' : Change(hub'[n], k) => hub'[n].ver < bridge'.event.ver
      <4>1. bridge'.event = bridge.event
        BY <2>3
      <4> QED BY <2>2, <2>3, <2>6, <3>1, <3>2, <4>1 DEF InOrder
    <3> HIDE DEF Moves
    <3> QED BY <3>5, <3>6, <3>7, <3>8, <3>9 DEF InOrder, Rising, Ahead, Change
  <2>7. ASSUME NEW k \in Kinds, ~Change(e, k) PROVE InOrder(k)'
    <3>1. InOrder(k) /\ seen'[k] = seen[k] /\ log'[k] = log[k] /\ bus' = bus
          /\ bridge'.event = bridge.event
      BY <2>3, <2>5, <2>7
    <3>2. /\ \A n \in DOMAIN log'[k] : Change(log'[k][n], k) /\ log'[k][n].ver <= seen'[k]
          /\ Rising(log'[k], k) /\ Rising(hub', k) /\ Rising(bus', k)
          /\ Ahead(hub', k, seen'[k]) /\ Ahead(bus', k, seen'[k])
      BY <2>1, <3>1, Zenon DEF InOrder
    <3>3. \A n \in DOMAIN hub' : Change(hub'[n], k) => Ahead(bus', k, hub'[n].ver)
      BY <2>2, <3>1 DEF InOrder
    <3>4. Change(bridge'.event, k) =>
              /\ seen'[k] < bridge'.event.ver /\ Ahead(bus', k, bridge'.event.ver)
              /\ \A n \in DOMAIN hub' : Change(hub'[n], k) => hub'[n].ver < bridge'.event.ver
      BY <2>2, <3>1 DEF InOrder
    <3> HIDE DEF Moves
    <3> QED BY <3>2, <3>3, <3>4 DEF InOrder, Rising, Ahead, Change
  <2>8. ASSUME NEW k \in Kinds PROVE Listed(k)' = Listed(k)
    <3>1. Listed(k)' = {c \in Range(log'[k]) \cup Range(hub') \cup {bridge.event} \cup Range(bus) :
                            Change(c, k)}
      BY <2>3 DEF Listed, Change
    <3>2. CASE Change(e, k)
      BY <2>1, <2>6, <3>1, <3>2 DEF Listed
    <3>3. CASE ~Change(e, k)
      BY <2>1, <2>5, <3>1, <3>3 DEF Listed
    <3> QED BY <3>2, <3>3
  <2> QED BY <2>3, <2>6, <2>7, <2>8
<1> QED BY <1>3, <1>4, <1>5, <1>6 DEF Moves

\* No listed change is newer than the phone's library.
LEMMA ListedVersions ==
    ASSUME Typed, Versions, log \in [Kinds -> Seq(Event)], NEW k \in Kinds, InOrder(k),
           NEW e \in Listed(k)
    PROVE  e \in Event /\ Change(e, k) /\ e.ver \in Nat /\ e.ver <= phone[k].ver
<1>1. /\ bus \in Seq(Event) /\ hub \in Seq(Event) /\ log[k] \in Seq(Event) /\ bridge.event \in Event
      /\ seen[k] \in 0..MaxPushes /\ phone[k].ver \in 0..MaxPushes /\ MaxPushes \in Nat
  BY MediaEventsAssumption DEF Typed, Library
<1>2. Change(e, k) /\ e \in Range(log[k]) \cup Range(hub) \cup {bridge.event} \cup Range(bus)
  BY DEF Listed
<1>3. e \in Event
  BY <1>1, <1>2 DEF Range
<1>4. e.ver \in Nat
  BY <1>2, <1>3, MediaEventsAssumption DEF Event, Change, NoEvent, OtherEvent, Warning
<1>5. e \in Range(log[k]) => e.ver <= phone[k].ver
  <2>1. e \in Range(log[k]) => e.ver <= seen[k]
    BY DEF Range, InOrder
  <2>2. seen[k] <= phone[k].ver
    BY DEF Versions
  <2> QED BY <1>1, <1>4, <2>1, <2>2
<1>6. e \notin Range(log[k]) => e.ver <= phone[k].ver
  BY <1>2 DEF Versions, Range
<1> QED BY <1>2, <1>3, <1>4, <1>5, <1>6

\* A new change is behind all others.
LEMMA AddsKeep ==
    ASSUME Typed, Versions, log \in [Kinds -> Seq(Event)], \A k \in Kinds : InOrder(k),
           NEW e \in Event, Adds(e), \A k \in Kinds : Change(e, k) => e.ver = phone[k].ver + 1
    PROVE  \A k \in Kinds :
                /\ InOrder(k)'
                /\ Listed(k)' = Listed(k) \cup (IF Change(e, k) THEN {e} ELSE {})
<1>1. /\ bus \in Seq(Event) /\ hub \in Seq(Event) /\ bridge.event \in Event
      /\ seen \in [Kinds -> 0..MaxPushes] /\ MaxPushes \in Nat
  BY MediaEventsAssumption DEF Typed
<1>2. bus' = Append(bus, e) /\ UNCHANGED <<bridge, hub, seen, log>>
  BY DEF Adds
<1>3. /\ bus' \in Seq(Event) /\ Range(bus') = Range(bus) \cup {e}
      /\ \A k \in Kinds : \A v : Ahead(bus, k, v) /\ (Change(e, k) => v < e.ver) => Ahead(bus', k, v)
      /\ \A k \in Kinds :
           Rising(bus, k)
              /\ (\A n \in DOMAIN bus : Change(e, k) /\ Change(bus[n], k) => bus[n].ver < e.ver)
              => Rising(bus', k)
  BY <1>1, <1>2, AppendOrder, Zenon
<1>4. ASSUME NEW k \in Kinds, Change(e, k)
      PROVE  seen[k] < e.ver /\ \A c \in Listed(k) : c.ver < e.ver
  <2>1. phone[k].ver \in Nat /\ e.ver = phone[k].ver + 1 /\ seen[k] <= phone[k].ver
        /\ seen[k] \in Nat
    BY <1>1, <1>4 DEF Typed, Library, Versions
  <2>2. ASSUME NEW c \in Listed(k) PROVE c.ver < e.ver
    <3>1. c.ver \in Nat /\ c.ver <= phone[k].ver
      BY ListedVersions
    <3> QED BY <2>1, <3>1
  <2> QED BY <2>1, <2>2
<1>5. ASSUME NEW k \in Kinds PROVE InOrder(k)'
  <2>1. InOrder(k)
    OBVIOUS
  <2>2. /\ \A n \in DOMAIN bus : Change(bus[n], k) => bus[n] \in Listed(k)
        /\ \A n \in DOMAIN hub : Change(hub[n], k) => hub[n] \in Listed(k)
        /\ Change(bridge.event, k) => bridge.event \in Listed(k)
    BY DEF Listed, Range
  <2>3. Rising(bus', k) /\ Ahead(bus', k, seen[k])
    BY <1>3, <1>4, <2>1, <2>2 DEF InOrder
  <2>4. \A n \in DOMAIN hub : Change(hub[n], k) => Ahead(bus', k, hub[n].ver)
    BY <1>3, <1>4, <2>1, <2>2 DEF InOrder
  <2>5. Change(bridge.event, k) => Ahead(bus', k, bridge.event.ver)
    BY <1>3, <1>4, <2>1, <2>2 DEF InOrder
  <2> QED BY <1>2, <2>1, <2>3, <2>4, <2>5 DEF InOrder, Rising, Ahead, Change
<1>6. ASSUME NEW k \in Kinds
      PROVE  Listed(k)' = Listed(k) \cup (IF Change(e, k) THEN {e} ELSE {})
  <2>1. Listed(k)' = {c \in Range(log[k]) \cup Range(hub) \cup {bridge.event} \cup Range(bus') :
                            Change(c, k)}
    BY <1>2 DEF Listed, Change
  <2> QED BY <1>3, <2>1 DEF Listed
<1> QED BY <1>5, <1>6

\* What is right stays right when neither the phone nor the list changes.
LEMMA SameRight ==
    ASSUME UNCHANGED phone, NEW k \in Kinds, Listed(k)' = Listed(k)
    PROVE  /\ Settled(k) => Settled(k)'
           /\ \A items : Unmoved(k, items) => Unmoved(k, items)'
<1>1. ASSUME NEW i, NEW x PROVE Right(k, i, x)' <=> Right(k, i, x)
  BY DEF Right
<1>2. ASSUME NEW e, NEW i PROVE Leaves(e, i)' <=> Leaves(e, i)
  BY DEF Leaves
<1>3. ASSUME Settled(k) PROVE Settled(k)'
  <2> SUFFICES ASSUME NEW e \in Listed(k), NEW i \in Ids
               PROVE  \/ Leaves(e, i)'
                      \/ \E f \in Listed(k) : e.ver < f.ver /\ ~Leaves(f, i)'
                      \/ \A items \in [Ids -> Nat] : Right(k, i, apply_change(items, e)[i])'
    BY DEF Settled
  <2> QED BY <1>1, <1>2, <1>3 DEF Settled
<1>4. ASSUME NEW items, Unmoved(k, items) PROVE Unmoved(k, items)'
  <2> SUFFICES ASSUME NEW i \in Ids
               PROVE  Right(k, i, items[i])' \/ \E e \in Listed(k) : ~Leaves(e, i)'
    BY DEF Unmoved
  <2> QED BY <1>1, <1>2, <1>4 DEF Unmoved
<1> QED BY <1>3, <1>4

\* A change of the phone's library is made up for by its event.
LEMMA PushKeepsRight ==
    ASSUME Typed, Versions, log \in [Kinds -> Seq(Event)], Clean',
           \A j \in Kinds : InOrder(j) /\ Settled(j),
           NEW k \in Kinds, NEW i \in Ids, NEW typed, NEW candidates,
           LibraryChanges(k, i, typed, candidates)
    PROVE  /\ UNCHANGED <<log, cache, reader>>
           /\ \A j \in Kinds : /\ InOrder(j)' /\ Settled(j)'
                               /\ \A items : Unmoved(j, items) => Unmoved(j, items)'
<1> DEFINE Sets(c, x) == \A items \in [Ids -> Nat] : apply_change(items, c) = [items EXCEPT ![i] = x]
           Keeps(c) == \A items \in [Ids -> Nat] : apply_change(items, c) = items
<1>1. PICK e \in Event, x \in Nat :
                /\ Push(e)
                /\ phone' = [phone EXCEPT ![k] = [items |-> [@.items EXCEPT ![i] = x],
                                                  ver |-> phone[k].ver + 1]]
                /\ \A j \in Kinds : Change(e, j) => j = k
                /\ \/ e.kind = "Unknown"
                   \/ /\ Change(e, k) /\ e.ver = phone[k].ver + 1
                      /\ Sets(e, x) \/ (k = "Audio" /\ x = Absent /\ Keeps(e))
  BY ChangeContents
<1>2. Adds(e) /\ e.kind # "Unknown"
  BY <1>1, PushAdds
<1>3. /\ Change(e, k) /\ e.ver = phone[k].ver + 1
      /\ Sets(e, x) \/ (k = "Audio" /\ x = Absent /\ Keeps(e))
      /\ \A j \in Kinds : Change(e, j) => j = k
  BY <1>1, <1>2
<1>4. \A j \in Kinds : InOrder(j)' /\ Listed(j)' = Listed(j) \cup (IF Change(e, j) THEN {e} ELSE {})
  BY <1>2, <1>3, AddsKeep
<1>5. phone[k] \in Library /\ phone \in [Kinds -> Library] /\ phone[k].ver \in Nat
  BY DEF Typed, Library
<1>6. /\ phone'[k].items[i] = x
      /\ \A j \in Ids \ {i} : phone'[k].items[j] = phone[k].items[j]
      /\ \A j \in Kinds \ {k} : phone'[j] = phone[j]
  BY <1>1, <1>5 DEF Library
<1>7. Listed(k)' = Listed(k) \cup {e} /\ \A j \in Kinds \ {k} : Listed(j)' = Listed(j)
  BY <1>3, <1>4
<1>8. \A c, j : Leaves(c, j)' <=> Leaves(c, j)
  <2> SUFFICES ASSUME NEW c, NEW j PROVE Leaves(c, j)' <=> Leaves(c, j)
    OBVIOUS
  <2> QED BY DEF Leaves
<1>9. Sets(e, x) => ~Leaves(e, i) /\ \A j \in Ids \ {i} : Leaves(e, j)
  <2> SUFFICES ASSUME Sets(e, x) PROVE ~Leaves(e, i) /\ \A j \in Ids \ {i} : Leaves(e, j)
    OBVIOUS
  <2> DEFINE other == [j \in Ids |-> x + 1]
  <2>1. other \in [Ids -> Nat] /\ other[i] # x /\ [other EXCEPT ![i] = x][i] = x
    OBVIOUS
  <2>2. apply_change(other, e)[i] # other[i]
    BY <2>1
  <2>3. ~Leaves(e, i)
    <3> HIDE DEF other
    <3> QED BY <2>1, <2>2 DEF Leaves
  <2>4. \A j \in Ids \ {i} : Leaves(e, j)
    BY DEF Leaves
  <2> QED BY <2>3, <2>4
<1>10. Sets(e, x) => \A items \in [Ids -> Nat] : apply_change(items, e)[i] = x
  OBVIOUS
<1>11. Keeps(e) => \A j \in Ids : Leaves(e, j)
  BY DEF Leaves
<1> HIDE DEF Sets, Keeps
<1>12. \A j \in Ids \ {i} : \A y : Right(k, j, y)' <=> Right(k, j, y)
  <2> SUFFICES ASSUME NEW j \in Ids \ {i}, NEW y PROVE Right(k, j, y)' <=> Right(k, j, y)
    OBVIOUS
  <2> QED BY <1>6 DEF Right
<1>13. ~Sets(e, x) => \A y : Right(k, i, y)'
  <2> SUFFICES ASSUME ~Sets(e, x), NEW y PROVE Right(k, i, y)'
    OBVIOUS
  <2> QED BY <1>3, <1>6 DEF Right
<1>14. Right(k, i, x)'
  BY <1>6 DEF Right
<1>15. ASSUME NEW c \in Listed(k) PROVE c.ver < e.ver
  <2>1. c.ver \in Nat /\ c.ver <= phone[k].ver
    BY ListedVersions
  <2> QED BY <1>3, <1>5, <2>1
<1>16. Settled(k)'
  <2> SUFFICES ASSUME NEW c \in Listed(k) \cup {e}, NEW j \in Ids
               PROVE  \/ Leaves(c, j)'
                      \/ \E f \in Listed(k) \cup {e} : c.ver < f.ver /\ ~Leaves(f, j)'
                      \/ \A items \in [Ids -> Nat] : Right(k, j, apply_change(items, c)[j])'
    BY <1>7 DEF Settled
  <2>1. CASE c = e
    <3>1. CASE j # i
      BY <1>3, <1>8, <1>9, <1>11, <2>1, <3>1
    <3>2. CASE j = i
      BY <1>10, <1>13, <1>14, <2>1, <3>2
    <3> QED BY <3>1, <3>2
  <2>2. CASE c \in Listed(k)
    <3>1. CASE j # i
      <4>1. \/ Leaves(c, j)
            \/ \E f \in Listed(k) : c.ver < f.ver /\ ~Leaves(f, j)
            \/ \A items \in [Ids -> Nat] : Right(k, j, apply_change(items, c)[j])
        BY <2>2 DEF Settled
      <4> QED BY <1>8, <1>12, <3>1, <4>1
    <3>2. CASE j = i
      BY <1>8, <1>9, <1>13, <1>15, <2>2, <3>2
    <3> QED BY <3>1, <3>2
  <2> QED BY <2>1, <2>2
<1>17. ASSUME NEW items, Unmoved(k, items) PROVE Unmoved(k, items)'
  <2> SUFFICES ASSUME NEW j \in Ids
               PROVE  Right(k, j, items[j])' \/ \E c \in Listed(k) \cup {e} : ~Leaves(c, j)'
    BY <1>7 DEF Unmoved
  <2>1. CASE j # i
    BY <1>8, <1>12, <1>17, <2>1 DEF Unmoved
  <2>2. CASE j = i
    BY <1>8, <1>9, <1>13, <2>2
  <2> QED BY <2>1, <2>2
<1>18. ASSUME NEW j \in Kinds \ {k}
       PROVE  Settled(j)' /\ \A items : Unmoved(j, items) => Unmoved(j, items)'
  <2>1. \A l, y : Right(j, l, y)' <=> Right(j, l, y)
    <3> SUFFICES ASSUME NEW l, NEW y PROVE Right(j, l, y)' <=> Right(j, l, y)
      OBVIOUS
    <3> QED BY <1>6 DEF Right
  <2>2. Listed(j)' = Listed(j) /\ Settled(j)
    BY <1>7
  <2>3. Settled(j)'
    <3> SUFFICES ASSUME NEW c \in Listed(j), NEW l \in Ids
                 PROVE  \/ Leaves(c, l)'
                        \/ \E f \in Listed(j) : c.ver < f.ver /\ ~Leaves(f, l)'
                        \/ \A items \in [Ids -> Nat] : Right(j, l, apply_change(items, c)[l])'
      BY <2>2 DEF Settled
    <3> QED BY <1>8, <2>1, <2>2 DEF Settled
  <2>4. ASSUME NEW items, Unmoved(j, items) PROVE Unmoved(j, items)'
    <3> SUFFICES ASSUME NEW l \in Ids
                 PROVE  Right(j, l, items[l])' \/ \E c \in Listed(j) : ~Leaves(c, l)'
      BY <2>2 DEF Unmoved
    <3> QED BY <1>8, <2>1, <2>4 DEF Unmoved
  <2> QED BY <2>3, <2>4
<1>19. UNCHANGED <<log, cache, reader>>
  BY <1>2 DEF Adds
<1> QED BY <1>4, <1>16, <1>17, <1>18, <1>19

-----------------------------------------------------------------------------
\* Where a snapshot comes from: the phone, the cache, or the reader's last page.
LEMMA LibFacts ==
    ASSUME Typed, Walked, NEW r \in Readers, ReaderStep(r)
    PROVE  \/ reader'[r].lib = NoEntry /\ reader'[r].pc # "done"
           \/ /\ reader[r].pc # "new" /\ reader[r].kind \in Kinds /\ reader'[r].kind = reader[r].kind
              /\ \/ reader'[r].lib = reader[r].lib
                 \/ reader'[r].lib = phone[reader[r].kind]
                 \/ reader'[r].lib = cache[reader[r].kind] /\ cache[reader[r].kind] # NoEntry
              /\ reader'[r].pc = "done" => reader'[r].lib # NoEntry
<1>1. reader[r].pc # "new" => reader[r] \in Walk /\ reader[r].kind \in Kinds
  BY DEF Typed, Walk
<1>2. NoEntry \notin Library
  <2>1. NoEntry.ver = -1 /\ MaxPushes \in Nat
    BY MediaEventsAssumption DEF NoEntry
  <2>2. \A l \in Library : l.ver \in 0..MaxPushes
    BY DEF Library
  <2> QED BY <2>1, <2>2
<1>3. ASSUME NEW k \in Kinds, NEW limit \in Limits, WalkBegins(r, k, limit)
      PROVE  reader'[r].lib = NoEntry /\ reader'[r].pc # "done"
  BY <1>3, ReaderFacts
<1>4. ASSUME PageMiss(r) \/ FetchFails(r)
      PROVE  reader[r].pc # "new" /\ reader'[r].kind = reader[r].kind
             /\ reader'[r].lib = reader[r].lib /\ reader'[r].pc # "done"
  <2>1. reader[r].pc # "new" /\ reader'[r].kind = reader[r].kind /\ reader'[r].pc # "done"
    BY <1>4, ReaderFacts DEF PageMiss, FetchFails
  <2>2. reader \in [Readers -> {[pc |-> "new"]} \cup Walk]
    BY DEF Typed
  <2>3. reader'[r].lib = reader[r].lib
    <3>1. CASE PageMiss(r)
      <4> DEFINE pc == IF session = "open" THEN "fetch" ELSE "failed"
                 after == seen[reader[r].kind]
      <4>1. reader' = [reader EXCEPT ![r].pc = pc, ![r].epoch = epoch, ![r].after = after]
        BY <3>1 DEF PageMiss
      <4> HIDE DEF pc, after
      <4> QED BY <1>1, <2>1, <2>2, <4>1 DEF Walk
    <3>2. CASE FetchFails(r)
      BY <1>1, <2>1, <2>2, <3>2 DEF FetchFails, Walk
    <3> QED BY <1>4, <3>1, <3>2
  <2> QED BY <2>1, <2>3, SMTT(30)
<1>5. ASSUME PhoneAnswers(r)
      PROVE  reader[r].pc # "new" /\ reader'[r].kind = reader[r].kind
             /\ reader'[r].lib = phone[reader[r].kind] /\ reader'[r].pc # "done"
  BY <1>5, ReaderFacts
<1>6. ASSUME PageHit(r)
      PROVE  reader[r].pc # "new" /\ reader'[r].kind = reader[r].kind
             /\ reader'[r].lib = cache[reader[r].kind] /\ cache[reader[r].kind] # NoEntry
  <2>1. /\ cache[reader[r].kind] \in Library /\ seen[reader[r].kind] \in Nat /\ Walking(r)
        /\ reader' = Served(r, cache[reader[r].kind], seen[reader[r].kind])
    <3>1. cache[reader[r].kind] \in Library /\ seen[reader[r].kind] \in Nat /\ Walking(r)
      BY <1>6, EntryFacts, SMTT(40)
    <3> QED BY <1>6, <3>1, Zenon DEF PageHit
  <2>2. reader'[r].lib = cache[reader[r].kind] /\ reader'[r].kind = reader[r].kind
    BY <2>1, ServedFacts, Zenon
  <2> QED BY <1>6, <2>2 DEF PageHit
<1>7. ASSUME PageInserts(r)
      PROVE  reader[r].pc # "new" /\ reader'[r].kind = reader[r].kind
             /\ reader'[r].lib = reader[r].lib /\ reader[r].lib # NoEntry
  <2>1. /\ reader[r].lib \in Library /\ reader[r].after \in Nat /\ Walking(r)
        /\ reader' = Served(r, reader[r].lib, reader[r].after)
    BY <1>7, EntryFacts, SMTT(40) DEF PageInserts
  <2>2. reader'[r].lib = reader[r].lib /\ reader'[r].kind = reader[r].kind
    BY <2>1, ServedFacts
  <2> QED BY <1>2, <1>7, <2>1, <2>2 DEF PageInserts
<1> QED BY <1>1, <1>3, <1>4, <1>5, <1>6, <1>7 DEF ReaderStep

\* Every step keeps the log and, as long as nothing is lost, what it stands for.
LEMMA StepLogged ==
    ASSUME IInv, Logged, Next
    PROVE  Logged'
<1>0. /\ Typed /\ Versions /\ Walked
      /\ log \in [Kinds -> Seq(Event)]
      /\ \A r \in Readers : reader[r].pc = "done" => reader[r].lib # NoEntry
  BY DEF IInv, Logged
<1>1. log' \in [Kinds -> Seq(Event)]
  <2>1. CASE SubReceives /\ Head(hub).kind = "MediaLibraryChanged"
    <3>1. Head(hub) \in Event
      BY <1>0, <2>1, TailFacts DEF SubReceives, Typed
    <3>2. PICK j \in Kinds : j = Head(hub).lib
      BY <2>1, <3>1 DEF Event, NoEvent, OtherEvent, Warning
    <3>3. Append(log[j], Head(hub)) \in Seq(Event)
      BY <1>0, <3>1
    <3>4. log' = [log EXCEPT ![j] = Append(log[j], Head(hub))]
      BY <2>1, <3>2 DEF SubReceives
    <3> QED BY <1>0, <3>3, <3>4
  <2>2. CASE SubReceives /\ Head(hub).kind # "MediaLibraryChanged"
    BY <1>0, <2>2 DEF SubReceives
  <2>3. CASE ~SubReceives
    <3>1. ASSUME NEW k \in Kinds, NEW i \in Ids, NEW typed \in BOOLEAN,
                 NEW candidates \in Candidates, LibraryChanges(k, i, typed, candidates)
          PROVE  log' = log
      <4>1. PICK e \in Event : Push(e)
        BY <1>0, <3>1, LibraryFacts
      <4> QED BY <4>1 DEF Push, subscriber
    <3>2. OtherPush => log' = log
      BY DEF OtherPush, Push, subscriber
    <3>3. BridgeStep \/ SubStep \/ HubCloses => log' = log
      BY <2>3 DEF BridgeStep, SubStep, HubCloses, BridgeLagged, BridgeReceives, BridgeClears,
                  BridgePublishes, BridgeEnds, SubLagged, SubClosed, subscriber
    <3>4. CloseStep => log' = log
      BY DEF CloseStep, SessionRemoved, ClientClosed, invalidate_bump, invalidate_clear, subscriber
    <3>5. \A r \in Readers : ReaderStep(r) => log' = log
      BY DEF ReaderStep, WalkBegins, PageHit, PageMiss, PhoneAnswers, FetchFails, PageInserts,
             subscriber
    <3> QED BY <1>0, <3>1, <3>2, <3>3, <3>4, <3>5 DEF Next
  <2> QED BY <2>1, <2>2, <2>3
<1>2. \/ UNCHANGED reader
      \/ \E r \in Readers : ReaderStep(r)
  <2>1. ASSUME NEW k \in Kinds, NEW i \in Ids, NEW typed \in BOOLEAN,
               NEW candidates \in Candidates, LibraryChanges(k, i, typed, candidates)
        PROVE  UNCHANGED reader
    <3>1. PICK e \in Event : Push(e)
      BY <1>0, <2>1, LibraryFacts
    <3> QED BY <3>1 DEF Push
  <2>2. OtherPush \/ BridgeStep \/ SubStep \/ CloseStep \/ HubCloses => UNCHANGED reader
    BY DEF OtherPush, Push, BridgeStep, SubStep, HubCloses, BridgeLagged, BridgeReceives,
           BridgeClears, BridgePublishes, BridgeEnds, SubLagged, SubReceives, SubClosed,
           CloseStep, SessionRemoved, ClientClosed, invalidate_bump, invalidate_clear
  <2> QED BY <2>1, <2>2 DEF Next
<1>3. \A r \in Readers : reader'[r].pc = "done" => reader'[r].lib # NoEntry
  <2>1. CASE UNCHANGED reader
    BY <1>0, <2>1
  <2>2. ASSUME NEW q \in Readers, ReaderStep(q), NEW r \in Readers, reader'[r].pc = "done"
        PROVE  reader'[r].lib # NoEntry
    <3>1. CASE r = q
      BY <1>0, <2>2, <3>1, LibFacts
    <3>2. CASE r # q
      BY <1>0, <2>2, <3>2, InsertFacts
    <3> QED BY <3>1, <3>2
  <2> QED BY <1>2, <2>1, <2>2
<1>4. ASSUME Clean'
      PROVE  /\ \A k \in Kinds : /\ InOrder(k)' /\ Settled(k)'
                                 /\ cache'[k] # NoEntry => Unmoved(k, cache[k].items)'
             /\ \A r \in Readers : reader'[r].pc # "new" /\ reader'[r].lib # NoEntry
                                     => Unmoved(reader[r].kind, reader[r].lib.items)'
  <2>1. /\ Clean
        /\ \/ Moves
           \/ Adds(OtherEvent) /\ UNCHANGED phone
           \/ \E k \in Kinds, i \in Ids, typed \in BOOLEAN, candidates \in Candidates :
                 LibraryChanges(k, i, typed, candidates)
    BY <1>4, StepMoves
  <2>2. /\ \A k \in Kinds : InOrder(k) /\ Settled(k)
        /\ \A k \in Kinds : cache[k] # NoEntry => Unmoved(k, cache[k].items)
        /\ \A r \in Readers : reader[r].pc # "new" /\ reader[r].lib # NoEntry
                                => Unmoved(reader[r].kind, reader[r].lib.items)
    BY <2>1 DEF Logged
  <2>3. \A r \in Readers : reader[r].pc # "new" => reader[r].kind \in Kinds
    BY <1>0 DEF Typed, Walk
  <2>4. ASSUME NEW k \in Kinds, NEW i \in Ids, NEW typed \in BOOLEAN, NEW candidates \in Candidates,
               LibraryChanges(k, i, typed, candidates)
        PROVE  /\ \A j \in Kinds : /\ InOrder(j)' /\ Settled(j)'
                                   /\ cache'[j] # NoEntry => Unmoved(j, cache[j].items)'
               /\ \A r \in Readers : reader'[r].pc # "new" /\ reader'[r].lib # NoEntry
                                       => Unmoved(reader[r].kind, reader[r].lib.items)'
    <3>1. /\ UNCHANGED <<log, cache, reader>>
          /\ \A j \in Kinds : /\ InOrder(j)' /\ Settled(j)'
                              /\ \A items : Unmoved(j, items) => Unmoved(j, items)'
      BY <1>0, <1>4, <2>2, <2>4, PushKeepsRight
    <3>2. ASSUME NEW j \in Kinds, cache'[j] # NoEntry PROVE Unmoved(j, cache[j].items)'
      <4>1. PICK items : items = cache[j].items
        OBVIOUS
      <4>2. Unmoved(j, items)' /\ items = cache'[j].items
        BY <2>2, <3>1, <3>2, <4>1
      <4> QED BY <4>2 DEF Unmoved, Right
    <3>3. ASSUME NEW r \in Readers, reader'[r].pc # "new", reader'[r].lib # NoEntry
          PROVE  Unmoved(reader[r].kind, reader[r].lib.items)'
      <4>1. PICK j \in Kinds : j = reader[r].kind
        BY <2>3, <3>1, <3>3
      <4>2. PICK items : items = reader[r].lib.items
        OBVIOUS
      <4>3. Unmoved(j, items)' /\ items = reader'[r].lib.items /\ j = reader'[r].kind
        BY <2>2, <3>1, <3>3, <4>1, <4>2
      <4> QED BY <4>3 DEF Unmoved, Right, Listed
    <3> QED BY <3>1, <3>2, <3>3
  <2>5. ASSUME Moves \/ (Adds(OtherEvent) /\ UNCHANGED phone)
        PROVE  /\ UNCHANGED phone
               /\ \A k \in Kinds : InOrder(k)' /\ Listed(k)' = Listed(k)
    <3>1. CASE Moves
      BY <1>0, <2>2, <3>1, MovesKeep
    <3>2. CASE Adds(OtherEvent) /\ UNCHANGED phone
      <4>1. OtherEvent \in Event /\ \A k \in Kinds : ~Change(OtherEvent, k)
        BY DEF Event, OtherEvent, Change
      <4>2. \A k \in Kinds : InOrder(k)' /\ Listed(k)' = Listed(k) \cup {}
        BY <1>0, <2>2, <3>2, <4>1, AddsKeep
      <4> QED BY <3>2, <4>2
    <3> QED BY <2>5, <3>1, <3>2
  <2>6. ASSUME UNCHANGED phone, \A k \in Kinds : InOrder(k)' /\ Listed(k)' = Listed(k),
               ~ \E k \in Kinds, i \in Ids, typed \in BOOLEAN, candidates \in Candidates :
                    LibraryChanges(k, i, typed, candidates)
        PROVE  /\ \A k \in Kinds : /\ InOrder(k)' /\ Settled(k)'
                                   /\ cache'[k] # NoEntry => Unmoved(k, cache[k].items)'
               /\ \A r \in Readers : reader'[r].pc # "new" /\ reader'[r].lib # NoEntry
                                       => Unmoved(reader[r].kind, reader[r].lib.items)'
    <3>1. \A k \in Kinds : /\ InOrder(k)' /\ Settled(k)'
                          /\ \A items : Unmoved(k, items) => Unmoved(k, items)'
      BY <2>2, <2>6, SameRight
    <3>2. ASSUME NEW k \in Kinds, cache'[k] # NoEntry
          PROVE  \/ cache'[k] = cache[k]
                 \/ \E r \in Readers : /\ reader[r].pc # "new" /\ reader[r].lib # NoEntry
                                       /\ reader[r].kind = k /\ cache'[k] = reader[r].lib
      <4>1. ASSUME NEW r \in Readers, ReaderStep(r)
            PROVE  \/ cache'[k] = cache[k]
                   \/ /\ reader[r].pc # "new" /\ reader[r].lib # NoEntry
                      /\ reader[r].kind = k /\ cache'[k] = reader[r].lib
        BY <1>0, <3>2, <4>1, InsertFacts DEF Typed, Inserting
      <4>2. OtherPush \/ BridgeStep \/ SubStep \/ CloseStep \/ HubCloses
                => cache' = cache \/ cache'[k] = NoEntry
        BY DEF OtherPush, Push, BridgeStep, SubStep, HubCloses, BridgeLagged, BridgeReceives,
               BridgeClears, BridgePublishes, BridgeEnds, SubLagged, SubReceives, SubClosed,
               CloseStep, SessionRemoved, ClientClosed, invalidate_bump, invalidate_clear
      <4> QED BY <2>6, <3>2, <4>1, <4>2 DEF Next
    <3>3. ASSUME NEW k \in Kinds, cache'[k] # NoEntry PROVE Unmoved(k, cache[k].items)'
      <4>1. PICK items : items = cache'[k].items
        OBVIOUS
      <4>2. Unmoved(k, items)
        BY <2>2, <3>2, <3>3, <4>1
      <4>3. Unmoved(k, items)'
        BY <3>1, <4>2
      <4> QED BY <4>1, <4>3 DEF Unmoved, Right
    <3>4. \A k \in Kinds : Unmoved(k, phone[k].items)
      BY DEF Unmoved, Right
    <3>5. ASSUME NEW r \in Readers, reader'[r].pc # "new", reader'[r].lib # NoEntry
          PROVE  Unmoved(reader[r].kind, reader[r].lib.items)'
      <4>1. \E k \in Kinds : /\ reader'[r].kind = k
                            /\ Unmoved(k, reader'[r].lib.items)
        <5>1. CASE reader'[r] = reader[r]
          BY <2>2, <2>3, <3>5, <5>1
        <5>2. ASSUME NEW q \in Readers, ReaderStep(q), reader'[r] # reader[r]
              PROVE  \E k \in Kinds : reader'[r].kind = k /\ Unmoved(k, reader'[r].lib.items)
          <6>1. r = q
            BY <1>0, <5>2, InsertFacts
          <6>2. /\ reader[r].pc # "new" /\ reader[r].kind \in Kinds
                /\ reader'[r].kind = reader[r].kind
                /\ \/ reader'[r].lib = reader[r].lib
                   \/ reader'[r].lib = phone[reader[r].kind]
                   \/ reader'[r].lib = cache[reader[r].kind] /\ cache[reader[r].kind] # NoEntry
            BY <1>0, <3>5, <5>2, <6>1, LibFacts
          <6> QED BY <2>2, <3>4, <3>5, <6>2
        <5> QED BY <1>2, <5>1, <5>2
      <4>2. PICK k \in Kinds : reader'[r].kind = k /\ Unmoved(k, reader'[r].lib.items)
        BY <4>1
      <4>3. PICK items : items = reader'[r].lib.items
        OBVIOUS
      <4>4. Unmoved(k, items)'
        BY <3>1, <4>2, <4>3
      <4> QED BY <4>2, <4>3, <4>4 DEF Unmoved, Right, Listed
    <3> QED BY <3>1, <3>3, <3>5
  <2> QED BY <2>1, <2>4, <2>5, <2>6
<1> QED BY <1>1, <1>3, <1>4 DEF Logged

LEMMA InitLogged == Init => Logged
<1> SUFFICES ASSUME Init PROVE Logged
  OBVIOUS
<1>1. log \in [Kinds -> Seq(Event)] /\ \A r \in Readers : reader[r].pc = "new"
  BY DEF Init
<1>2. ASSUME NEW k \in Kinds PROVE Listed(k) = {} /\ InOrder(k) /\ cache[k] = NoEntry
  <2>1. /\ log[k] = <<>> /\ hub = <<>> /\ bus = <<>> /\ bridge.event = NoEvent
        /\ cache[k] = NoEntry
    BY DEF Init
  <2>2. ~Change(NoEvent, k) /\ DOMAIN << >> = {}
    BY DEF Change, NoEvent
  <2>3. Listed(k) = {}
    BY <2>1, <2>2 DEF Listed, Range
  <2>4. InOrder(k)
    BY <2>1, <2>2 DEF InOrder, Rising, Ahead
  <2> QED BY <2>1, <2>3, <2>4
<1>3. \A k \in Kinds : Settled(k)
  BY <1>2 DEF Settled
<1> QED BY <1>1, <1>2, <1>3 DEF Logged

LEMMA NextLogged == IInv /\ Logged /\ [Next]_vars => Logged'
<1> SUFFICES ASSUME IInv, Logged, [Next]_vars PROVE Logged'
  OBVIOUS
<1>1. CASE Next
  BY <1>1, StepLogged
<1>2. CASE UNCHANGED vars
  <2>1. UNCHANGED <<phone, bus, missed, bridge, cache, reader, hub, skipped, seen, log, warned,
                    hub_open>>
    BY <1>2 DEF vars, buses, subscriber
  <2>2. ASSUME NEW k PROVE /\ Listed(k)' = Listed(k) /\ (InOrder(k) => InOrder(k)')
                           /\ (Settled(k) => Settled(k)')
    <3>1. Listed(k)' = Listed(k)
      BY <2>1 DEF Listed, Change
    <3>2. InOrder(k) => InOrder(k)'
      BY <2>1 DEF InOrder, Rising, Ahead, Change
    <3>3. Settled(k) => Settled(k)'
      BY <2>1, <3>1 DEF Settled, Right
    <3> QED BY <3>1, <3>2, <3>3
  <2>3. Clean' => Clean
    BY <2>1 DEF Clean, Unsure
  <2>4. ASSUME NEW k, Unmoved(k, cache[k].items) PROVE Unmoved(k, cache[k].items)'
    BY <2>1, <2>2, <2>4 DEF Unmoved, Right
  <2>5. ASSUME NEW r, Unmoved(reader[r].kind, reader[r].lib.items)
        PROVE  Unmoved(reader[r].kind, reader[r].lib.items)'
    BY <2>1, <2>5 DEF Unmoved, Right, Listed, Change
  <2> QED BY <2>1, <2>2, <2>3, <2>4, <2>5 DEF Logged
<1> QED BY <1>1, <1>2

-----------------------------------------------------------------------------
\* Merging a change into a library gives a library.
LEMMA ApplyType ==
    ASSUME NEW k \in Kinds, NEW c \in Event, Change(c, k), NEW items \in [Ids -> Nat]
    PROVE  apply_change(items, c) \in [Ids -> Nat]
<1>1. c.added \in SUBSET (Ids \X Nat) /\ c.updated \in SUBSET (Ids \X Nat)
  BY DEF Event, Change, NoEvent, OtherEvent, Warning
<1>2. ASSUME NEW f \in [Ids -> Nat], NEW entries \in SUBSET (Ids \X Nat)
      PROVE  upsert(f, entries) \in [Ids -> Nat]
  <2>1. ASSUME NEW i \in Ids, \E e \in entries : matches(e, i)
        PROVE  overlap(f, CHOOSE e \in entries : matches(e, i))[i] \in Nat
    <3> DEFINE e == CHOOSE e \in entries : matches(e, i)
    <3>1. e \in entries
      BY <2>1
    <3> HIDE DEF e
    <3>2. e[1] \in Ids /\ e[2] \in Nat
      BY <3>1
    <3>3. overlap(f, e) = [f EXCEPT ![e[1]] = e[2]]
      BY DEF overlap
    <3>4. overlap(f, e)[i] \in Nat
      BY <3>2, <3>3
    <3> QED BY <3>4 DEF e
  <2>2. ASSUME NEW i \in Ids PROVE upsert(f, entries)[i] \in Nat
    <3>1. CASE \E e \in entries : matches(e, i)
      <4>1. upsert(f, entries)[i] = overlap(f, CHOOSE e \in entries : matches(e, i))[i]
        BY <3>1, Zenon DEF upsert
      <4> QED BY <2>1, <3>1, <4>1, Zenon
    <3>2. CASE ~ \E e \in entries : matches(e, i)
      <4>1. upsert(f, entries)[i] = f[i]
        BY <3>2, Zenon DEF upsert
      <4> QED BY <4>1
    <3> QED BY <3>1, <3>2
  <2>3. upsert(f, entries) = [i \in Ids |-> upsert(f, entries)[i]]
    BY DEF upsert
  <2> QED BY <2>2, <2>3
<1>3. ASSUME NEW f \in [Ids -> Nat] PROVE remove(f, c.deleted) \in [Ids -> Nat]
  BY DEF remove, Absent
<1> QED BY <1>1, <1>2, <1>3 DEF apply_change

\* Merging changes of one library goes through them in order.
LEMMA MergedFacts ==
    ASSUME NEW k \in Kinds, NEW items \in [Ids -> Nat], NEW changes \in Seq(Event),
           \A n \in DOMAIN changes : Change(changes[n], k)
    PROVE  \E f : /\ f[0] = items
                  /\ \A n \in 1 .. Len(changes) : f[n] = apply_change(f[n - 1], changes[n])
                  /\ \A n \in 0 .. Len(changes) : f[n] \in [Ids -> Nat]
                  /\ Merged(k, items, changes) = f[Len(changes)]
<1> DEFINE L == Len(changes)
           Libs == [Ids -> Nat]
           Walks(n, f) == f[0] = items /\ \A j \in 1 .. n : f[j] = apply_change(f[j - 1], changes[j])
           Bad == {n \in 0 .. L : ~ \E f \in [0 .. n -> Libs] : Walks(n, f)}
<1>1. L \in Nat /\ \A j \in 1 .. L : changes[j] \in Event /\ Change(changes[j], k)
  OBVIOUS
<1>2. items \in Libs /\ \A j \in 1 .. L, g \in Libs : apply_change(g, changes[j]) \in Libs
  BY <1>1, ApplyType
<1>3. \A j \in 1 .. L : \A g : merge_library(k, g, changes[j]) = apply_change(g, changes[j])
  BY <1>1 DEF merge_library, Change
<1> HIDE DEF L, Libs
<1>4. Bad = {}
  <2> SUFFICES ASSUME Bad # {} PROVE FALSE
    OBVIOUS
  <2>1. Bad \in SUBSET Nat
    BY <1>1
  <2>2. PICK m \in Bad : \A n \in Bad : m <= n
    BY <2>1, Least, Zenon
  <2>3. m \in 0 .. L /\ ~ \E f \in [0 .. m -> Libs] : Walks(m, f)
    BY <2>2
  <2>4. m # 0
    <3> SUFFICES ASSUME m = 0 PROVE FALSE
      OBVIOUS
    <3> DEFINE g == [j \in 0 .. m |-> items]
    <3>1. g \in [0 .. m -> Libs] /\ Walks(m, g)
      BY <1>2
    <3> QED BY <2>3, <3>1
  <2>5. m - 1 \in 0 .. L /\ m - 1 \in Nat /\ m \in Nat /\ m - 1 < m
    BY <1>1, <2>3, <2>4
  <2>6. m - 1 \notin Bad
    BY <2>2, <2>5
  <2>7. PICK f \in [0 .. m - 1 -> Libs] : Walks(m - 1, f)
    BY <2>5, <2>6
  <2> DEFINE last == apply_change(f[m - 1], changes[m])
             g == [j \in 0 .. m |-> IF j = m THEN last ELSE f[j]]
  <2>8. last \in Libs
    <3>1. f[m - 1] \in Libs /\ m \in 1 .. L
      BY <2>3, <2>5, <2>7
    <3> QED BY <1>2, <3>1
  <2>9. g \in [0 .. m -> Libs]
    BY <2>5, <2>7, <2>8
  <2>10. Walks(m, g)
    <3>1. g[0] = items
      BY <2>4, <2>5, <2>7
    <3>2. ASSUME NEW j \in 1 .. m PROVE g[j] = apply_change(g[j - 1], changes[j])
      <4>1. j - 1 \in 0 .. m - 1 /\ j - 1 # m
        BY <2>5
      <4>2. g[j - 1] = f[j - 1]
        BY <2>5, <4>1
      <4>3. CASE j = m
        BY <4>2, <4>3
      <4>4. CASE j # m
        <5>1. j \in 1 .. m - 1
          BY <2>5, <4>4
        <5>2. f[j] = apply_change(f[j - 1], changes[j])
          BY <2>7, <5>1
        <5> QED BY <4>2, <4>4, <5>1, <5>2
      <4> QED BY <4>3, <4>4
    <3> QED BY <3>1, <3>2
  <2> QED BY <2>3, <2>9, <2>10
<1>5. PICK f \in [0 .. L -> Libs] : Walks(L, f)
  <2>1. L \in 0 .. L
    BY <1>1
  <2>2. L \notin Bad
    BY <1>4, Zenon
  <2> HIDE DEF Walks
  <2> QED BY <2>1, <2>2
<1> DEFINE Rec(g) == g = [n \in 0 .. L |->
                            IF n = 0 THEN items ELSE merge_library(k, g[n - 1], changes[n])]
           merged == CHOOSE g : Rec(g)
<1>6. Rec(f)
  <2>1. \A n \in 0 .. L : n = 0 \/ n \in 1 .. L
    BY <1>1
  <2>2. \A n \in 1 .. L : n # 0 /\ f[n] = merge_library(k, f[n - 1], changes[n])
    <3> SUFFICES ASSUME NEW n \in 1 .. L
                 PROVE  n # 0 /\ f[n] = merge_library(k, f[n - 1], changes[n])
      OBVIOUS
    <3>1. n # 0
      BY <1>1
    <3>2. f[n] = apply_change(f[n - 1], changes[n])
      BY <1>5
    <3> QED BY <1>3, <3>1, <3>2, Zenon
  <2>3. \A n \in 0 .. L :
            f[n] = IF n = 0 THEN items ELSE merge_library(k, f[n - 1], changes[n])
    BY <1>5, <2>1, <2>2
  <2>4. f = [n \in 0 .. L |-> f[n]]
    BY <1>5
  <2> QED BY <2>3, <2>4, Zenon
<1>7. Rec(merged)
  BY <1>6
<1>8. Merged(k, items, changes) = merged[L]
  BY DEF Merged, L
<1> HIDE DEF merged
<1>9. merged[0] = items /\ \A n \in 1 .. L : merged[n] = apply_change(merged[n - 1], changes[n])
  <2>1. 0 \in 0 .. L /\ \A n \in 1 .. L : n \in 0 .. L /\ n # 0
    BY <1>1
  <2>2. \A n \in 0 .. L :
            merged[n] = IF n = 0 THEN items ELSE merge_library(k, merged[n - 1], changes[n])
    BY <1>7, Zenon
  <2>3. ASSUME NEW n \in 1 .. L PROVE merged[n] = apply_change(merged[n - 1], changes[n])
    <3>1. merged[n] = merge_library(k, merged[n - 1], changes[n])
      BY <2>1, <2>2, Zenon
    <3> QED BY <1>3, <3>1, Zenon
  <2>4. merged[0] = items
    BY <2>1, <2>2
  <2> QED BY <2>3, <2>4
<1> DEFINE Wrong == {n \in 0 .. L : merged[n] \notin Libs}
<1>10. Wrong = {}
  <2> SUFFICES ASSUME Wrong # {} PROVE FALSE
    OBVIOUS
  <2>1. Wrong \in SUBSET Nat
    BY <1>1
  <2>2. PICK m \in Wrong : \A n \in Wrong : m <= n
    BY <2>1, Least, Zenon
  <2>3. m \in 0 .. L /\ merged[m] \notin Libs /\ m # 0
    BY <1>2, <1>9, <2>2
  <2>4. m \in 1 .. L /\ m - 1 \in 0 .. L /\ m - 1 < m
    BY <1>1, <2>3
  <2>5. merged[m - 1] \in Libs
    BY <2>2, <2>4
  <2> QED BY <1>2, <1>9, <2>3, <2>4, <2>5
<1>11. \A n \in 0 .. L : merged[n] \in Libs
  BY <1>10
<1> QED BY <1>8, <1>9, <1>11 DEF L, Libs

\* A client that merged all it was told of, when nothing was lost and nothing is
\* on its way, has the phone's library (merge_*_library, apply_change,
\* audio_change, run_event_bridge), for any library, any number of changes and
\* whenever it took its snapshot.
THEOREM MergesAreCurrent == Spec => []MergedIsCurrent
<1>1. IInv /\ Logged => MergedIsCurrent
  <2> SUFFICES ASSUME IInv, Logged, NEW r \in Readers, Quiet, ~warned, hub_open, session = "open",
                      reader[r].pc = "done", NEW i \in Ids
               PROVE  LET k == reader[r].kind
                          merged == Merged(k, reader[r].lib.items, log[k])
                      IN  \/ merged[i] = phone[k].items[i]
                          \/ k = "Audio" /\ phone[k].items[i] = Absent
    BY DEF MergedIsCurrent
  <2> DEFINE k == reader[r].kind
             items == reader[r].lib.items
             L == Len(log[k])
  <2>1. Typed /\ log \in [Kinds -> Seq(Event)] /\ reader[r].lib # NoEntry
    BY DEF IInv, Logged
  <2>2. k \in Kinds /\ reader[r].lib \in Entry
    BY <2>1 DEF Typed, Walk
  <2>3. items \in [Ids -> Nat]
    <3>1. items \in [Ids -> 0..(MaxPushes + 1)] /\ MaxPushes \in Nat
      BY <2>1, <2>2, MediaEventsAssumption DEF Entry
    <3> HIDE DEF items
    <3> QED BY <3>1
  <2>4. bus = <<>> /\ missed = 0 /\ hub = <<>> /\ skipped = 0 /\ bridge.event = NoEvent
    BY <2>1 DEF Quiet, Typed
  <2>5. Clean
    BY <2>4 DEF Clean, Unsure, NoEvent
  <2>6. InOrder(k) /\ Settled(k) /\ Unmoved(k, items) /\ log[k] \in Seq(Event)
    BY <2>1, <2>2, <2>5 DEF Logged
  <2> HIDE DEF k, items
  <2>7. Listed(k) = {log[k][n] : n \in 1 .. L}
    <3>1. \A n \in DOMAIN log[k] : Change(log[k][n], k)
      BY <2>6 DEF InOrder
    <3>2. ~Change(NoEvent, k) /\ Range(bus) = {} /\ Range(hub) = {}
      BY <2>4 DEF Change, NoEvent, Range
    <3>3. Range(log[k]) = {log[k][n] : n \in 1 .. L}
      BY <2>6 DEF Range
    <3>4. \A e \in Range(log[k]) : Change(e, k)
      BY <3>1 DEF Range
    <3> QED BY <2>4, <3>2, <3>3, <3>4 DEF Listed
  <2>8. /\ \A n \in DOMAIN log[k] : Change(log[k][n], k)
        /\ \A m, n \in 1 .. L : m < n => log[k][m].ver < log[k][n].ver
        /\ \A n \in 1 .. L : log[k][n].ver \in Nat
    <3>1. \A n \in DOMAIN log[k] : Change(log[k][n], k)
      BY <2>6 DEF InOrder
    <3>2. \A m, n \in 1 .. L : m < n => log[k][m].ver < log[k][n].ver
      BY <2>6, <3>1 DEF InOrder, Rising
    <3>3. ASSUME NEW n \in 1 .. L PROVE log[k][n].ver \in Nat
      <4>1. log[k][n] \in Event /\ Change(log[k][n], k)
        BY <2>6, <3>1
      <4> QED BY <4>1, MediaEventsAssumption DEF Event, Change, NoEvent, OtherEvent, Warning
    <3> QED BY <3>1, <3>2, <3>3
  <2>9. PICK f : /\ f[0] = items
                 /\ \A n \in 1 .. L : f[n] = apply_change(f[n - 1], log[k][n])
                 /\ \A n \in 0 .. L : f[n] \in [Ids -> Nat]
                 /\ Merged(k, items, log[k]) = f[L]
    BY <2>2, <2>3, <2>6, <2>8, MergedFacts, ZenonT(60)
  <2>10. L \in Nat
    BY <2>6
  <2> HIDE DEF L
  \* After n changes an item is right unless a later change is about it.
  <2> DEFINE Later(n) == \E m \in 1 .. L : n < m /\ ~Leaves(log[k][m], i)
             Wrong == {n \in 0 .. L : ~Right(k, i, f[n][i]) /\ ~Later(n)}
  <2>11. Wrong = {}
    <3> SUFFICES ASSUME Wrong # {} PROVE FALSE
      OBVIOUS
    <3>1. Wrong \in SUBSET Nat
      BY <2>10
    <3>2. PICK n \in Wrong : \A m \in Wrong : n <= m
      BY <3>1, Least, Zenon
    <3>3. n \in 0 .. L /\ ~Right(k, i, f[n][i]) /\ ~Later(n)
      BY <3>2
    <3>4. n # 0
      <4> SUFFICES ASSUME n = 0 PROVE FALSE
        OBVIOUS
      <4>1. \E e \in Listed(k) : ~Leaves(e, i)
        BY <2>6, <2>9, <3>3 DEF Unmoved
      <4>2. PICK m \in 1 .. L : ~Leaves(log[k][m], i)
        BY <2>7, <4>1
      <4>3. 0 < m
        BY <2>10
      <4> QED BY <3>3, <4>2, <4>3
    <3>5. n \in 1 .. L /\ n - 1 \in 0 .. L /\ n - 1 < n /\ n \in Nat /\ n - 1 \in Nat
      BY <2>10, <3>3, <3>4
    <3> DEFINE e == log[k][n]
    <3>6. e \in Listed(k) /\ f[n] = apply_change(f[n - 1], e) /\ f[n - 1] \in [Ids -> Nat]
      BY <2>7, <2>9, <3>5
    <3>7. CASE Leaves(e, i)
      <4>1. f[n][i] = f[n - 1][i]
        BY <3>6, <3>7 DEF Leaves
      <4>2. ~Right(k, i, f[n - 1][i])
        BY <3>3, <4>1
      <4>3. n - 1 \notin Wrong
        BY <3>2, <3>5
      <4>4. Later(n - 1)
        BY <3>5, <4>2, <4>3
      <4>5. PICK m \in 1 .. L : n - 1 < m /\ ~Leaves(log[k][m], i)
        BY <4>4
      <4>6. m # n
        BY <3>7, <4>5
      <4>7. n < m
        BY <2>10, <3>5, <4>5, <4>6
      <4> QED BY <3>3, <4>5, <4>7
    <3>8. CASE ~Leaves(e, i)
      <4>1. ~ \A g \in [Ids -> Nat] : Right(k, i, apply_change(g, e)[i])
        BY <3>3, <3>6
      <4>2. PICK c \in Listed(k) : e.ver < c.ver /\ ~Leaves(c, i)
        BY <2>6, <3>6, <3>8, <4>1 DEF Settled
      <4>3. PICK m \in 1 .. L : c = log[k][m]
        BY <2>7, <4>2
      <4>4. ~(m < n) /\ m # n
        BY <2>8, <3>5, <4>2, <4>3
      <4>5. n < m
        BY <2>10, <3>5, <4>4
      <4> QED BY <3>3, <4>2, <4>3, <4>5
    <3> QED BY <3>7, <3>8
  <2>12. ~Later(L) /\ L \in 0 .. L
    BY <2>10
  <2>13. Right(k, i, f[L][i])
    BY <2>11, <2>12
  <2> QED BY <2>9, <2>13 DEF Right, k, items
<1>2. Spec => []Logged
  BY InitLogged, NextLogged, MediaInvariant, PTL DEF Spec
<1> QED BY <1>1, <1>2, MediaInvariant, PTL
=============================================================================
