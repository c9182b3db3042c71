------------------------ MODULE NativeHandlesProofs ------------------------
(***************************************************************************)
(* Machine-checked proofs about NativeHandles, for any number of threads,  *)
(* subscriptions and publishers, any quota, capacity and buffer size, and  *)
(* without a bound on the events.                                          *)
(***************************************************************************)
EXTENDS NativeHandles, FiniteSetTheorems, SequenceTheorems, TLAPS

USE BoundsAssumption

\* Steps that leave the state of the handles alone.
StreamStep ==
    \/ \E p \in Publishers : TakeNumber(p) \/ Send(p)
    \/ \E s \in Subs : Consume(s) \/ CancelStream(s)

\* Steps of a body that is inside its call and stays there.
BodyStep(c) ==
    \/ Call(c) \/ hs_runtime_shutdown(c) \/ NestedDestroy(c)
    \/ acquire(c) \/ Reject(c) \/ SubscribeFails(c) \/ hs_subscribe_events(c)

\* Every step is one of the kinds the proofs below go through.
LEMMA Kinds ==
    ASSUME [Next]_vars
    PROVE  \/ UNCHANGED vars \/ StreamStep \/ Create
           \/ \E c \in Callers : \/ \E body \in Bodies : withRuntime(c, body)
                                 \/ destroy(c) \/ SpuriousWake(c) \/ ReturnLease(c) \/ Drained(c)
                                 \/ hs_runtime_destroy(c) \/ BodyStep(c) \/ SubNextReturns(c)
                                 \/ \E s \in Subs : SubNext(c, s) \/ SubDestroy(c, s)
           \/ \E s \in Subs : PollBegins(s) \/ PollEvent(s) \/ PollSentinel(s) \/ PollerEnds(s)
  BY DEF Next, Wishes, CallerStep, PollerStep, StreamStep, BodyStep

-----------------------------------------------------------------------------
(***************************************************************************)
(* Counting callers and subscriptions.                                     *)
(***************************************************************************)

\* The sets that are counted are finite.
LEMMA Finite ==
    /\ IsFiniteSet(InCall) /\ IsFiniteSet(Reserved) /\ IsFiniteSet(Building) /\ IsFiniteSet(Live)
    /\ Cardinality(InCall) \in Nat /\ Cardinality(Reserved) \in Nat
    /\ Cardinality(Building) \in Nat /\ Cardinality(Live) \in Nat
  <1>1. IsFiniteSet(InCall) /\ IsFiniteSet(Reserved) /\ IsFiniteSet(Building)
    <2>1. InCall \in SUBSET Callers /\ Reserved \in SUBSET Callers /\ Building \in SUBSET Callers
      BY DEF InCall, Reserved, Building
    <2> QED
      BY <2>1, FS_Subset
  <1>2. IsFiniteSet(Live)
    <2>1. Live \in SUBSET Subs
      BY DEF Live
    <2> QED
      BY <2>1, FS_Subset
  <1> QED
    BY <1>1, <1>2, FS_CardinalityType

\* A caller that goes somewhere joins or leaves the callers inside a call.
LEMMA GoInCall ==
    ASSUME HandlesOK, NEW c \in Callers, NEW where, Go(c, where)
    PROVE  /\ where \in Leased => InCall' = InCall \cup {c}
           /\ where \notin Leased => InCall' = InCall \ {c}
           /\ \A d \in Callers : d # c => pc'[d] = pc[d]
           /\ pc'[c] = where
  BY DEF HandlesOK, Go, InCall

\* It does not touch the reservations unless it comes from or goes to one.
LEMMA GoReserved ==
    ASSUME HandlesOK, NEW c \in Callers, NEW where, Go(c, where),
           pc[c] \notin {"reject", "build"}, where \notin {"reject", "build"}
    PROVE  Reserved' = Reserved /\ Building' = Building
  BY DEF HandlesOK, Go, Reserved, Building

-----------------------------------------------------------------------------
(***************************************************************************)
(* The inductive invariant, one conjunct at a time.                        *)
(***************************************************************************)

\* Before the handle is made nothing is leased, subscribed or counted.
LEMMA InitInv == Init => IndInv
  <1> SUFFICES ASSUME Init PROVE IndInv
    OBVIOUS
  <1>1. HandlesOK
    BY DEF Init, HandlesOK
  <1>2. StreamsOK
    BY DEF Init, StreamsOK
  <1>3. InCall = {} /\ Reserved = {} /\ Building = {} /\ Live = {}
    BY DEF Init, InCall, Reserved, Building, Live, Leased, Bodies
  <1>4. LeaseInv
    BY <1>3, FS_EmptySet DEF Init, LeaseInv
  <1>5. LockInv
    BY DEF Init, LockInv
  <1>6. QuotaInv
    BY <1>3, FS_EmptySet DEF QuotaInv, Init
  <1>7. StreamInv
    <2>1. \A s \in Subs : Delivered(s) = <<>> \o <<>>
      BY DEF Init, Delivered
    <2>2. <<>> \o <<>> = <<>>
      BY ConcatEmptySeq, <<>> \in Seq(Nat)
    <2>3. Contiguous(<<>>)
      BY DEF Contiguous
    <2> QED
      BY <2>1, <2>2, <2>3 DEF Init, StreamInv, StreamOf
  <1> QED
    BY <1>1, <1>2, <1>4, <1>5, <1>6, <1>7 DEF IndInv, TypeOK

\* A caller inside a call is counted, and so is a live subscription and a
\* reservation: the counters are not 0 when they are counted down.
LEMMA Positive ==
    ASSUME IndInv
    PROVE  /\ \A c \in InCall : inFlight > 0
           /\ \A c \in Reserved : counter > 0
           /\ \A s \in Live : counter > 0
  <1>1. InCall # {} => Cardinality(InCall) # 0
    BY Finite, FS_EmptySet
  <1>2. Reserved # {} => Cardinality(Reserved) # 0
    BY Finite, FS_EmptySet
  <1>3. Live # {} => Cardinality(Live) # 0
    BY Finite, FS_EmptySet
  <1> QED
    BY <1>1, <1>2, <1>3, Finite DEF IndInv, LeaseInv, QuotaInv

\* The handles keep their types.
LEMMA HandlesStep ==
    ASSUME IndInv, [Next]_vars
    PROVE  HandlesOK'
  <1> USE DEF Leased, Bodies
  <1>1. HandlesOK
    BY DEF IndInv, TypeOK
  <1>2. CASE UNCHANGED vars \/ StreamStep \/ Create
    BY <1>1, <1>2 DEF vars, handleVars, HandlesOK, StreamStep, TakeNumber, Send, Consume,
       CancelStream, Create
  <1>3. ASSUME NEW c \in Callers, NEW body \in Bodies, withRuntime(c, body)
        PROVE  HandlesOK'
    BY <1>1, <1>3 DEF HandlesOK, withRuntime, Go
  <1>4. ASSUME NEW c \in Callers, destroy(c) \/ SpuriousWake(c) \/ Drained(c)
        PROVE  HandlesOK'
    BY <1>1, <1>4 DEF HandlesOK, destroy, SpuriousWake, Drained, DrainOrTake, Go, handleVars
  <1>5. ASSUME NEW c \in Callers, ReturnLease(c)
        PROVE  HandlesOK'
    <2>1. inFlight > 0
      BY <1>5, Positive DEF ReturnLease, InCall
    <2> QED
      BY <1>1, <1>5, <2>1 DEF HandlesOK, ReturnLease, Asleep
  <1>6. ASSUME NEW c \in Callers, hs_runtime_destroy(c)
        PROVE  HandlesOK'
    BY <1>1, <1>6 DEF HandlesOK, hs_runtime_destroy, Go
  <1>7. ASSUME NEW c \in Callers, BodyStep(c)
        PROVE  HandlesOK'
    <2>1. CASE Call(c) \/ hs_runtime_shutdown(c) \/ NestedDestroy(c) \/ acquire(c)
      BY <1>1, <2>1 DEF HandlesOK, Call, hs_runtime_shutdown, NestedDestroy, acquire, Go,
         handleVars
    <2>2. CASE Reject(c) \/ SubscribeFails(c)
      <3>1. counter > 0
        BY <2>2, Positive DEF Reject, SubscribeFails, Reserved
      <3> QED
        BY <1>1, <2>2, <3>1 DEF HandlesOK, Reject, SubscribeFails, Go, handleVars
    <2>3. CASE hs_subscribe_events(c)
      BY <1>1, <2>3 DEF HandlesOK, hs_subscribe_events, Go, handleVars
    <2> QED
      BY <1>7, <2>1, <2>2, <2>3 DEF BodyStep
  <1>8. ASSUME NEW c \in Callers, SubNextReturns(c)
        PROVE  HandlesOK'
    BY <1>1, <1>8 DEF HandlesOK, SubNextReturns, Go, handleVars
  <1>9. ASSUME NEW c \in Callers, NEW s \in Subs, SubNext(c, s)
        PROVE  HandlesOK'
    BY <1>1, <1>9 DEF HandlesOK, SubNext, Go, handleVars
  <1>10. ASSUME NEW c \in Callers, NEW s \in Subs, SubDestroy(c, s)
         PROVE  HandlesOK'
    <2>1. counter > 0
      BY <1>10, Positive DEF SubDestroy, SubDestroyed, Live
    <2> QED
      BY <1>1, <1>10, <2>1 DEF HandlesOK, SubDestroy, SubDestroyed, handleVars
  <1>11. ASSUME NEW s \in Subs, PollBegins(s) \/ PollEvent(s) \/ PollSentinel(s)
         PROVE  HandlesOK'
    BY <1>1, <1>11 DEF HandlesOK, PollBegins, PollEvent, PollSentinel, handleVars
  <1>12. ASSUME NEW s \in Subs, PollerEnds(s)
         PROVE  HandlesOK'
    <2>1. counter > 0
      BY <1>12, Positive DEF PollerEnds, SubDestroyed, Live
    <2> QED
      BY <1>1, <1>12, <2>1 DEF HandlesOK, PollerEnds, SubDestroyed, handleVars
  <1> QED
    BY <1>2, <1>3, <1>4, <1>5, <1>6, <1>7, <1>8, <1>9, <1>10, <1>11, <1>12, Kinds

\* A step outside the bodies of calls that leaves the pointer and the callers'
\* places alone changes no lease.
LEMMA LeaseFrame ==
    ASSUME LeaseInv, UNCHANGED <<inFlight, destroyed, runtime, pc>>
    PROVE  LeaseInv'
  <1>1. InCall' = InCall
    BY DEF InCall
  <1> QED
    BY <1>1 DEF LeaseInv

\* A caller that moves inside a call, or outside of one and not into
\* destroy(), changes no lease either.
LEMMA LeaseMove ==
    ASSUME HandlesOK, LeaseInv, NEW c \in Callers, NEW where, Go(c, where),
           pc[c] \in Leased <=> where \in Leased,
           where \notin {"destroying", "dropping"},
           where \in {"asleep", "awake"} => destroyed,
           UNCHANGED <<inFlight, destroyed, runtime>>
    PROVE  LeaseInv'
  <1>1. InCall' = InCall
    BY GoInCall DEF InCall
  <1> QED
    BY <1>1, GoInCall DEF LeaseInv

\* The leases stay counted, and nobody gets past the drain while there is one.
LEMMA LeaseStep ==
    ASSUME IndInv, [Next]_vars
    PROVE  LeaseInv'
  <1>1. HandlesOK /\ LeaseInv
    BY DEF IndInv, TypeOK
  <1>2. CASE UNCHANGED vars \/ StreamStep
    <2>1. UNCHANGED <<inFlight, destroyed, runtime, pc>>
      BY <1>2 DEF vars, handleVars, StreamStep, TakeNumber, Send, Consume, CancelStream
    <2> QED
      BY <1>1, <2>1, LeaseFrame
  <1>3. CASE Create
    <2>1. InCall' = InCall
      BY <1>3 DEF Create, InCall
    <2> QED
      BY <1>1, <1>3, <2>1 DEF Create, LeaseInv
  <1>4. ASSUME NEW c \in Callers, NEW body \in Bodies, withRuntime(c, body)
        PROVE  LeaseInv'
    <2>1. InCall' = InCall \cup {c} /\ c \notin InCall
      BY <1>1, <1>4, GoInCall DEF withRuntime, InCall, Leased, Bodies
    <2>2. inFlight' = Cardinality(InCall')
      BY <1>1, <1>4, <2>1, Finite, FS_AddElement DEF LeaseInv, withRuntime
    <2>3. ~destroyed /\ UNCHANGED <<destroyed, runtime>>
      BY <1>4 DEF withRuntime
    <2>4. \A d \in Callers : pc'[d] \notin {"asleep", "awake", "destroying", "dropping"}
      BY <1>1, <1>4, <2>3, GoInCall DEF LeaseInv, withRuntime, Bodies
    <2> QED
      BY <1>1, <2>2, <2>3, <2>4 DEF LeaseInv
  <1>5. ASSUME NEW c \in Callers, ReturnLease(c)
        PROVE  LeaseInv'
    <2>1. InCall' = InCall \ {c} /\ c \in InCall
      BY <1>1, <1>5 DEF ReturnLease, InCall, Leased, Bodies, Asleep, HandlesOK
    <2>2. inFlight' = Cardinality(InCall')
      BY <1>1, <1>5, <2>1, Finite, FS_RemoveElement DEF LeaseInv, ReturnLease
    <2>3. \A d \in Callers : pc'[d] \in {"asleep", "awake", "destroying", "dropping"} => destroyed
      BY <1>1, <1>5 DEF ReturnLease, Asleep, LeaseInv, HandlesOK
    <2>4. ~(runtime = "freed" \/ \E d \in Callers : pc[d] \in {"destroying", "dropping"})
      BY <1>1, <2>1 DEF LeaseInv
    <2>5. \A d \in Callers : pc'[d] \notin {"destroying", "dropping"}
      BY <1>1, <1>5, <2>4 DEF ReturnLease, Asleep, HandlesOK
    <2> QED
      BY <1>1, <1>5, <2>2, <2>3, <2>4, <2>5 DEF LeaseInv, ReturnLease
  <1>6. ASSUME NEW c \in Callers, destroy(c) \/ Drained(c)
        PROVE  LeaseInv'
    <2>1. destroyed' /\ UNCHANGED <<inFlight, runtime>> /\ pc[c] \in {"idle", "awake"}
      BY <1>1, <1>6 DEF destroy, Drained, LeaseInv
    <2>2. CASE inFlight > 0
      <3>1. Go(c, "asleep")
        BY <1>6, <2>2 DEF destroy, Drained, DrainOrTake
      <3>2. InCall' = InCall
        BY <1>1, <2>1, <3>1, GoInCall DEF InCall, Leased, Bodies
      <3>3. InCall # {}
        BY <1>1, <2>2, FS_EmptySet DEF LeaseInv
      <3>4. \A d \in Callers : pc'[d] \notin {"destroying", "dropping"}
        BY <1>1, <3>1, <3>3, GoInCall DEF LeaseInv
      <3> QED
        BY <1>1, <2>1, <3>2, <3>3, <3>4 DEF LeaseInv
    <2>3. CASE ~(inFlight > 0)
      <3>1. Go(c, "destroying")
        BY <1>6, <2>3 DEF destroy, Drained, DrainOrTake
      <3>2. InCall = {}
        BY <1>1, <2>3, Finite, FS_EmptySet DEF LeaseInv, HandlesOK
      <3>3. InCall' = {}
        BY <1>1, <3>1, <3>2, GoInCall DEF Leased, Bodies
      <3> QED
        BY <1>1, <2>1, <3>2, <3>3 DEF LeaseInv
    <2> QED
      BY <2>2, <2>3
  <1>7. ASSUME NEW c \in Callers, hs_runtime_destroy(c)
        PROVE  LeaseInv'
    <2>1. InCall = {} /\ destroyed
      BY <1>1, <1>7 DEF hs_runtime_destroy, LeaseInv
    <2>2. InCall' = InCall
      BY <1>1, <1>7, <2>1, GoInCall DEF hs_runtime_destroy, Leased, Bodies
    <2> QED
      BY <1>1, <1>7, <2>1, <2>2 DEF hs_runtime_destroy, LeaseInv
  <1>8. ASSUME NEW c \in Callers, BodyStep(c)
        PROVE  LeaseInv'
    <2>1. PICK where \in {"release", "reject", "build"} : Go(c, where)
      BY <1>8 DEF BodyStep, Call, hs_runtime_shutdown, NestedDestroy, acquire, Reject,
         SubscribeFails, hs_subscribe_events
    <2>2. pc[c] \in Leased /\ where \in Leased
      BY <1>8 DEF BodyStep, Call, hs_runtime_shutdown, NestedDestroy, acquire, Reject,
         SubscribeFails, hs_subscribe_events, Leased, Bodies
    <2>3. UNCHANGED <<inFlight, destroyed, runtime>>
      BY <1>8 DEF BodyStep, Call, hs_runtime_shutdown, NestedDestroy, acquire, Reject,
         SubscribeFails, hs_subscribe_events, handleVars
    <2> QED
      BY <1>1, <2>1, <2>2, <2>3, LeaseMove
  <1>9. ASSUME NEW c \in Callers,
               SpuriousWake(c) \/ SubNextReturns(c) \/ \E s \in Subs : SubNext(c, s)
        PROVE  LeaseInv'
    <2>1. PICK where \in {"awake", "idle", "next"} : Go(c, where) /\ (where = "awake" => pc[c] = "asleep")
      BY <1>9 DEF SpuriousWake, SubNextReturns, SubNext
    <2>2. pc[c] \notin Leased /\ where \notin Leased
      BY <1>9 DEF SpuriousWake, SubNextReturns, SubNext, Leased, Bodies
    <2>3. UNCHANGED <<inFlight, destroyed, runtime>>
      BY <1>9 DEF SpuriousWake, SubNextReturns, SubNext, handleVars
    <2>4. where = "awake" => destroyed
      BY <1>1, <2>1 DEF LeaseInv
    <2> QED
      BY <1>1, <2>1, <2>2, <2>3, <2>4, LeaseMove
  <1>10. ASSUME NEW s \in Subs, \/ \E c \in Callers : SubDestroy(c, s)
                                \/ PollBegins(s) \/ PollEvent(s) \/ PollSentinel(s) \/ PollerEnds(s)
         PROVE  LeaseInv'
    <2>1. UNCHANGED <<inFlight, destroyed, runtime, pc>>
      BY <1>10 DEF SubDestroy, PollBegins, PollEvent, PollSentinel, PollerEnds, handleVars
    <2> QED
      BY <1>1, <2>1, LeaseFrame
  <1> QED
    BY <1>2, <1>3, <1>4, <1>5, <1>6, <1>7, <1>8, <1>9, <1>10, Kinds

\* A subscription that is locked or polled stays alive.
LEMMA LockStep ==
    ASSUME IndInv, [Next]_vars
    PROVE  LockInv'
  <1>1. HandlesOK /\ StreamsOK /\ LockInv
    BY DEF IndInv, TypeOK
  <1>2. CASE UNCHANGED <<sub, lock, poller>>
    BY <1>1, <1>2 DEF LockInv
  <1>3. ASSUME NEW c \in Callers, BodyStep(c)
        PROVE  LockInv'
    <2>1. CASE hs_subscribe_events(c)
      <3>1. New \in Subs
        BY <2>1 DEF hs_subscribe_events, New
      <3>2. lock' = lock /\ sub' = [sub EXCEPT ![New] = "live"]
            /\ \E x \in {"loop", "none"} : poller' = [poller EXCEPT ![New] = x]
        BY <2>1 DEF hs_subscribe_events
      <3> HIDE DEF New
      <3> QED
        BY <1>1, <3>1, <3>2 DEF LockInv, HandlesOK, StreamsOK
    <2>2. CASE ~hs_subscribe_events(c)
      <3>1. UNCHANGED <<sub, lock, poller>>
        BY <1>3, <2>2 DEF BodyStep, Call, hs_runtime_shutdown, NestedDestroy, acquire, Reject,
           SubscribeFails, streamVars
      <3> QED
        BY <1>2, <3>1
    <2> QED
      BY <2>1, <2>2
  <1>4. ASSUME NEW c \in Callers, SubNextReturns(c)
        PROVE  LockInv'
    <2>1. UNCHANGED <<sub, poller>> /\ lock' = [lock EXCEPT ![arg[c]] = Free]
      BY <1>4 DEF SubNextReturns, streamVars
    <2> QED
      BY <1>1, <2>1 DEF LockInv, HandlesOK
  <1>5. ASSUME NEW c \in Callers, NEW s \in Subs, SubNext(c, s)
        PROVE  LockInv'
    BY <1>1, <1>5 DEF SubNext, LockInv, HandlesOK, streamVars
  <1>6. ASSUME NEW c \in Callers, NEW s \in Subs, SubDestroy(c, s)
        PROVE  LockInv'
    BY <1>1, <1>6 DEF SubDestroy, SubDestroyed, LockInv, HandlesOK, streamVars
  <1>7. ASSUME NEW s \in Subs, PollBegins(s)
        PROVE  LockInv'
    BY <1>1, <1>7 DEF PollBegins, Finish, LockInv, HandlesOK, StreamsOK
  <1>8. ASSUME NEW s \in Subs, PollEvent(s) \/ PollSentinel(s)
        PROVE  LockInv'
    <2>1. sub[s] = "live"
      BY <1>1, <1>8 DEF PollEvent, PollSentinel, LockInv
    <2>2. UNCHANGED sub /\ lock' = [lock EXCEPT ![s] = Free]
      BY <1>8 DEF PollEvent, PollSentinel
    <2>3. \E x \in {"loop", "closing"} : poller' = [poller EXCEPT ![s] = x]
      BY <1>8 DEF PollEvent, PollSentinel, Finish
    <2> QED
      BY <1>1, <2>1, <2>2, <2>3 DEF LockInv, HandlesOK, StreamsOK
  <1>9. ASSUME NEW s \in Subs, PollerEnds(s)
        PROVE  LockInv'
    BY <1>1, <1>9 DEF PollerEnds, SubDestroyed, LockInv, HandlesOK, StreamsOK
  <1>10. CASE \/ UNCHANGED vars \/ StreamStep \/ Create
              \/ \E c \in Callers : \/ \E body \in Bodies : withRuntime(c, body)
                                    \/ destroy(c) \/ SpuriousWake(c) \/ ReturnLease(c)
                                    \/ Drained(c) \/ hs_runtime_destroy(c)
    <2>1. UNCHANGED <<sub, lock, poller>>
      BY <1>10 DEF vars, StreamStep, TakeNumber, Send, Consume, CancelStream, Create, withRuntime,
         destroy, SpuriousWake, ReturnLease, Drained, hs_runtime_destroy, streamVars
    <2> QED
      BY <1>2, <2>1
  <1> QED
    BY <1>3, <1>4, <1>5, <1>6, <1>7, <1>8, <1>9, <1>10, Kinds

\* A subscription that is freed gives its slot back.
LEMMA QuotaFreed ==
    ASSUME IndInv, NEW s \in Subs, SubDestroyed(s), UNCHANGED pc
    PROVE  QuotaInv'
  <1>1. Reserved' = Reserved /\ Building' = Building
    BY DEF Reserved, Building
  <1>2. Live' = Live \ {s} /\ s \in Live
    BY DEF IndInv, TypeOK, HandlesOK, SubDestroyed, Live
  <1>3. Cardinality(Live') = Cardinality(Live) - 1
    BY <1>2, Finite, FS_RemoveElement
  <1> QED
    BY <1>1, <1>3, Finite DEF IndInv, QuotaInv, SubDestroyed

\* The slots stay counted and the quota is kept.
LEMMA QuotaStep ==
    ASSUME IndInv, [Next]_vars
    PROVE  QuotaInv'
  <1>1. HandlesOK /\ QuotaInv
    BY DEF IndInv, TypeOK
  <1>2. ASSUME UNCHANGED <<counter, sub>>, Reserved' = Reserved, Building' = Building
        PROVE  QuotaInv'
    BY <1>1, <1>2 DEF QuotaInv, Live
  <1>3. CASE \/ UNCHANGED vars \/ StreamStep \/ Create
             \/ \E s \in Subs : PollBegins(s) \/ PollEvent(s) \/ PollSentinel(s)
    <2>1. UNCHANGED <<counter, sub, pc>>
      BY <1>3 DEF vars, StreamStep, TakeNumber, Send, Consume, CancelStream, Create, PollBegins,
         PollEvent, PollSentinel
    <2> QED
      BY <1>2, <2>1 DEF Reserved, Building
  <1>4. ASSUME NEW c \in Callers,
               \/ \E body \in Bodies : withRuntime(c, body)
               \/ destroy(c) \/ SpuriousWake(c) \/ Drained(c) \/ hs_runtime_destroy(c)
               \/ SubNextReturns(c) \/ Call(c) \/ hs_runtime_shutdown(c) \/ NestedDestroy(c)
               \/ \E s \in Subs : SubNext(c, s)
        PROVE  QuotaInv'
    <2>1. UNCHANGED <<counter, sub>> /\ pc[c] \notin {"reject", "build"}
      BY <1>4 DEF withRuntime, destroy, SpuriousWake, Drained, hs_runtime_destroy, SubNextReturns,
         Call, hs_runtime_shutdown, NestedDestroy, SubNext
    <2>2. PICK where : Go(c, where) /\ where \notin {"reject", "build"}
      BY <1>4 DEF withRuntime, destroy, SpuriousWake, Drained, DrainOrTake, hs_runtime_destroy,
         SubNextReturns, Call, hs_runtime_shutdown, NestedDestroy, SubNext, Bodies
    <2> QED
      BY <1>1, <1>2, <2>1, <2>2, GoReserved
  <1>5. ASSUME NEW c \in Callers, ReturnLease(c)
        PROVE  QuotaInv'
    <2>1. Reserved' = Reserved /\ Building' = Building
      BY <1>1, <1>5 DEF ReturnLease, Asleep, HandlesOK, Reserved, Building
    <2> QED
      BY <1>2, <1>5, <2>1 DEF ReturnLease
  <1>6. ASSUME NEW c \in Callers, acquire(c)
        PROVE  QuotaInv'
    <2>1. Live' = Live
      BY <1>6 DEF acquire, Live
    <2>2. Reserved' = Reserved \cup {c} /\ c \notin Reserved /\ c \notin Building
      BY <1>1, <1>6 DEF acquire, Go, HandlesOK, Reserved, Building
    <2>3. Cardinality(Reserved') = Cardinality(Reserved) + 1
      BY <2>2, Finite, FS_AddElement
    <2>4. CASE counter >= MAX_SUBSCRIPTIONS
      <3>1. Building' = Building
        BY <1>1, <1>6, <2>4 DEF acquire, Go, HandlesOK, Building
      <3> QED
        BY <1>1, <1>6, <2>1, <2>3, <3>1, Finite DEF acquire, QuotaInv
    <2>5. CASE ~(counter >= MAX_SUBSCRIPTIONS)
      <3>1. Building' = Building \cup {c}
        BY <1>1, <1>6, <2>5 DEF acquire, Go, HandlesOK, Building
      <3>2. Cardinality(Building') = Cardinality(Building) + 1
        BY <2>2, <3>1, Finite, FS_AddElement
      <3>3. Cardinality(Building) <= Cardinality(Reserved)
        <4>1. Building \in SUBSET Reserved
          BY DEF Building, Reserved
        <4> QED
          BY <4>1, Finite, FS_Subset
      <3> QED
        BY <1>1, <1>6, <2>1, <2>3, <2>5, <3>2, <3>3, Finite DEF acquire, QuotaInv, HandlesOK
    <2> QED
      BY <2>4, <2>5
  <1>7. ASSUME NEW c \in Callers, Reject(c) \/ SubscribeFails(c)
        PROVE  QuotaInv'
    <2>1. Live' = Live
      BY <1>7 DEF Reject, SubscribeFails, Live
    <2>2. Reserved' = Reserved \ {c} /\ c \in Reserved /\ Building' \in SUBSET Building
      BY <1>1, <1>7 DEF Reject, SubscribeFails, Go, HandlesOK, Reserved, Building
    <2>3. /\ Cardinality(Reserved') = Cardinality(Reserved) - 1
          /\ Cardinality(Building') <= Cardinality(Building)
      BY <2>2, Finite, FS_RemoveElement, FS_Subset
    <2>4. Cardinality(Building') \in Nat
      BY <2>2, Finite, FS_Subset, FS_CardinalityType
    <2> QED
      BY <1>1, <1>7, <2>1, <2>3, <2>4, Finite DEF Reject, SubscribeFails, QuotaInv
  <1>8. ASSUME NEW c \in Callers, hs_subscribe_events(c)
        PROVE  QuotaInv'
    <2>1. New \in Subs /\ sub[New] = "none"
      BY <1>8 DEF hs_subscribe_events, New
    <2>2. sub' = [sub EXCEPT ![New] = "live"] /\ pc[c] = "build" /\ Go(c, "release") /\ counter' = counter
      BY <1>8 DEF hs_subscribe_events
    <2> HIDE DEF New
    <2>3. Live' = Live \cup {New} /\ New \notin Live
      BY <1>1, <2>1, <2>2 DEF HandlesOK, Live
    <2>4. /\ Reserved' = Reserved \ {c} /\ c \in Reserved
          /\ Building' = Building \ {c} /\ c \in Building
      BY <1>1, <2>2 DEF HandlesOK, Go, Reserved, Building
    <2>5. Cardinality(Live') = Cardinality(Live) + 1
      BY <2>3, Finite, FS_AddElement
    <2>6. /\ Cardinality(Reserved') = Cardinality(Reserved) - 1
          /\ Cardinality(Building') = Cardinality(Building) - 1
      BY <2>4, Finite, FS_RemoveElement
    <2> QED
      BY <1>1, <2>2, <2>5, <2>6, Finite DEF QuotaInv
  <1>9. ASSUME NEW s \in Subs, (\E c \in Callers : SubDestroy(c, s)) \/ PollerEnds(s)
        PROVE  QuotaInv'
    BY <1>9, QuotaFreed DEF SubDestroy, PollerEnds
  <1> QED
    BY <1>3, <1>4, <1>5, <1>6, <1>7, <1>8, <1>9, Kinds DEF BodyStep

\* A receiver is never moved past the end of the log.
LEMMA ReceiveBounded ==
    ASSUME StreamsOK, NEW s \in Subs, Receive(s), UNCHANGED log
    PROVE  pos' \in [Subs -> Nat] /\ \A t \in Subs : pos'[t] <= Len(log')
  <1>1. Len(log) \in Nat /\ pos[s] \in Nat /\ pos[s] <= Len(log)
    BY DEF StreamsOK
  <1> DEFINE n == IF Lagged(s) THEN Len(log) - Capacity ELSE IF Ready(s) THEN pos[s] + 1 ELSE pos[s]
  <1>2. pos' = [pos EXCEPT ![s] = n]
    BY DEF Receive
  <1>3. n \in Nat /\ n <= Len(log)
    BY <1>1 DEF Lagged, Ready
  <1> HIDE DEF n
  <1> QED
    BY <1>1, <1>2, <1>3 DEF StreamsOK

\* The hub and the streams keep their types.
LEMMA StreamsStep ==
    ASSUME IndInv, [Next]_vars
    PROVE  StreamsOK'
  <1>1. StreamsOK
    BY DEF IndInv, TypeOK
  <1>2. CASE UNCHANGED vars
    BY <1>1, <1>2 DEF vars, hubVars, streamVars, StreamsOK
  <1>3. ASSUME UNCHANGED <<hubVars, pos, streamVars>>
        PROVE  StreamsOK'
    BY <1>1, <1>3 DEF hubVars, streamVars, StreamsOK
  <1>4. ASSUME NEW p \in Publishers, TakeNumber(p) \/ Send(p)
        PROVE  StreamsOK'
    <2>1. CASE TakeNumber(p)
      BY <1>1, <2>1 DEF TakeNumber, streamVars, StreamsOK
    <2>2. CASE Send(p)
      <3>1. held' \in [Publishers -> Nat]
        BY <1>1, <2>2 DEF Send, StreamsOK
      <3>2. log' \in Seq(Nat) /\ Len(log) <= Len(log')
        BY <1>1, <2>2 DEF Send, StreamsOK
      <3>3. \A s \in Subs : pos[s] <= Len(log')
        BY <1>1, <3>2 DEF StreamsOK
      <3> QED
        BY <1>1, <2>2, <3>1, <3>2, <3>3 DEF Send, streamVars, StreamsOK
    <2> QED
      BY <1>4, <2>1, <2>2
  <1>5. ASSUME NEW s \in Subs, Consume(s) \/ CancelStream(s)
        PROVE  StreamsOK'
    <2>1. CASE Consume(s)
      <3>1. /\ Head(buffer[s]) \in Nat /\ Tail(buffer[s]) \in Seq(Nat)
            /\ Len(Tail(buffer[s])) <= Buffering
        BY <1>1, <2>1 DEF Consume, StreamsOK
      <3> QED
        BY <1>1, <2>1, <3>1, SMTT(40) DEF Consume, hubVars, StreamsOK
    <2>2. CASE CancelStream(s)
      BY <1>1, <2>2 DEF CancelStream, hubVars, StreamsOK
    <2> QED
      BY <1>5, <2>1, <2>2
  <1>6. ASSUME NEW c \in Callers, hs_runtime_destroy(c) \/ hs_runtime_shutdown(c)
        PROVE  StreamsOK'
    BY <1>1, <1>6 DEF hs_runtime_destroy, hs_runtime_shutdown, streamVars, StreamsOK
  <1>7. ASSUME NEW c \in Callers, hs_subscribe_events(c)
        PROVE  StreamsOK'
    <2>1. PICK x \in {"loop", "none"} : poller' = [poller EXCEPT ![New] = x]
      BY <1>7 DEF hs_subscribe_events
    <2>2. /\ pos' = [pos EXCEPT ![New] = Len(log)]
          /\ UNCHANGED <<hubVars, cancelled, lastSequence, buffer, seen, ended>>
      BY <1>7 DEF hs_subscribe_events
    <2> HIDE DEF New
    <2>3. pos' \in [Subs -> Nat] /\ \A t \in Subs : pos'[t] <= Len(log')
      <3> DEFINE n == Len(log)
      <3>1. n \in Nat /\ log' = log
        BY <1>1, <2>2 DEF hubVars, StreamsOK
      <3>2. pos' = [pos EXCEPT ![New] = n]
        BY <2>2
      <3>3. pos \in [Subs -> Nat] /\ \A t \in Subs : pos[t] <= n
        BY <1>1 DEF StreamsOK
      <3>4. Len(log') = n
        BY <3>1
      <3> HIDE DEF n
      <3>5. pos' \in [Subs -> Nat]
        BY <3>1, <3>2, <3>3
      <3>6. ASSUME NEW t \in Subs PROVE pos'[t] <= n
        <4>1. pos'[t] = n \/ pos'[t] = pos[t]
          BY <3>2, <3>3
        <4> QED
          BY <3>1, <3>3, <4>1
      <3> QED
        BY <3>4, <3>5, <3>6
    <2>4. poller' \in [Subs -> {"none", "loop", "next", "closing", "over"}]
      BY <1>1, <2>1 DEF StreamsOK
    <2> QED
      BY <1>1, <2>2, <2>3, <2>4 DEF hubVars, StreamsOK
  <1>8. ASSUME NEW c \in Callers, SubNextReturns(c)
        PROVE  StreamsOK'
    <2>1. UNCHANGED <<hubVars, streamVars>> /\ Receive(arg[c])
      BY <1>8 DEF SubNextReturns
    <2>2. CASE arg[c] \in Subs
      BY <1>1, <2>1, <2>2, ReceiveBounded DEF hubVars, streamVars, StreamsOK
    <2>3. CASE arg[c] \notin Subs
      <3>1. pos' = pos
        BY <1>1, <2>1, <2>3 DEF Receive, StreamsOK
      <3> QED
        BY <1>3, <2>1, <3>1
    <2> QED
      BY <2>2, <2>3
  <1>9. ASSUME NEW s \in Subs, (\E c \in Callers : SubDestroy(c, s)) \/ PollerEnds(s)
        PROVE  StreamsOK'
    <2>1. pos' = [pos EXCEPT ![s] = 0] /\ UNCHANGED <<hubVars, cancelled, buffer, seen, ended>>
      BY <1>9 DEF SubDestroy, PollerEnds, SubDestroyed, streamVars
    <2>2. /\ poller' \in [Subs -> {"none", "loop", "next", "closing", "over"}]
          /\ lastSequence' \in [Subs -> Nat]
      <3>1. CASE UNCHANGED <<poller, lastSequence>>
        BY <1>1, <3>1 DEF StreamsOK
      <3>2. CASE PollerEnds(s)
        BY <1>1, <3>2 DEF PollerEnds, StreamsOK
      <3> QED
        BY <1>9, <3>1, <3>2 DEF SubDestroy, streamVars
    <2>3. pos' \in [Subs -> Nat] /\ \A t \in Subs : pos'[t] <= Len(log')
      BY <1>1, <2>1 DEF hubVars, StreamsOK
    <2> QED
      BY <1>1, <2>1, <2>2, <2>3 DEF hubVars, StreamsOK
  <1>10. ASSUME NEW s \in Subs, PollBegins(s)
         PROVE  StreamsOK'
    BY <1>1, <1>10 DEF PollBegins, Finish, hubVars, StreamsOK
  <1>11. ASSUME NEW s \in Subs, PollSentinel(s)
         PROVE  StreamsOK'
    <2>1. /\ poller' \in [Subs -> {"none", "loop", "next", "closing", "over"}]
          /\ ended' \in [Subs -> {"no", "done", "lagged", "gap"}]
      BY <1>1, <1>11 DEF PollSentinel, Finish, StreamsOK
    <2> QED
      BY <1>1, <1>11, <2>1, ReceiveBounded DEF PollSentinel, hubVars, StreamsOK
  <1>12. ASSUME NEW s \in Subs, PollEvent(s)
         PROVE  StreamsOK'
    <2>1. log[pos[s] + 1] \in Nat
      BY <1>1, <1>12, SMTT(40) DEF PollEvent, Ready, StreamsOK
    <2>2. /\ poller' \in [Subs -> {"none", "loop", "next", "closing", "over"}]
          /\ ended' \in [Subs -> {"no", "done", "lagged", "gap"}]
          /\ lastSequence' \in [Subs -> Nat]
      BY <1>1, <1>12, <2>1 DEF PollEvent, Finish, StreamsOK
    <2>3. buffer' \in [Subs -> Seq(Nat)] /\ \A t \in Subs : Len(buffer'[t]) <= Buffering
      <3> DEFINE n == log[pos[s] + 1]
      <3>1. buffer[s] \in Seq(Nat) /\ Len(buffer[s]) \in Nat
        BY <1>1 DEF StreamsOK
      <3>2. CASE UNCHANGED buffer
        BY <1>1, <3>2 DEF StreamsOK
      <3>3. CASE Len(buffer[s]) < Buffering /\ buffer' = [buffer EXCEPT ![s] = Append(@, n)]
        <4>1. Append(buffer[s], n) \in Seq(Nat) /\ Len(Append(buffer[s], n)) <= Buffering
          BY <2>1, <3>1, <3>3
        <4> QED
          BY <1>1, <3>3, <4>1 DEF StreamsOK
      <3>4. CASE Len(buffer[s]) = Buffering /\ buffer' = [buffer EXCEPT ![s] = Append(Tail(@), n)]
        <4>1. Append(Tail(buffer[s]), n) \in Seq(Nat) /\ Len(Append(Tail(buffer[s]), n)) <= Buffering
          BY <2>1, <3>1, <3>4
        <4> QED
          BY <1>1, <3>4, <4>1 DEF StreamsOK
      <3> QED
        BY <1>12, <3>2, <3>3, <3>4 DEF PollEvent
    <2> QED
      BY <1>1, <1>12, <2>2, <2>3, ReceiveBounded DEF PollEvent, hubVars, StreamsOK
  <1>13. CASE \/ Create
              \/ \E c \in Callers : \/ \E body \in Bodies : withRuntime(c, body)
                                    \/ destroy(c) \/ SpuriousWake(c) \/ ReturnLease(c) \/ Drained(c)
                                    \/ Call(c) \/ NestedDestroy(c) \/ acquire(c) \/ Reject(c)
                                    \/ SubscribeFails(c) \/ \E s \in Subs : SubNext(c, s)
    <2>1. UNCHANGED <<hubVars, pos, streamVars>>
      BY <1>13 DEF Create, withRuntime, destroy, SpuriousWake, ReturnLease, Drained, Call,
         NestedDestroy, acquire, Reject, SubscribeFails, SubNext
    <2> QED
      BY <1>3, <2>1
  <1> QED
    BY <1>2, <1>4, <1>5, <1>6, <1>7, <1>8, <1>9, <1>10, <1>11, <1>12, <1>13, Kinds
       DEF BodyStep, StreamStep

-----------------------------------------------------------------------------
(***************************************************************************)
(* What a consumer has been given.                                         *)
(***************************************************************************)

\* The next number keeps a sequence contiguous.
LEMMA AppendContiguous ==
    ASSUME NEW q \in Seq(Nat), NEW n \in Nat, Contiguous(q), q = <<>> \/ n = q[Len(q)] + 1
    PROVE  Contiguous(Append(q, n))
  <1>1. /\ Len(q) \in Nat /\ Len(Append(q, n)) = Len(q) + 1
        /\ \A i \in 1 .. Len(q) : Append(q, n)[i] = q[i]
        /\ Append(q, n)[Len(q) + 1] = n
    BY AppendProperties
  <1> SUFFICES ASSUME NEW i \in 1 .. Len(q)
               PROVE  Append(q, n)[i + 1] = Append(q, n)[i] + 1
    BY <1>1 DEF Contiguous
  <1>2. CASE i = Len(q)
    BY <1>1, <1>2
  <1>3. CASE i # Len(q)
    BY <1>1, <1>3 DEF Contiguous
  <1> QED
    BY <1>2, <1>3

\* What was consumed of a contiguous sequence is contiguous.
LEMMA PrefixContiguous ==
    ASSUME NEW q \in Seq(Nat), NEW r \in Seq(Nat), Contiguous(q \o r)
    PROVE  Contiguous(q)
  <1>1. Len(q) \in Nat /\ Len(r) \in Nat /\ Len(q \o r) = Len(q) + Len(r)
    BY ConcatProperties
  <1>2. \A i \in 1 .. Len(q) : (q \o r)[i] = q[i]
    BY <1>1, ConcatProperties
  <1> SUFFICES ASSUME NEW i \in 1 .. Len(q) - 1
               PROVE  q[i + 1] = q[i] + 1
    BY DEF Contiguous
  <1>3. (q \o r)[i + 1] = (q \o r)[i] + 1
    BY <1>1 DEF Contiguous
  <1>4. i \in 1 .. Len(q) /\ i + 1 \in 1 .. Len(q)
    BY <1>1
  <1> QED
    BY <1>2, <1>3, <1>4, Zenon

\* A sequence to which an item was appended ends in that item.
LEMMA LastOfAppend ==
    ASSUME NEW q \in Seq(Nat), NEW n \in Nat
    PROVE  Append(q, n) # <<>> /\ Append(q, n)[Len(Append(q, n))] = n
  <1>1. Len(q) \in Nat /\ Append(q, n) \in Seq(Nat)
    BY LenProperties, AppendProperties
  <1>2. Len(Append(q, n)) = Len(q) + 1 /\ Append(q, n)[Len(q) + 1] = n
    BY AppendProperties
  <1>3. Len(Append(q, n)) # 0
    BY <1>1, <1>2
  <1>4. Append(q, n) # <<>>
    BY <1>1, <1>3, EmptySeq
  <1> QED
    BY <1>2, <1>4

\* Yielding an event appends it to what is delivered.
LEMMA ConcatAppend ==
    ASSUME NEW q \in Seq(Nat), NEW r \in Seq(Nat), NEW n \in Nat
    PROVE  q \o Append(r, n) = Append(q \o r, n)
  <1>1. Append(r, n) = r \o <<n>> /\ <<n>> \in Seq(Nat)
    BY AppendIsConcat
  <1>2. q \o r \in Seq(Nat)
    BY ConcatProperties
  <1>3. Append(q \o r, n) = (q \o r) \o <<n>>
    BY <1>2, AppendIsConcat
  <1> QED
    BY <1>1, <1>3, ConcatAssociative

\* Consuming an event does not change what is delivered.
LEMMA ConsumeSame ==
    ASSUME NEW q \in Seq(Nat), NEW r \in Seq(Nat), r # <<>>
    PROVE  Append(q, Head(r)) \o Tail(r) = q \o r
  <1>1. Head(r) \in Nat /\ Tail(r) \in Seq(Nat)
    BY HeadTailProperties
  <1>2. r = <<Head(r)>> \o Tail(r)
    OBVIOUS
  <1>3. Append(q, Head(r)) = q \o <<Head(r)>> /\ <<Head(r)>> \in Seq(Nat)
    BY <1>1, AppendIsConcat
  <1>4. (q \o <<Head(r)>>) \o Tail(r) = q \o (<<Head(r)>> \o Tail(r))
    BY <1>1, <1>3, ConcatAssociative, SMTT(40)
  <1> QED
    BY <1>2, <1>3, <1>4, Zenon

\* A stream a step does not touch stays as it is; the hub may close and a
\* handle of it may be made or freed.
LEMMA StreamSame ==
    ASSUME NEW t \in Subs, StreamOf(t),
           seen'[t] = seen[t], buffer'[t] = buffer[t], lastSequence'[t] = lastSequence[t],
           poller'[t] = poller[t], cancelled'[t] = cancelled[t], ended'[t] = ended[t],
           sub'[t] = sub[t] \/ sub'[t] # "none", hub' = hub \/ hub' = "closed"
    PROVE  StreamOf(t)'
  <1>1. Delivered(t)' = Delivered(t)
    BY DEF Delivered
  <1>2. Contiguous(Delivered(t))' <=> Contiguous(Delivered(t))
    BY <1>1 DEF Contiguous
  <1> QED
    BY <1>1, <1>2 DEF StreamOf

\* A poller that finishes without yielding keeps what was delivered, and an
\* error or the end of the hub is what the consumer is told.
LEMMA StreamFinished ==
    ASSUME StreamsOK, NEW s \in Subs, StreamOf(s), poller[s] \in {"loop", "next"},
           NEW how \in {"done", "lagged", "gap"}, Finish(s, how),
           how = "done" => cancelled[s] \/ hub = "closed",
           UNCHANGED <<seen, buffer, cancelled, sub, hub>>
    PROVE  StreamOf(s)'
  <1>1. Delivered(s)' = Delivered(s) /\ (Contiguous(Delivered(s))' <=> Contiguous(Delivered(s)))
    BY DEF Delivered, Contiguous
  <1>2. ended[s] = "no" /\ sub[s] # "none" /\ Contiguous(Delivered(s))
    BY DEF StreamOf
  <1>3. poller'[s] = "closing" /\ ended'[s] = IF ~cancelled[s] THEN how ELSE "no"
    BY <1>2 DEF Finish, StreamsOK
  <1> QED
    BY <1>1, <1>2, <1>3 DEF StreamOf

\* The numbers are positive and the streams know what they passed on.
LEMMA StreamInvStep ==
    ASSUME IndInv, [Next]_vars
    PROVE  StreamInv'
  <1>1. StreamsOK /\ HandlesOK /\ StreamInv
    BY DEF IndInv, TypeOK
  <1>2. /\ next_sequence' # 0
        /\ \A i \in 1 .. Len(log') : log'[i] # 0
    <2>1. CASE \E p \in Publishers : TakeNumber(p)
      BY <1>1, <2>1 DEF TakeNumber, StreamInv, StreamsOK
    <2>2. ASSUME NEW p \in Publishers, Send(p)
          PROVE  next_sequence' # 0 /\ \A i \in 1 .. Len(log') : log'[i] # 0
      <3>1. held[p] \in Nat /\ held[p] # 0 /\ next_sequence' = next_sequence
        BY <1>1, <2>2 DEF Send, StreamsOK
      <3>2. CASE log' = log
        BY <1>1, <3>1, <3>2 DEF StreamInv
      <3>3. CASE log' = Append(log, held[p])
        <4>1. /\ log \in Seq(Nat) /\ Len(log) \in Nat
              /\ Len(log') = Len(log) + 1 /\ log'[Len(log) + 1] = held[p]
              /\ \A i \in 1 .. Len(log) : log'[i] = log[i]
          BY <1>1, <3>1, <3>3, AppendProperties DEF StreamsOK
        <4> QED
          BY <1>1, <3>1, <4>1 DEF StreamInv
      <3> QED
        BY <2>2, <3>2, <3>3 DEF Send
    <2>3. CASE UNCHANGED <<next_sequence, log>>
      BY <1>1, <2>3 DEF StreamInv
    <2> QED
      BY <2>1, <2>2, <2>3, Kinds, ZenonT(60) DEF BodyStep, StreamStep, vars, hubVars, Create, withRuntime,
         destroy, SpuriousWake, ReturnLease, Drained, hs_runtime_destroy, Call,
         hs_runtime_shutdown, NestedDestroy, acquire, Reject, SubscribeFails, hs_subscribe_events,
         SubNextReturns, SubNext, SubDestroy, PollBegins, PollEvent, PollSentinel, PollerEnds,
         Consume, CancelStream
  <1> SUFFICES ASSUME NEW t \in Subs PROVE StreamOf(t)'
    BY <1>2 DEF StreamInv
  <1>3. StreamOf(t)
    BY <1>1 DEF StreamInv
  <1>4. CASE \/ UNCHANGED vars \/ Create
             \/ \E p \in Publishers : TakeNumber(p) \/ Send(p)
             \/ \E c \in Callers : \/ \E body \in Bodies : withRuntime(c, body)
                                   \/ destroy(c) \/ SpuriousWake(c) \/ ReturnLease(c) \/ Drained(c)
                                   \/ hs_runtime_destroy(c) \/ Call(c) \/ hs_runtime_shutdown(c)
                                   \/ NestedDestroy(c) \/ acquire(c) \/ Reject(c)
                                   \/ SubscribeFails(c) \/ SubNextReturns(c)
                                   \/ \E s \in Subs : SubNext(c, s)
    <2>1. UNCHANGED <<streamVars, sub>> /\ (hub' = hub \/ hub' = "closed")
      BY <1>4 DEF vars, hubVars, Create, TakeNumber, Send, withRuntime, destroy, SpuriousWake,
         ReturnLease, Drained, hs_runtime_destroy, Call, hs_runtime_shutdown, NestedDestroy,
         acquire, Reject, SubscribeFails, SubNextReturns, SubNext
    <2> QED
      BY <1>3, <2>1, StreamSame DEF streamVars
  <1>5. ASSUME NEW c \in Callers, NEW s \in Subs, SubDestroy(c, s)
        PROVE  StreamOf(t)'
    <2>1. UNCHANGED <<streamVars, hub>> /\ sub' = [sub EXCEPT ![s] = "freed"]
      BY <1>5 DEF SubDestroy, SubDestroyed, hubVars
    <2>2. sub'[t] = sub[t] \/ sub'[t] # "none"
      BY <1>1, <2>1 DEF HandlesOK
    <2> QED
      BY <1>3, <2>1, <2>2, StreamSame DEF streamVars
  <1>6. ASSUME NEW c \in Callers, hs_subscribe_events(c)
        PROVE  StreamOf(t)'
    <2>1. New \in Subs /\ sub[New] = "none"
      BY <1>6 DEF hs_subscribe_events, New
    <2>2. /\ UNCHANGED <<hub, cancelled, lastSequence, buffer, seen, ended>>
          /\ sub' = [sub EXCEPT ![New] = "live"]
          /\ \E x \in {"loop", "none"} : poller' = [poller EXCEPT ![New] = x]
      BY <1>6 DEF hs_subscribe_events, hubVars
    <2> HIDE DEF New
    <2>3. CASE t = New
      <3>1. Delivered(t)' = Delivered(t) /\ (Contiguous(Delivered(t))' <=> Contiguous(Delivered(t)))
        BY <2>2 DEF Delivered, Contiguous
      <3>2. /\ sub'[t] = "live" /\ poller'[t] \in {"loop", "none"}
            /\ poller[t] = "none" /\ ended[t] = "no"
        BY <1>1, <1>3, <2>1, <2>2, <2>3 DEF StreamOf, HandlesOK, StreamsOK
      <3> QED
        BY <1>3, <2>2, <3>1, <3>2 DEF StreamOf
    <2>4. CASE t # New
      <3>1. sub'[t] = sub[t] /\ poller'[t] = poller[t]
        BY <1>1, <2>1, <2>2, <2>4 DEF HandlesOK, StreamsOK
      <3> QED
        BY <1>3, <2>2, <3>1, StreamSame
    <2> QED
      BY <2>3, <2>4
  <1>7. ASSUME NEW s \in Subs, s # t, \/ PollBegins(s) \/ PollEvent(s) \/ PollSentinel(s)
                                     \/ PollerEnds(s) \/ Consume(s) \/ CancelStream(s)
        PROVE  StreamOf(t)'
    <2>1. hub' = hub
      BY <1>7 DEF PollBegins, PollEvent, PollSentinel, PollerEnds, Consume, CancelStream, hubVars
    <2>2. sub'[t] = sub[t] /\ poller'[t] = poller[t] /\ ended'[t] = ended[t]
      BY <1>1, <1>7, SMTT(40) DEF PollBegins, PollEvent, PollSentinel, PollerEnds, Consume, CancelStream,
         Finish, SubDestroyed, HandlesOK, StreamsOK
    <2>3. seen'[t] = seen[t] /\ cancelled'[t] = cancelled[t] /\ lastSequence'[t] = lastSequence[t]
      BY <1>1, <1>7 DEF PollBegins, PollEvent, PollSentinel, PollerEnds, Consume, CancelStream,
         StreamsOK
    <2>4. buffer'[t] = buffer[t]
      BY <1>1, <1>7 DEF PollBegins, PollEvent, PollSentinel, PollerEnds, Consume, CancelStream,
         StreamsOK
    <2> QED
      BY <1>3, <2>1, <2>2, <2>3, <2>4, StreamSame
  <1>8. CASE PollBegins(t)
    <2>1. UNCHANGED <<seen, buffer, cancelled, sub, hub, lastSequence>> /\ poller[t] = "loop"
      BY <1>8 DEF PollBegins, hubVars
    <2>2. CASE cancelled[t] /\ Finish(t, "done")
      BY <1>1, <1>3, <2>1, <2>2, StreamFinished
    <2>3. CASE poller' = [poller EXCEPT ![t] = "next"] /\ ended' = ended
      <3>1. Delivered(t)' = Delivered(t) /\ (Contiguous(Delivered(t))' <=> Contiguous(Delivered(t)))
        BY <2>1 DEF Delivered, Contiguous
      <3>2. poller'[t] = "next"
        BY <1>1, <2>3 DEF StreamsOK
      <3> QED
        BY <1>3, <2>1, <2>3, <3>1, <3>2 DEF StreamOf
    <2> QED
      BY <1>8, <2>2, <2>3 DEF PollBegins
  <1>9. CASE PollSentinel(t)
    <2>1. UNCHANGED <<seen, buffer, cancelled, sub, hub, lastSequence>> /\ poller[t] = "next"
      BY <1>9 DEF PollSentinel, hubVars
    <2>2. CASE Finish(t, "lagged") \/ (Finish(t, "done") /\ hub = "closed")
      BY <1>1, <1>3, <2>1, <2>2, StreamFinished
    <2>3. CASE poller' = [poller EXCEPT ![t] = "loop"] /\ ended' = ended
      <3>1. Delivered(t)' = Delivered(t) /\ (Contiguous(Delivered(t))' <=> Contiguous(Delivered(t)))
        BY <2>1 DEF Delivered, Contiguous
      <3>2. poller'[t] = "loop"
        BY <1>1, <2>3 DEF StreamsOK
      <3> QED
        BY <1>3, <2>1, <2>3, <3>1, <3>2 DEF StreamOf
    <2> QED
      BY <1>9, <2>2, <2>3 DEF PollSentinel, Closed
  <1>10. CASE PollerEnds(t)
    <2>1. UNCHANGED <<seen, buffer, cancelled, hub, ended>> /\ poller[t] = "closing"
      BY <1>10 DEF PollerEnds, hubVars
    <2>2. poller'[t] = "over" /\ sub'[t] = "freed"
      BY <1>1, <1>10 DEF PollerEnds, SubDestroyed, StreamsOK, HandlesOK
    <2>3. Delivered(t)' = Delivered(t) /\ (Contiguous(Delivered(t))' <=> Contiguous(Delivered(t)))
      BY <2>1 DEF Delivered, Contiguous
    <2> QED
      BY <1>3, <2>1, <2>2, <2>3 DEF StreamOf
  <1>11. CASE Consume(t)
    <2>1. UNCHANGED <<hub, sub, poller, cancelled, lastSequence, ended>>
      BY <1>11 DEF Consume, hubVars
    <2>2. seen[t] \in Seq(Nat) /\ buffer[t] \in Seq(Nat) /\ buffer[t] # <<>>
      BY <1>1, <1>11 DEF Consume, StreamsOK
    <2>3. seen'[t] = Append(seen[t], Head(buffer[t])) /\ buffer'[t] = Tail(buffer[t])
      BY <1>1, <1>11 DEF Consume, StreamsOK
    <2>4. Delivered(t)' = Delivered(t)
      BY <2>2, <2>3, ConsumeSame DEF Delivered
    <2>5. Contiguous(Delivered(t))' <=> Contiguous(Delivered(t))
      BY <2>4 DEF Contiguous
    <2> QED
      BY <1>3, <2>1, <2>4, <2>5 DEF StreamOf
  <1>12. CASE CancelStream(t)
    <2>1. UNCHANGED <<hub, sub, poller, lastSequence, ended, seen>> /\ poller[t] \in {"loop", "next"}
      BY <1>12 DEF CancelStream, hubVars
    <2>2. seen[t] \in Seq(Nat) /\ buffer[t] \in Seq(Nat) /\ buffer'[t] = <<>> /\ cancelled'[t]
      BY <1>1, <1>12 DEF CancelStream, StreamsOK
    <2>3. Delivered(t)' = seen[t]
      BY <2>1, <2>2, ConcatEmptySeq DEF Delivered
    <2>4. Contiguous(seen[t])
      BY <1>3, <2>1, <2>2, PrefixContiguous DEF StreamOf, Delivered
    <2>5. Contiguous(Delivered(t))'
      BY <2>3, <2>4 DEF Contiguous
    <2> QED
      BY <1>3, <2>1, <2>2, <2>5 DEF StreamOf
  <1>13. CASE PollEvent(t)
    <2> DEFINE n == log[pos[t] + 1]
    <2>1. UNCHANGED <<hub, sub, cancelled, seen>> /\ poller[t] = "next" /\ Ready(t)
      BY <1>13 DEF PollEvent, hubVars
    <2>2. n \in Nat /\ n # 0
      BY <1>1, <2>1 DEF Ready, StreamsOK, StreamInv
    <2>3. ended[t] = "no" /\ sub[t] # "none" /\ Contiguous(Delivered(t))
      BY <1>3, <2>1 DEF StreamOf
    <2>4. CASE UNCHANGED buffer /\ (Finish(t, "gap") \/ (cancelled[t] /\ Finish(t, "done")))
      BY <1>1, <1>3, <2>1, <2>4, StreamFinished
    <2>5. CASE /\ ~Gap(t, n) /\ ~cancelled[t]
               /\ lastSequence' = [lastSequence EXCEPT ![t] = n]
               /\ buffer' = [buffer EXCEPT ![t] = Append(@, n)]
               /\ poller' = [poller EXCEPT ![t] = "loop"] /\ ended' = ended
      <3> HIDE DEF n
      <3>1. seen[t] \in Seq(Nat) /\ buffer[t] \in Seq(Nat) /\ Delivered(t) \in Seq(Nat)
        BY <1>1, ConcatProperties DEF StreamsOK, Delivered
      <3>2. buffer'[t] = Append(buffer[t], n) /\ lastSequence'[t] = n /\ poller'[t] = "loop"
        BY <1>1, <2>5 DEF StreamsOK
      <3>3. Delivered(t)' = Append(Delivered(t), n)
        <4>1. seen[t] \o Append(buffer[t], n) = Append(seen[t] \o buffer[t], n)
          BY <2>2, <3>1, ConcatAppend
        <4>2. seen' = seen
          BY <2>1
        <4> QED
          BY <3>2, <4>1, <4>2, Zenon DEF Delivered
      <3>4. Delivered(t) = <<>> \/ n = Delivered(t)[Len(Delivered(t))] + 1
        BY <1>3, <2>1, <2>5 DEF StreamOf, Gap
      <3>5. Contiguous(Append(Delivered(t), n))
        BY <2>2, <2>3, <3>1, <3>4, AppendContiguous
      <3>6. Contiguous(Delivered(t))'
        BY <3>3, <3>5 DEF Contiguous
      <3>7. Delivered(t)' # <<>> /\ Delivered(t)'[Len(Delivered(t)')] = n
        <4>1. Append(Delivered(t), n) # <<>> /\ Append(Delivered(t), n)[Len(Append(Delivered(t), n))] = n
          BY <2>2, <3>1, LastOfAppend
        <4> QED
          BY <3>3, <4>1, Zenon
      <3> QED
        BY <1>3, <2>1, <2>2, <2>3, <2>5, <3>2, <3>6, <3>7 DEF StreamOf
    <2>6. CASE ~cancelled[t] /\ Finish(t, "gap")
      <3>1. poller'[t] = "closing" /\ ended'[t] = "gap"
        BY <1>1, <2>3, <2>6 DEF Finish, StreamsOK
      <3> QED
        BY <2>1, <2>3, <3>1 DEF StreamOf
    <2> QED
      BY <1>13, <2>4, <2>5, <2>6 DEF PollEvent
  <1> QED
    BY <1>4, <1>5, <1>6, <1>7, <1>8, <1>9, <1>10, <1>11, <1>12, <1>13, Kinds DEF BodyStep, StreamStep

-----------------------------------------------------------------------------
(***************************************************************************)
(* The theorems.                                                           *)
(***************************************************************************)

\* The invariant is inductive.
LEMMA Inductive == Spec => []IndInv
  <1>1. IndInv /\ [Next]_vars => IndInv'
    BY HandlesStep, StreamsStep, LeaseStep, LockStep, QuotaStep, StreamInvStep DEF IndInv, TypeOK
  <1> QED
    BY <1>1, InitInv, PTL DEF Spec

\* Every variable keeps its type: the counters of leases and subscriptions
\* never go below 0 and no receiver is moved past the end of the log.
THEOREM TypeCorrect == Spec => []TypeOK
  BY Inductive, PTL DEF IndInv

\* No thread is ever inside a call on a runtime that is being freed, and no
\* lock of a freed subscription is held, however destroy(), calls, wake-ups and
\* pollers interleave.
THEOREM HandlesSafe == Spec => []NoUseAfterFree
  <1>1. IndInv => NoUseAfterFree
    BY DEF IndInv, LeaseInv, LockInv, InCall, NoUseAfterFree
  <1> QED
    BY <1>1, Inductive, PTL

\* The counter of subscriptions is exact however a subscribe ends, and the
\* quota holds for any number of threads that subscribe at once.
THEOREM QuotaKept == Spec => []QuotaExact
  <1>1. IndInv => QuotaExact
    BY Finite DEF IndInv, QuotaInv, QuotaExact
  <1> QED
    BY <1>1, Inductive, PTL

\* A consumer whose stream goes on or ends normally has seen every event since
\* its first in order, whatever the publishers, the lag, its own speed and the
\* moment it cancels; a normal end means that the hub was closed.
THEOREM NothingLost == Spec => []NothingSilentlyLost
  <1>1. IndInv => NothingSilentlyLost
    BY DEF IndInv, StreamInv, StreamOf, NothingSilentlyLost
  <1> QED
    BY <1>1, Inductive, PTL
=============================================================================
