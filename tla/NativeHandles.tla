--------------------------- MODULE NativeHandles ---------------------------
(***************************************************************************)
(* The handles of the C ABI (handshaker-ffi) and their Swift owners        *)
(* (RuntimeHandle.swift, EventStream.swift): who may hold the pointer of   *)
(* a runtime or of a subscription when it is freed, the quota of           *)
(* subscriptions, and what a consumer of the event stream can rely on.     *)
(*                                                                         *)
(* One runtime handle is shared by the Callers.  A call leases the pointer *)
(* (withRuntime), runs its body on the caller's thread and returns the     *)
(* lease; destroy() waits for the leases to drain.  A subscription is      *)
(* either read by callers directly or by the poller of an event stream.    *)
(***************************************************************************)
EXTENDS Naturals, Sequences, FiniteSets

CONSTANTS
    Callers,            \* threads of the Swift process
    Subs,               \* subscriptions that may be made
    Publishers,         \* tasks of the Rust runtime that publish events
    Free,               \* a lock nobody holds
    MAX_SUBSCRIPTIONS,
    Capacity,           \* event_capacity of the hub
    Buffering,          \* the .bufferingNewest bound of a stream
    MaxEvents           \* bound on the events published

ASSUME BoundsAssumption ==
    /\ IsFiniteSet(Callers) /\ IsFiniteSet(Subs)
    /\ MAX_SUBSCRIPTIONS \in Nat \ {0}
    /\ Capacity \in Nat \ {0} /\ Buffering \in Nat \ {0} /\ MaxEvents \in Nat

VARIABLES
    rawPtr, destroyed, inFlight,    \* RuntimeHandle
    runtime,        \* the Box<HsRuntime>: "none", "live" or "freed"
    counter,        \* HsRuntime.subscriptions
    pc, arg,        \* what each caller does, and the subscription it does it to
    hub,            \* the event hub: "open" or "closed"
    next_sequence, held,    \* the next number, and the number a publisher has taken
    log,            \* the numbers sent through the hub, in order
    sub,            \* each Box<HsSubscription>: "none", "live", "freed"
    lock,           \* SubscriptionHandle.lock
    pos,            \* how much of log a receiver has taken
    poller,         \* each stream's task: "none", "loop", "next", "closing" or "over"
    cancelled,      \* the consumer dropped the stream
    lastSequence,   \* the poller's variable; 0 before the first event
    buffer, seen,   \* events yielded and not yet consumed; events consumed
    ended           \* how a stream finished: "no", "done", "lagged" or "gap"

handleVars == <<rawPtr, destroyed, inFlight, runtime>>
hubVars == <<hub, next_sequence, held, log>>
streamVars == <<poller, cancelled, lastSequence, buffer, seen, ended>>
vars == <<handleVars, counter, pc, arg, hubVars, sub, lock, pos, streamVars>>

Bodies == {"call", "shutdown", "subscribe", "nested"}
Leased == Bodies \cup {"reject", "build", "release"}
Reserved == {c \in Callers : pc[c] \in {"reject", "build"}}
Live == {s \in Subs : sub[s] = "live"}

HandlesOK ==
    /\ rawPtr \in BOOLEAN /\ destroyed \in BOOLEAN /\ inFlight \in Nat
    /\ runtime \in {"none", "live", "freed"} /\ counter \in Nat
    /\ pc \in [Callers -> Leased \cup {"idle", "asleep", "awake", "destroying", "dropping", "next"}]
    /\ arg \in [Callers -> Subs \cup {Free}]
    /\ sub \in [Subs -> {"none", "live", "freed"}]
    /\ lock \in [Subs -> Callers \cup Subs \cup {Free}]

StreamsOK ==
    /\ hub \in {"open", "closed"} /\ next_sequence \in Nat /\ held \in [Publishers -> Nat]
    /\ log \in Seq(Nat)
    /\ pos \in [Subs -> Nat] /\ \A s \in Subs : pos[s] <= Len(log)
    /\ poller \in [Subs -> {"none", "loop", "next", "closing", "over"}]
    /\ cancelled \in [Subs -> BOOLEAN] /\ lastSequence \in [Subs -> Nat]
    /\ buffer \in [Subs -> Seq(Nat)] /\ \A s \in Subs : Len(buffer[s]) <= Buffering
    /\ seen \in [Subs -> Seq(Nat)]
    /\ ended \in [Subs -> {"no", "done", "lagged", "gap"}]

\* Every variable holds a value the code's types allow; a receiver is never past
\* the end of the log and a stream's buffer never over its bound.
TypeOK == HandlesOK /\ StreamsOK

Init ==
    /\ rawPtr = FALSE /\ destroyed = FALSE /\ inFlight = 0 /\ runtime = "none" /\ counter = 0
    /\ pc = [c \in Callers |-> "idle"] /\ arg = [c \in Callers |-> Free]
    /\ hub = "open" /\ next_sequence = 1 /\ held = [p \in Publishers |-> 0] /\ log = <<>>
    /\ sub = [s \in Subs |-> "none"] /\ lock = [s \in Subs |-> Free] /\ pos = [s \in Subs |-> 0]
    /\ poller = [s \in Subs |-> "none"] /\ cancelled = [s \in Subs |-> FALSE]
    /\ lastSequence = [s \in Subs |-> 0]
    /\ buffer = [s \in Subs |-> <<>>] /\ seen = [s \in Subs |-> <<>>]
    /\ ended = [s \in Subs |-> "no"]

Go(c, where) == pc' = [pc EXCEPT ![c] = where]

(***************************************************************************)
(* RuntimeHandle: creation, leases and destruction.                        *)
(***************************************************************************)

\* hs_runtime_create; one that fails hands out nothing.
Create ==
    /\ runtime = "none"
    /\ runtime' = "live" /\ rawPtr' = TRUE
    /\ UNCHANGED <<destroyed, inFlight, counter, pc, arg, hubVars, sub, lock, pos, streamVars>>

\* withRuntime: the pointer is handed out and counted under the lock; a
\* destroyed handle throws instead.
withRuntime(c, body) ==
    /\ pc[c] = "idle" /\ rawPtr /\ ~destroyed
    /\ inFlight' = inFlight + 1
    /\ Go(c, body)
    /\ UNCHANGED <<rawPtr, destroyed, runtime, counter, arg, hubVars, sub, lock, pos, streamVars>>

Asleep == {c \in Callers : pc[c] = "asleep"}

\* The end of withRuntime: the last lease wakes the thread in destroy().
ReturnLease(c) ==
    /\ pc[c] = "release"
    /\ inFlight' = inFlight - 1
    /\ pc' = [d \in Callers |-> IF d = c THEN "idle"
                                ELSE IF inFlight = 1 /\ d \in Asleep THEN "awake" ELSE pc[d]]
    /\ UNCHANGED <<rawPtr, destroyed, runtime, counter, arg, hubVars, sub, lock, pos, streamVars>>

\* NSCondition may also wake without a signal (external).
SpuriousWake(c) ==
    /\ pc[c] = "asleep" /\ Go(c, "awake")
    /\ UNCHANGED <<handleVars, counter, arg, hubVars, sub, lock, pos, streamVars>>

\* Wait for the leases, or take the pointer.
DrainOrTake(c) ==
    IF inFlight > 0 THEN Go(c, "asleep") /\ UNCHANGED rawPtr
    ELSE Go(c, "destroying") /\ rawPtr' = FALSE

\* destroy(): the first caller closes the handle for new leases; the others
\* return at once.
destroy(c) ==
    /\ pc[c] = "idle" /\ runtime # "none" /\ ~destroyed
    /\ destroyed' = TRUE
    /\ DrainOrTake(c)
    /\ UNCHANGED <<inFlight, runtime, counter, arg, hubVars, sub, lock, pos, streamVars>>

\* Mutant of Drained: woken is taken for drained.
Drained_once(c) ==
    /\ pc[c] = "awake"
    /\ Go(c, "destroying") /\ rawPtr' = FALSE
    /\ UNCHANGED <<destroyed, inFlight, runtime, counter, arg, hubVars, sub, lock, pos, streamVars>>

Drained(c) ==
    /\ pc[c] = "awake"
    /\ DrainOrTake(c)
    /\ UNCHANGED <<destroyed, inFlight, runtime, counter, arg, hubVars, sub, lock, pos, streamVars>>

\* hs_runtime_destroy shuts the application runtime down, which closes the
\* hub, and then drops the box with its executor.
hs_runtime_destroy(c) ==
    /\ \/ pc[c] = "destroying" /\ hub' = "closed" /\ Go(c, "dropping") /\ UNCHANGED <<runtime, held>>
       \/ /\ pc[c] = "dropping" /\ runtime' = "freed" /\ Go(c, "idle")
          /\ held' = [p \in Publishers |-> 0] /\ UNCHANGED hub
    /\ UNCHANGED <<rawPtr, destroyed, inFlight, counter, arg, next_sequence, log, sub, lock, pos, streamVars>>

(***************************************************************************)
(* The bodies of calls.                                                    *)
(***************************************************************************)

\* Any request: arguments are checked, the future runs on the executor, a
\* panic becomes an error.  The handle is only read.
Call(c) ==
    /\ pc[c] = "call" /\ Go(c, "release")
    /\ UNCHANGED <<handleVars, counter, arg, hubVars, sub, lock, pos, streamVars>>

\* hs_runtime_shutdown: at its end the hub is closed, once or again.
hs_runtime_shutdown(c) ==
    /\ pc[c] = "shutdown" /\ hub' = "closed" /\ Go(c, "release")
    /\ UNCHANGED <<handleVars, counter, arg, next_sequence, held, log, sub, lock, pos, streamVars>>

\* Mutant of NestedDestroy: no guard against a wait for one's own lease.
NestedDestroy_waits(c) ==
    /\ pc[c] = "nested"
    /\ IF destroyed THEN Go(c, "release") /\ UNCHANGED destroyed
       ELSE destroyed' = TRUE /\ Go(c, "asleep")
    /\ UNCHANGED <<rawPtr, inFlight, runtime, counter, arg, hubVars, sub, lock, pos, streamVars>>

\* destroy() from inside a body returns: the thread's own lease would never
\* drain.
NestedDestroy(c) ==
    /\ pc[c] = "nested" /\ Go(c, "release")
    /\ UNCHANGED <<handleVars, counter, arg, hubVars, sub, lock, pos, streamVars>>

\* SubscriptionReservation::acquire: count first, look at the old value.
acquire(c) ==
    /\ pc[c] = "subscribe"
    /\ counter' = counter + 1
    /\ Go(c, IF counter >= MAX_SUBSCRIPTIONS THEN "reject" ELSE "build")
    /\ UNCHANGED <<handleVars, arg, hubVars, sub, lock, pos, streamVars>>

Reject(c) ==
    /\ pc[c] = "reject"
    /\ counter' = counter - 1 /\ Go(c, "release")
    /\ UNCHANGED <<handleVars, arg, hubVars, sub, lock, pos, streamVars>>

\* Mutant of SubscribeFails: the reservation is only returned by destroy.
SubscribeFails_leaks(c) ==
    /\ pc[c] = "build" /\ Go(c, "release")
    /\ UNCHANGED <<handleVars, counter, arg, hubVars, sub, lock, pos, streamVars>>

\* The executor of the subscription cannot be built, or something panics: the
\* reservation is dropped armed.
SubscribeFails(c) ==
    /\ pc[c] = "build"
    /\ counter' = counter - 1 /\ Go(c, "release")
    /\ UNCHANGED <<handleVars, arg, hubVars, sub, lock, pos, streamVars>>

\* The name the next subscription gets, bounded by Subs.
New == CHOOSE s \in Subs : sub[s] = "none"

\* hs_subscribe_events: the receiver starts at the end of the log; the count
\* belongs to the handle now.  eventStream() starts a poller, subscribe()
\* leaves the handle to its caller.
hs_subscribe_events(c) ==
    /\ pc[c] = "build" /\ Go(c, "release")
    /\ \E s \in Subs : sub[s] = "none"
    /\ \E s \in {New}, stream \in BOOLEAN :
          /\ sub' = [sub EXCEPT ![s] = "live"]
          /\ pos' = [pos EXCEPT ![s] = Len(log)]
          /\ poller' = [poller EXCEPT ![s] = IF stream THEN "loop" ELSE "none"]
    /\ UNCHANGED <<handleVars, counter, arg, hubVars, lock, cancelled, lastSequence, buffer, seen, ended>>

(***************************************************************************)
(* The hub and a receiver.                                                 *)
(***************************************************************************)

\* publish: the number is taken before the lock of the hub ...
TakeNumber(p) ==
    /\ runtime = "live" /\ held[p] = 0 /\ next_sequence <= MaxEvents
    /\ held' = [held EXCEPT ![p] = next_sequence]
    /\ next_sequence' = next_sequence + 1
    /\ UNCHANGED <<handleVars, counter, pc, arg, hub, log, sub, lock, pos, streamVars>>

\* ... and sent under it, or dropped when the hub is closed.
Send(p) ==
    /\ held[p] # 0
    /\ log' = IF hub = "open" THEN Append(log, held[p]) ELSE log
    /\ held' = [held EXCEPT ![p] = 0]
    /\ UNCHANGED <<handleVars, counter, pc, arg, hub, next_sequence, sub, lock, pos, streamVars>>

\* recv() of tokio's broadcast channel (external): what it may answer.
Lagged(s) == Len(log) - pos[s] > Capacity
Ready(s) == pos[s] < Len(log) /\ ~Lagged(s)
Closed(s) == pos[s] = Len(log) /\ hub = "closed"
Empty(s) == pos[s] = Len(log) /\ hub = "open"

\* hs_subscription_next moves the receiver past what it reports.
Receive(s) ==
    pos' = [pos EXCEPT ![s] = IF Lagged(s) THEN Len(log) - Capacity
                              ELSE IF Ready(s) THEN @ + 1 ELSE @]

(***************************************************************************)
(* SubscriptionHandle used directly.                                       *)
(***************************************************************************)

\* next(timeoutMs:) holds the lock for as long as the native call takes.
SubNext(c, s) ==
    /\ pc[c] = "idle" /\ poller[s] = "none" /\ sub[s] = "live" /\ lock[s] = Free
    /\ lock' = [lock EXCEPT ![s] = c] /\ arg' = [arg EXCEPT ![c] = s] /\ Go(c, "next")
    /\ UNCHANGED <<handleVars, counter, hubVars, sub, pos, streamVars>>

SubNextReturns(c) ==
    /\ pc[c] = "next"
    /\ Receive(arg[c])
    /\ lock' = [lock EXCEPT ![arg[c]] = Free] /\ arg' = [arg EXCEPT ![c] = Free] /\ Go(c, "idle")
    /\ UNCHANGED <<handleVars, counter, hubVars, sub, streamVars>>

\* SubscriptionHandle.destroy and hs_subscription_destroy: under the lock,
\* once; the slot is given back and the box dropped.
SubDestroyed(s) ==
    /\ lock[s] = Free /\ sub[s] = "live"
    /\ sub' = [sub EXCEPT ![s] = "freed"] /\ pos' = [pos EXCEPT ![s] = 0]
    /\ counter' = counter - 1

SubDestroy(c, s) ==
    /\ pc[c] = "idle" /\ poller[s] = "none"
    /\ SubDestroyed(s)
    /\ UNCHANGED <<handleVars, pc, arg, hubVars, lock, streamVars>>

(***************************************************************************)
(* EventStream: the poller task and its consumer.                          *)
(***************************************************************************)

Finish(s, how) ==
    /\ poller' = [poller EXCEPT ![s] = "closing"]
    /\ ended' = [ended EXCEPT ![s] = IF @ = "no" /\ ~cancelled[s] THEN how ELSE @]

\* One round of the loop: a cancelled task leaves, otherwise next() is called.
PollBegins(s) ==
    /\ poller[s] = "loop" /\ lock[s] = Free
    /\ \/ cancelled[s] /\ Finish(s, "done") /\ UNCHANGED lock
       \/ /\ ~cancelled[s] /\ lock' = [lock EXCEPT ![s] = s]
          /\ poller' = [poller EXCEPT ![s] = "next"] /\ UNCHANGED ended
    /\ UNCHANGED <<handleVars, counter, pc, arg, hubVars, sub, pos, cancelled, lastSequence, buffer, seen>>

\* Mutant of Gap: only a number that was skipped counts.
Gap_forward(s, n) == lastSequence[s] # 0 /\ n > lastSequence[s] + 1

\* Numbers must follow each other.
Gap(s, n) == lastSequence[s] # 0 /\ n # lastSequence[s] + 1

\* An event: a gap ends the stream; so does a buffer that had to drop its
\* oldest event.
PollEvent(s) ==
    /\ poller[s] = "next" /\ Ready(s)
    /\ LET n == log[pos[s] + 1]
       IN  \/ Gap(s, n) /\ Finish(s, "gap") /\ UNCHANGED <<lastSequence, buffer>>
           \/ /\ ~Gap(s, n)
              /\ lastSequence' = [lastSequence EXCEPT ![s] = n]
              /\ \/ cancelled[s] /\ Finish(s, "done") /\ UNCHANGED buffer
                 \/ /\ ~cancelled[s] /\ Len(buffer[s]) < Buffering
                    /\ buffer' = [buffer EXCEPT ![s] = Append(@, n)]
                    /\ poller' = [poller EXCEPT ![s] = "loop"] /\ UNCHANGED ended
                 \/ /\ ~cancelled[s] /\ Len(buffer[s]) = Buffering
                    /\ buffer' = [buffer EXCEPT ![s] = Append(Tail(@), n)]
                    /\ Finish(s, "gap")
    /\ Receive(s) /\ lock' = [lock EXCEPT ![s] = Free]
    /\ UNCHANGED <<handleVars, counter, pc, arg, hubVars, sub, cancelled, seen>>

\* No event: lagging ends the stream with an error, closed ends it normally,
\* a timeout goes on.
PollSentinel(s) ==
    /\ poller[s] = "next" /\ ~Ready(s)
    /\ \/ Lagged(s) /\ Finish(s, "lagged")
       \/ Closed(s) /\ Finish(s, "done")
       \/ Empty(s) /\ poller' = [poller EXCEPT ![s] = "loop"] /\ UNCHANGED ended
    /\ Receive(s) /\ lock' = [lock EXCEPT ![s] = Free]
    /\ UNCHANGED <<handleVars, counter, pc, arg, hubVars, sub, cancelled, lastSequence, buffer, seen>>

\* defer { subscription.destroy() }
PollerEnds(s) ==
    /\ poller[s] = "closing" /\ SubDestroyed(s)
    /\ poller' = [poller EXCEPT ![s] = "over"] /\ lastSequence' = [lastSequence EXCEPT ![s] = 0]
    /\ UNCHANGED <<handleVars, pc, arg, hubVars, lock, cancelled, buffer, seen, ended>>

Consume(s) ==
    /\ buffer[s] # <<>> /\ ~cancelled[s]
    /\ seen' = [seen EXCEPT ![s] = Append(@, Head(buffer[s]))]
    /\ buffer' = [buffer EXCEPT ![s] = Tail(@)]
    /\ UNCHANGED <<handleVars, counter, pc, arg, hubVars, sub, lock, pos, poller, cancelled, lastSequence, ended>>

\* onTermination: the consumer is cancelled or drops the stream.
CancelStream(s) ==
    /\ poller[s] \in {"loop", "next"} /\ ~cancelled[s]
    /\ cancelled' = [cancelled EXCEPT ![s] = TRUE]
    /\ buffer' = [buffer EXCEPT ![s] = <<>>]
    /\ UNCHANGED <<handleVars, counter, pc, arg, hubVars, sub, lock, pos, poller, lastSequence, seen, ended>>

(***************************************************************************)
(* The specification.                                                      *)
(***************************************************************************)

CallerStep(c) ==
    \/ ReturnLease(c) \/ Drained(c) \/ hs_runtime_destroy(c) \/ Call(c) \/ hs_runtime_shutdown(c)
    \/ NestedDestroy(c) \/ acquire(c) \/ Reject(c) \/ SubscribeFails(c) \/ hs_subscribe_events(c)
    \/ SubNextReturns(c)
PollerStep(s) == PollBegins(s) \/ PollEvent(s) \/ PollSentinel(s) \/ PollerEnds(s)
Wishes ==
    \/ Create
    \/ \E c \in Callers :
          \/ \E body \in Bodies : withRuntime(c, body)
          \/ destroy(c) \/ SpuriousWake(c)
          \/ \E s \in Subs : SubNext(c, s) \/ SubDestroy(c, s)
    \/ \E p \in Publishers : TakeNumber(p) \/ Send(p)
    \/ \E s \in Subs : Consume(s) \/ CancelStream(s)

Next == Wishes \/ (\E c \in Callers : CallerStep(c)) \/ (\E s \in Subs : PollerStep(s))

\* Threads and tasks run; native calls return, by their timeouts if need be.
Fairness ==
    /\ \A c \in Callers : WF_vars(CallerStep(c))
    /\ \A s \in Subs : WF_vars(PollerStep(s))

Spec == Init /\ [][Next]_vars /\ Fairness

(***************************************************************************)
(* Properties.                                                             *)
(***************************************************************************)

\* Nobody is inside a call on a runtime or a subscription whose box is being
\* freed or is gone (RuntimeHandle.destroy, SubscriptionHandle.destroy).
NoUseAfterFree ==
    /\ (runtime = "freed" \/ \E d \in Callers : pc[d] \in {"destroying", "dropping"})
          => \A c \in Callers : pc[c] \notin Leased
    /\ \A s \in Subs : lock[s] # Free => sub[s] = "live"

\* The slots add up, so that none is lost however a subscribe ends and there
\* are never more live subscriptions than the quota allows
\* (SubscriptionReservation).
QuotaExact ==
    /\ counter = Cardinality(Live) + Cardinality(Reserved)
    /\ Cardinality(Live) <= MAX_SUBSCRIPTIONS

Delivered(s) == seen[s] \o buffer[s]
Contiguous(q) == \A i \in 1 .. Len(q) - 1 : q[i + 1] = q[i] + 1

\* A consumer that sees its stream go on or end normally has every event since
\* its first, in order: lag, a full buffer and a gap all end it with an error
\* (EventStream).  It ends normally only when the hub is closed.
NothingSilentlyLost ==
    \A s \in Subs :
        /\ ended[s] # "gap" => Contiguous(Delivered(s))
        /\ ended[s] = "done" => hub = "closed"

\* A destroy() that has closed the handle frees the runtime, whatever calls
\* were in flight (RuntimeHandle.destroy).
DestroyEnds == destroyed ~> runtime = "freed"

\* Once the runtime is shut down, every stream's native subscription is
\* released, also one nobody reads any more (EventStream).
StreamsReleased ==
    \A s \in Subs : (hub = "closed" /\ poller[s] # "none") ~> (sub[s] # "live")

\* Native memory is given back: the runtime's by destroy(), a subscription's
\* when the hub is closed (RuntimeHandle.destroy, EventStream).
HandlesReleased == DestroyEnds /\ StreamsReleased

-----------------------------------------------------------------------------
(***************************************************************************)
(* The inductive invariant behind the safety properties.                   *)
(***************************************************************************)
InCall == {c \in Callers : pc[c] \in Leased}
Building == {c \in Callers : pc[c] = "build"}

\* The count is the number of leases; whoever has come past the drain found
\* none, and none is handed out after the handle was closed.
LeaseInv ==
    /\ inFlight = Cardinality(InCall)
    /\ \A c \in Callers : pc[c] \in {"asleep", "awake", "destroying", "dropping"} => destroyed
    /\ runtime = "freed" => destroyed
    /\ (runtime = "freed" \/ \E d \in Callers : pc[d] \in {"destroying", "dropping"})
          => InCall = {}

\* Who holds the lock of a subscription, or will take it without asking for
\* the pointer again, keeps it alive.
LockInv ==
    \A s \in Subs :
        lock[s] # Free \/ poller[s] \in {"loop", "next", "closing"} => sub[s] = "live"

\* Reservations that will become subscriptions fit into the quota.
QuotaInv ==
    /\ counter = Cardinality(Live) + Cardinality(Reserved)
    /\ Cardinality(Live) + Cardinality(Building) <= MAX_SUBSCRIPTIONS

\* A stream that goes on has not ended, and knows the last number it passed on.
StreamOf(s) ==
    /\ sub[s] = "none" => poller[s] = "none"
    /\ poller[s] \in {"none", "loop", "next"} => ended[s] = "no"
    /\ ended[s] = "done" => hub = "closed"
    /\ ended[s] # "gap" => Contiguous(Delivered(s))
    /\ poller[s] = "none" => Delivered(s) = <<>> /\ lastSequence[s] = 0 /\ ~cancelled[s]
    /\ poller[s] \in {"loop", "next"} /\ ~cancelled[s] =>
          IF Delivered(s) = <<>> THEN lastSequence[s] = 0
          ELSE lastSequence[s] # 0 /\ lastSequence[s] = Delivered(s)[Len(Delivered(s))]

StreamInv ==
    /\ next_sequence # 0
    /\ \A i \in 1 .. Len(log) : log[i] # 0
    /\ \A s \in Subs : StreamOf(s)

IndInv == TypeOK /\ LeaseInv /\ LockInv /\ QuotaInv /\ StreamInv
=============================================================================
