---------------------------- MODULE MediaEvents ----------------------------
(***************************************************************************)
(* Media libraries of one session: phone pushes, their decoding            *)
(* (event_decode.rs), the session's event bus (events.rs), the event       *)
(* bridge and event hub of the runtime (runtime.rs, event.rs), the         *)
(* snapshot cache with its epoch, keyset paging (media.rs) and the merge   *)
(* of a change into a snapshot (media_merge.rs).                           *)
(*                                                                         *)
(* A library is a function from media ids to the version of the item, 0    *)
(* for an id that is not there; IdLess more items carry no id.  Both       *)
(* buses are tokio broadcast channels: a full one drops its oldest event   *)
(* and the receiver is told how many it missed before its next event.      *)
(***************************************************************************)
EXTENDS Integers, Sequences, FiniteSets, SequencesExt

CONSTANTS
    Kinds,          \* library kinds in play, among "Photo", "Video", "Audio"
    MaxId,          \* media ids are 1..MaxId
    IdLess,         \* items without media id, in every library
    Readers,        \* clients that walk a library page by page
    Limits,         \* limits the readers pass
    MaxLimit,       \* MEDIA_PAGE_MAX_LIMIT
    BusCapacity,    \* EVENT_CHANNEL_CAPACITY
    HubCapacity,    \* capacity of the EventHub
    MaxPushes       \* bound on phone pushes

Ids == 1..MaxId
Absent == 0

ASSUME MediaEventsAssumption ==
    /\ Kinds \subseteq {"Photo", "Video", "Audio"}
    /\ {MaxId, IdLess, MaxPushes} \subseteq Nat
    /\ {MaxLimit, BusCapacity, HubCapacity} \subseteq Nat \ {0}
    /\ Limits \subseteq Nat

VARIABLES
    phone,      \* the phone's libraries: items, and the number of changes so far
    pushes,     \* phone pushes so far
    bus,        \* events of the session's bus the bridge has yet to receive
    missed,     \* events that left the bus unread since the bridge last asked
    bridge,     \* where run_event_bridge is, and the event it handles
    cache,      \* media_snapshots of the session
    epoch,      \* media_epoch
    reader,     \* page readers
    hub,        \* events of the hub the subscriber has yet to receive
    skipped,    \* as missed, for the subscriber
    sub,        \* "live", or "closed" once recv reported Closed
    seen,       \* newest change of each kind the subscriber received
    log,        \* changes of each kind the subscriber received, in order
    warned,     \* a Warning of lag or of an unknown event was published
    session,    \* "open", then the steps of close_session, then "closed"
    hub_open    \* EventHub.tx is Some

buses == <<bus, missed, bridge>>
subscriber == <<hub, skipped, sub, seen, log>>
vars == <<phone, pushes, buses, cache, epoch, reader, subscriber, warned, session, hub_open>>

NoEvent == [kind |-> "None"]
NoEntry == [ver |-> -1]

Init ==
    /\ phone = [k \in Kinds |-> [items |-> [i \in Ids |-> IF i % 2 = 1 THEN 1 ELSE Absent],
                                 ver |-> 0]]
    /\ pushes = 0
    /\ bus = <<>> /\ missed = 0
    /\ bridge = [pc |-> "recv", event |-> NoEvent]
    /\ cache = [k \in Kinds |-> NoEntry]
    /\ epoch = 0
    /\ reader = [r \in Readers |-> [pc |-> "new"]]
    /\ hub = <<>> /\ skipped = 0 /\ sub = "live"
    /\ seen = [k \in Kinds |-> 0]
    /\ log = [k \in Kinds |-> <<>>]
    /\ warned = FALSE
    /\ session = "open"
    /\ hub_open = TRUE

-----------------------------------------------------------------------------
(***************************************************************************)
(* Decoding.  A push names its type or not; without one it is classified   *)
(* only if exactly one event family decodes to something non-empty.        *)
(***************************************************************************)
MediaChange(k, added, updated, deleted, v) ==
    [kind |-> "MediaLibraryChanged", lib |-> k, ver |-> v,
     added |-> added, updated |-> updated, deleted |-> deleted]

photo_change(w) == MediaChange("Photo", w.added, {}, w.deleted, w.ver)
video_change(w) == MediaChange("Video", w.added, w.updated, w.deleted, w.ver)
audio_change(w) == MediaChange("Audio", w.added, {}, {}, w.ver)

\* The families this module does not tell apart: device information, clipboard,
\* directory, file, photo-sync and sync-monitor events.
OtherEvent == [kind |-> "Other"]

decoded(w) ==
    CASE w.type = "Photo" -> photo_change(w)
      [] w.type = "Video" -> video_change(w)
      [] w.type = "Audio" -> audio_change(w)
      [] OTHER -> OtherEvent

infer_event(w, candidates) ==
    IF Cardinality(candidates) = 1 THEN decoded(w) ELSE [kind |-> "Unknown"]

decode_event(w, typed, candidates) ==
    IF typed THEN decoded(w) ELSE infer_event(w, candidates)

\* tokio::sync::broadcast as the two buses use it.
BusAfter(q, cap, e) == IF Len(q) < cap THEN Append(q, e) ELSE Append(Tail(q), e)
DropsOne(q, cap) == IF Len(q) < cap THEN 0 ELSE 1

Push(e) ==
    /\ session \in {"open", "removed"}
    /\ pushes < MaxPushes
    /\ pushes' = pushes + 1
    /\ bus' = BusAfter(bus, BusCapacity, e)
    /\ missed' = missed + DropsOne(bus, BusCapacity)
    /\ UNCHANGED <<bridge, cache, epoch, reader, subscriber, warned, session, hub_open>>

\* The phone's library changes and it reports the change.
LibraryChanges(k, i, typed, candidates) ==
    LET v == phone[k].ver + 1
        here == phone[k].items[i] # Absent
        wire(added, updated, deleted) ==
            [type |-> k, added |-> added, updated |-> updated, deleted |-> deleted, ver |-> v]
        becomes(version, w) ==
            /\ phone' = [phone EXCEPT ![k] = [items |-> [@.items EXCEPT ![i] = version], ver |-> v]]
            /\ Push(decode_event(w, typed, candidates))
    IN  \/ ~here /\ becomes(v + 1, wire({<<i, v + 1>>}, {}, {}))
        \/ here /\ becomes(Absent, wire({}, {}, {i}))
        \/ here /\ k = "Video" /\ becomes(v + 1, wire({}, {<<i, v + 1>>}, {}))

\* Clipboard, device information, directory, sync or cancellation push.
OtherPush == Push(OtherEvent) /\ UNCHANGED phone

-----------------------------------------------------------------------------
(***************************************************************************)
(* EventHub.publish: a no-op once the hub is closed.                       *)
(***************************************************************************)
publish(e) ==
    IF hub_open
    THEN /\ hub' = BusAfter(hub, HubCapacity, e)
         /\ skipped' = skipped + DropsOne(hub, HubCapacity)
    ELSE UNCHANGED <<hub, skipped>>

Warning == [kind |-> "Warning"]

\* run_event_bridge: lag first, then the oldest event; a media change first
\* bumps the epoch.
BridgeLagged ==
    /\ bridge.pc = "recv" /\ missed > 0
    /\ missed' = 0
    /\ publish(Warning)
    /\ warned' = TRUE
    /\ UNCHANGED <<phone, pushes, bus, bridge, cache, epoch, reader, sub, seen, log, session,
                   hub_open>>

\* Mutant of BridgeReceives: MediaChanged is published before the cache is told.
BridgeReceivesPublishing ==
    /\ bridge.pc = "recv" /\ missed = 0 /\ bus # <<>>
    /\ bus' = Tail(bus)
    /\ IF Head(bus).kind = "MediaLibraryChanged"
       THEN /\ bridge' = [pc |-> "clear", event |-> Head(bus)]
            /\ epoch' = epoch + 1
            /\ publish(Head(bus))
       ELSE /\ bridge' = [pc |-> "publish", event |-> Head(bus)]
            /\ UNCHANGED <<epoch, hub, skipped>>
    /\ UNCHANGED <<phone, pushes, missed, cache, reader, sub, seen, log, warned, session,
                   hub_open>>

BridgeReceives ==
    /\ bridge.pc = "recv" /\ missed = 0 /\ bus # <<>>
    /\ bus' = Tail(bus)
    /\ IF Head(bus).kind = "MediaLibraryChanged"
       THEN /\ bridge' = [pc |-> "clear", event |-> Head(bus)]
            /\ epoch' = epoch + 1
       ELSE /\ bridge' = [pc |-> "publish", event |-> Head(bus)]
            /\ UNCHANGED epoch
    /\ UNCHANGED <<phone, pushes, missed, cache, reader, subscriber, warned, session, hub_open>>

BridgeClears ==
    /\ bridge.pc = "clear"
    /\ cache' = [k \in Kinds |-> NoEntry]
    /\ bridge' = [bridge EXCEPT !.pc = "publish"]
    /\ UNCHANGED <<phone, pushes, bus, missed, epoch, reader, subscriber, warned, session,
                   hub_open>>

\* bridge_client_event: an unclassified push becomes a Warning.
bridge_client_event(e) == IF e.kind = "Unknown" THEN Warning ELSE e

BridgePublishes ==
    /\ bridge.pc = "publish"
    /\ publish(bridge_client_event(bridge.event))
    /\ warned' = (warned \/ bridge.event.kind = "Unknown")
    /\ bridge' = [pc |-> "recv", event |-> NoEvent]
    /\ UNCHANGED <<phone, pushes, bus, missed, cache, epoch, reader, sub, seen, log, session,
                   hub_open>>

\* Closed is reported once the bus is empty and its sender gone.
BridgeEnds ==
    /\ bridge.pc = "recv" /\ bus = <<>> /\ missed = 0 /\ session \notin {"open", "removed"}
    /\ bridge' = [pc |-> "ended", event |-> NoEvent]
    /\ UNCHANGED <<phone, pushes, bus, missed, cache, epoch, reader, subscriber, warned, session,
                   hub_open>>

-----------------------------------------------------------------------------
(***************************************************************************)
(* slice_page: items sorted by id, those without id first; the page starts *)
(* behind the cursor and never ends in an item the next cursor cannot key. *)
(* A page is given by the ids in it.                                       *)
(***************************************************************************)
Present(items) == {i \in Ids : items[i] # Absent}
NoId == 0
NoCursor == -1

\* The number of items, in that order, up to and including id i.
UpTo(items, i) == IdLess + Cardinality({j \in Present(items) : j <= i})

\* Mutant of slice_page: a page of items without id ends the library.
slice_page_truncating(items, cursor, limit) ==
    LET start == IF cursor = NoCursor THEN 0 ELSE UpTo(items, cursor)
        total == UpTo(items, MaxId)
        end == IF start + limit < total THEN start + limit ELSE total
        page == {i \in Present(items) : start < UpTo(items, i) /\ UpTo(items, i) <= end}
    IN  [page |-> page, next |-> IF end < total /\ page # {} THEN Max(page) ELSE NoId]

slice_page(items, cursor, limit) ==
    LET start == IF cursor = NoCursor THEN 0 ELSE UpTo(items, cursor)
        total == UpTo(items, MaxId)
        end == IF start + limit < total THEN start + limit ELSE total
        page == {i \in Present(items) : start < UpTo(items, i) /\ UpTo(items, i) <= end}
        rest == {i \in Present(items) : end < UpTo(items, i)}
    IN  IF end = total THEN [page |-> page, next |-> NoId]
        ELSE IF page # {} THEN [page |-> page, next |-> Max(page)]
        ELSE IF rest = {} THEN [page |-> page, next |-> NoId]
        ELSE [page |-> {Min(rest)}, next |-> Min(rest)]

validate_page_limit(limit) == limit \in 1..MaxLimit

(***************************************************************************)
(* A reader calls get_*_library_page until there is no next cursor.        *)
(***************************************************************************)
WalkBegins(r, k, limit) ==
    /\ reader[r].pc = "new"
    /\ validate_page_limit(limit)
    /\ reader' = [reader EXCEPT ![r] =
                    [pc |-> "page", kind |-> k, limit |-> limit, cursor |-> NoCursor, got |-> {},
                     twice |-> FALSE, always |-> Ids, after |-> 0, epoch |-> 0, lib |-> NoEntry]]
    /\ UNCHANGED <<phone, pushes, buses, cache, epoch, subscriber, warned, session, hub_open>>

\* The page of library l, and what the walk has seen so far.
Served(r, l, after) ==
    LET p == slice_page(l.items, reader[r].cursor, reader[r].limit)
    IN [reader EXCEPT ![r].pc = IF p.next = NoId THEN "done" ELSE "page",
                      ![r].cursor = p.next,
                      ![r].got = @ \cup p.page,
                      ![r].twice = @ \/ p.page \cap reader[r].got # {},
                      ![r].always = @ \cap Present(l.items),
                      ![r].after = after,
                      ![r].lib = l]

PageHit(r) ==
    /\ reader[r].pc = "page"
    /\ cache[reader[r].kind] # NoEntry
    /\ reader' = Served(r, cache[reader[r].kind], seen[reader[r].kind])
    /\ UNCHANGED <<phone, pushes, buses, cache, epoch, subscriber, warned, session, hub_open>>

\* No entry, or one older than MEDIA_SNAPSHOT_TTL.
PageMiss(r) ==
    /\ reader[r].pc = "page"
    /\ reader' = [reader EXCEPT ![r].pc = IF session = "open" THEN "fetch" ELSE "failed",
                                ![r].epoch = epoch, ![r].after = seen[reader[r].kind]]
    /\ UNCHANGED <<phone, pushes, buses, cache, epoch, subscriber, warned, session, hub_open>>

PhoneAnswers(r) ==
    /\ reader[r].pc = "fetch" /\ session \in {"open", "removed"}
    /\ reader' = [reader EXCEPT ![r].pc = "insert", ![r].lib = phone[reader[r].kind]]
    /\ UNCHANGED <<phone, pushes, buses, cache, epoch, subscriber, warned, session, hub_open>>

FetchFails(r) ==
    /\ reader[r].pc = "fetch"
    /\ reader' = [reader EXCEPT ![r].pc = "failed"]
    /\ UNCHANGED <<phone, pushes, buses, cache, epoch, subscriber, warned, session, hub_open>>

\* Mutant of may_insert: the epoch is compared before the lock is taken.
may_insert_unchecked(r) == TRUE
may_insert(r) == reader[r].epoch = epoch

PageInserts(r) ==
    LET k == reader[r].kind IN
    /\ reader[r].pc = "insert"
    /\ cache' = IF may_insert(r) THEN [cache EXCEPT ![k] = reader[r].lib] ELSE cache
    /\ reader' = Served(r, reader[r].lib, reader[r].after)
    /\ UNCHANGED <<phone, pushes, buses, epoch, subscriber, warned, session, hub_open>>

-----------------------------------------------------------------------------
\* disconnect takes the session out of the map; close_session closes the
\* client, then invalidates as the bridge does.
SessionRemoved ==
    /\ session = "open"
    /\ session' = "removed"
    /\ UNCHANGED <<phone, pushes, buses, cache, epoch, reader, subscriber, warned, hub_open>>

ClientClosed ==
    /\ session = "removed"
    /\ session' = "bump"
    /\ UNCHANGED <<phone, pushes, buses, cache, epoch, reader, subscriber, warned, hub_open>>

invalidate_bump ==
    /\ session = "bump"
    /\ session' = "clear"
    /\ epoch' = epoch + 1
    /\ UNCHANGED <<phone, pushes, buses, cache, reader, subscriber, warned, hub_open>>

\* Mutant of HubCloses: the sender is kept, only publishing stops.
HubClosesQuietly == FALSE /\ UNCHANGED vars

invalidate_clear ==
    /\ session = "clear"
    /\ session' = "closed"
    /\ cache' = [k \in Kinds |-> NoEntry]
    /\ UNCHANGED <<phone, pushes, buses, epoch, reader, subscriber, warned, hub_open>>

HubCloses ==
    /\ hub_open
    /\ hub_open' = FALSE
    /\ UNCHANGED <<phone, pushes, buses, cache, epoch, reader, subscriber, warned, session>>

-----------------------------------------------------------------------------
(***************************************************************************)
(* The subscriber: lag, events, Closed.                                    *)
(***************************************************************************)
SubLagged ==
    /\ sub = "live" /\ skipped > 0
    /\ skipped' = 0
    /\ warned' = TRUE
    /\ UNCHANGED <<phone, pushes, buses, cache, epoch, reader, hub, sub, seen, log, session,
                   hub_open>>

SubReceives ==
    LET e == Head(hub) IN
    /\ sub = "live" /\ skipped = 0 /\ hub # <<>>
    /\ hub' = Tail(hub)
    /\ IF e.kind = "MediaLibraryChanged"
       THEN /\ seen' = [seen EXCEPT ![e.lib] = e.ver]
            /\ log' = [log EXCEPT ![e.lib] = Append(@, e)]
       ELSE UNCHANGED <<seen, log>>
    /\ UNCHANGED <<phone, pushes, buses, cache, epoch, reader, skipped, sub, warned, session,
                   hub_open>>

SubClosed ==
    /\ sub = "live" /\ skipped = 0 /\ hub = <<>> /\ ~hub_open
    /\ sub' = "closed"
    /\ UNCHANGED <<phone, pushes, buses, cache, epoch, reader, hub, skipped, seen, log, warned,
                   session, hub_open>>

(***************************************************************************)
(* merge_*_library: added, then updated, then deleted, by key.             *)
(***************************************************************************)
\* An entry is the item's key and what the phone reported of it.
matches(e, i) == e[1] = i
\* apply_*_overlap, or *_from_item for an unknown key
overlap(items, e) == [items EXCEPT ![e[1]] = e[2]]
upsert(items, entries) ==
    [i \in Ids |-> IF \E e \in entries : matches(e, i)
                   THEN overlap(items, CHOOSE e \in entries : matches(e, i))[i]
                   ELSE items[i]]
remove(items, gone) == [i \in Ids |-> IF i \in gone THEN Absent ELSE items[i]]

\* Mutant of apply_change: updated entries are not merged.
apply_change_added(items, c) == remove(upsert(items, c.added), c.deleted)
apply_change(items, c) == remove(upsert(upsert(items, c.added), c.updated), c.deleted)

\* ensure_kind_matches: a change of another kind is an error, the library stays.
merge_library(k, items, c) == IF c.lib = k THEN apply_change(items, c) ELSE items

-----------------------------------------------------------------------------
Candidates == {{"one"}, {"one", "two"}}

BridgeStep == BridgeLagged \/ BridgeReceives \/ BridgeClears \/ BridgePublishes \/ BridgeEnds
SubStep == SubLagged \/ SubReceives \/ SubClosed
ReaderStep(r) ==
    \/ \E k \in Kinds, limit \in Limits : WalkBegins(r, k, limit)
    \/ PageHit(r) \/ PageMiss(r) \/ PhoneAnswers(r) \/ FetchFails(r) \/ PageInserts(r)
CloseStep == SessionRemoved \/ ClientClosed \/ invalidate_bump \/ invalidate_clear

Next ==
    \/ \E k \in Kinds, i \in Ids, typed \in BOOLEAN, candidates \in Candidates :
            LibraryChanges(k, i, typed, candidates)
    \/ OtherPush
    \/ BridgeStep \/ SubStep \/ CloseStep \/ HubCloses
    \/ \E r \in Readers : ReaderStep(r)

(***************************************************************************)
(* Bridge and subscriber are tasks that only wait for their channel, and   *)
(* shutdown closes the hub.                                                *)
(***************************************************************************)
Fairness == WF_vars(BridgeStep) /\ WF_vars(SubStep) /\ WF_vars(HubCloses)

Spec == Init /\ [][Next]_vars /\ Fairness

-----------------------------------------------------------------------------
Events(q, k) == \E n \in DOMAIN q : q[n].kind = "MediaLibraryChanged" /\ q[n].lib = k
Entry == {NoEntry} \cup [items : [Ids -> 0..(MaxPushes + 1)], ver : 0..MaxPushes]

TypeOK ==
    /\ phone \in [Kinds -> [items : [Ids -> 0..(MaxPushes + 1)], ver : 0..MaxPushes]]
    /\ pushes \in 0..MaxPushes
    /\ Len(bus) <= BusCapacity /\ Len(hub) <= HubCapacity
    /\ missed \in Nat /\ skipped \in Nat /\ epoch \in Nat
    /\ bridge.pc \in {"recv", "clear", "publish", "ended"}
    /\ cache \in [Kinds -> Entry]
    /\ \A r \in Readers :
        /\ reader[r].pc \in {"new", "page", "fetch", "insert", "done", "failed"}
        /\ reader[r].pc # "new" => reader[r].cursor \in Ids \cup {NoCursor, NoId}
        /\ reader[r].pc = "page" => reader[r].cursor # NoId
    /\ sub \in {"live", "closed"}
    /\ seen \in [Kinds -> 0..MaxPushes]
    /\ warned \in BOOLEAN /\ hub_open \in BOOLEAN
    /\ session \in {"open", "removed", "bump", "clear", "closed"}

\* A cached library older than the phone's is about to be dropped - its change
\* is on the bus or in the bridge before the clear - unless events were missed
\* or not understood, which a Warning reports.
StaleIsTransient ==
    \A k \in Kinds :
        cache[k] # NoEntry /\ cache[k].ver < phone[k].ver
            => \/ Events(bus, k)
               \/ bridge.pc = "clear" /\ bridge.event.lib = k
               \/ missed > 0 \/ warned \/ bridge.event.kind = "Unknown"
               \/ \E n \in DOMAIN bus : bus[n].kind = "Unknown"
               \/ session # "open"

\* A page asked for after the subscriber was told of a change shows that change:
\* the bridge invalidates before it publishes, and no late fetch undoes it.
PageAfterNotice ==
    \A r \in Readers :
        reader[r].pc \in {"page", "done"} /\ reader[r].lib # NoEntry
            => reader[r].lib.ver >= reader[r].after

\* Nothing of a closed session stays in the cache, whatever was being fetched.
NothingCachedAfterClose == session = "closed" => \A k \in Kinds : cache[k] = NoEntry

\* With all values of their types: what the cache holds is current, on its way
\* out, or reported as possibly stale, and gone when its session is
\* (may_insert, run_event_bridge, close_session).
CacheSound == TypeOK /\ StaleIsTransient /\ NothingCachedAfterClose

\* A walk over the pages returns every item that was in all the snapshots it was
\* served from, and none twice, although the library changes between pages.
WalkComplete ==
    \A r \in Readers :
        reader[r].pc = "done" => reader[r].always \subseteq reader[r].got /\ ~reader[r].twice

Quiet == bus = <<>> /\ missed = 0 /\ bridge.pc = "recv" /\ hub = <<>> /\ skipped = 0

\* The library after the changes of a client were merged into it one by one.
Merged(k, items, changes) ==
    LET merged[n \in 0 .. Len(changes)] ==
            IF n = 0 THEN items ELSE merge_library(k, merged[n - 1], changes[n])
    IN  merged[Len(changes)]

\* A client that took a snapshot after it subscribed, and merged every change it
\* received into it, has the phone's library once nothing is in flight.  The one
\* exception: audio_change drops deletions, so an audio item that is no longer on
\* the phone may still be there.
MergedIsCurrent ==
    \A r \in Readers :
        Quiet /\ ~warned /\ hub_open /\ session = "open" /\ reader[r].pc = "done"
            => LET k == reader[r].kind
                   merged == Merged(k, reader[r].lib.items, log[k])
               IN  \A i \in Ids : \/ merged[i] = phone[k].items[i]
                                  \/ k = "Audio" /\ phone[k].items[i] = Absent

\* A subscriber is not left waiting when the runtime shuts down.
SubscriberEnds == <>(sub = "closed")
=============================================================================
