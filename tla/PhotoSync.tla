----------------------------- MODULE PhotoSync -----------------------------
(***************************************************************************)
(* One photo-sync profile of HandShaker: the journaled sync engine of      *)
(* handshaker-core (sync.rs, sync_journal.rs, sync_store.rs) as the        *)
(* application runtime drives it (run_sync_once, apply_watch_batch).       *)
(*                                                                         *)
(* The engine is sequential (the ledger mutex is held for a whole run or   *)
(* watch), so it has one program counter.  Around it the phone's user      *)
(* edits the photo library, the host's user edits the local files, calls   *)
(* fail, and the process dies or is aborted between any two disk           *)
(* operations.  local, part, trash, ledger and journal are on disk and     *)
(* survive; everything else of the engine is lost.                         *)
(***************************************************************************)
EXTENDS SyncPlan

CONSTANTS
    PartNames,      \* random names "<destination>.hs-part.<u64>"
    TrashNames,     \* random names "<file>.hs-trash.<u64>"
    NoAction,       \* the journal file does not exist
    MaxEvents,      \* bound: capacity of the file-change event channel (0: no watch)
    Bounds          \* bounds: how often each Kind of event may happen

\* "abort": crashes, aborts and fatal I/O errors; "fault": failed transfers and
\* renames; "phone": changes on the phone; "user": changes of local files.
Kinds == {"abort", "fault", "phone", "user"}

ASSUME PhotoSyncAssumption ==
    /\ PartNames \cap TrashNames = {}
    /\ MaxEvents \in Nat
    /\ Bounds \in [Kinds -> Nat]

\* sync_journal.rs PendingSyncAction.  "name" is the staged or the trash file.
Download == [op: {"download"}, path: Paths, name: PartNames, row: Row]
Delete == [op: {"delete"}, path: Paths, name: TrashNames, row: {NoRow}]
PendingSyncAction == Download \cup Delete

ASSUME NoActionAssumption == NoAction \notin PendingSyncAction

\* events.rs FileChange; "modified" also stands for FileAndInfoModified.
FileChange ==
    [status: {"added", "modified", "info", "deleted"}, path: Paths, file: RemoteFile]

VARIABLES
    local,      \* disk: the synced folder
    part,       \* disk: staged downloads
    trash,      \* disk: files renamed away, not yet removed
    ledger,     \* disk: the committed SyncSnapshot
    journal,    \* disk: the pending action
    phone,      \* the phone's photo library
    events,     \* FILE_CHANGE events waiting in the subscription
    watching,   \* the incremental watch is on
    lagged,     \* the subscription overflowed
    pc,         \* the engine's next step
    mode,       \* "run" or "watch"
    snap,       \* the in-memory snapshot being updated
    listing,    \* phone_files of the running plan
    adds, dels, infos,  \* what is left of the plan, conflicts excluded
    batch,      \* what is left of the watch batch
    held,       \* the action being executed
    owner,      \* observer: who last wrote or removed each local path
    exposed,    \* observer: paths the user changed since their conflict check
    budget      \* what is left of Bounds

disk == <<local, part, trash, ledger, journal>>
channel == <<events, watching, lagged>>
work == <<snap, listing, adds, dels, infos, batch, held>>
engine == <<pc, mode, work>>
observer == <<owner, exposed>>
vars == <<disk, phone, channel, engine, observer, budget>>

-----------------------------------------------------------------------------
Spend(kind) ==
    /\ budget[kind] > 0
    /\ budget' = [budget EXCEPT ![kind] = @ - 1]

NoWork ==
    /\ snap' = [p \in Paths |-> NoRow]
    /\ listing' = [p \in Paths |-> Absent]
    /\ adds' = {} /\ dels' = {} /\ infos' = {}
    /\ batch' = <<>>
    /\ held' = NoAction

Init ==
    /\ local = [p \in Paths |-> Absent]
    /\ part = [n \in PartNames |-> Absent]
    /\ trash = [n \in TrashNames |-> Absent]
    /\ ledger = [p \in Paths |-> NoRow]
    /\ journal = NoAction
    /\ phone \in Listing
    /\ events = <<>> /\ watching = FALSE /\ lagged = FALSE
    /\ pc = "idle" /\ mode = "run"
    /\ snap = [p \in Paths |-> NoRow]
    /\ listing = [p \in Paths |-> Absent]
    /\ adds = {} /\ dels = {} /\ infos = {}
    /\ batch = <<>>
    /\ held = NoAction
    /\ owner = [p \in Paths |-> "user"]
    /\ exposed = {}
    /\ budget = Bounds

-----------------------------------------------------------------------------
(***************************************************************************)
(* Starting a run or a batch.                                              *)
(***************************************************************************)

\* Mutant of StartRun: the run does not recover the journal first.
StartRunUnrecovered ==
    /\ pc = "idle" /\ ~watching
    /\ pc' = "plan" /\ mode' = "run"
    /\ snap' = ledger
    /\ listing' = phone
    /\ UNCHANGED <<disk, phone, channel, adds, dels, infos, batch, held, observer, budget>>

\* run_sync_once: sync_pipeline loads the ledger and asks the phone for its
\* files (the mutex keeps the ledger fixed between the two).  The registry
\* refuses a run while the profile is watched.
StartRun ==
    /\ pc = "idle" /\ ~watching
    /\ pc' = "recover" /\ mode' = "run"
    /\ snap' = ledger
    /\ listing' = phone
    /\ UNCHANGED <<disk, phone, channel, adds, dels, infos, batch, held, observer, budget>>

\* start_sync_watch: subscribed and the phone-side monitor is on.
StartWatch ==
    /\ pc = "idle" /\ ~watching /\ MaxEvents > 0
    /\ watching' = TRUE
    /\ UNCHANGED <<disk, phone, events, lagged, engine, observer, budget>>

\* run_sync_watch: the debounce window elapsed; apply_watch_batch loads the
\* ledger and applies what was collected.
StartBatch ==
    /\ pc = "idle" /\ watching /\ ~lagged /\ events # <<>>
    /\ pc' = "recover" /\ mode' = "watch"
    /\ snap' = ledger
    /\ batch' = events
    /\ events' = <<>>
    /\ UNCHANGED <<disk, phone, watching, lagged, listing, adds, dels, infos, held,
                   observer, budget>>

\* stop_sync_watch, the stream closing, or report_sync_watch_lag: the loop is
\* left and the events collected so far are dropped.
StopWatch ==
    /\ pc = "idle" /\ watching
    /\ watching' = FALSE /\ lagged' = FALSE /\ events' = <<>>
    /\ UNCHANGED <<disk, phone, engine, observer, budget>>

-----------------------------------------------------------------------------
(***************************************************************************)
(* SyncJournal::recover_impl.                                              *)
(***************************************************************************)
Pending(op) == pc = "recover" /\ journal # NoAction /\ journal.op = op

\* No journal file.
RecoverNothing ==
    /\ pc = "recover" /\ journal = NoAction
    /\ pc' = "plan"
    /\ UNCHANGED <<disk, phone, channel, mode, work, observer, budget>>

\* !final.exists() && staged.exists(): finish the rename.
RecoverRename ==
    /\ Pending("download")
    /\ local[journal.path] = Absent /\ part[journal.name] # Absent
    /\ local' = [local EXCEPT ![journal.path] = part[journal.name]]
    /\ part' = [part EXCEPT ![journal.name] = Absent]
    /\ owner' = [owner EXCEPT ![journal.path] = "sync"]
    /\ UNCHANGED <<trash, ledger, journal, phone, channel, engine, exposed, budget>>

\* Mutant of RecoverRecord: the record is inserted but never saved.
RecoverRecordUnsaved ==
    /\ Pending("download")
    /\ local[journal.path] # Absent
    /\ snap' = [snap EXCEPT ![journal.path] = journal.row]
    /\ pc' = "recover_clear"
    /\ UNCHANGED <<disk, phone, channel, mode, listing, adds, dels, infos, batch, held,
                   observer, budget>>

\* final.exists(): insert the journaled record and save.
RecoverRecord ==
    /\ Pending("download")
    /\ local[journal.path] # Absent
    /\ snap' = [snap EXCEPT ![journal.path] = journal.row]
    /\ ledger' = snap'
    /\ pc' = "recover_clear"
    /\ UNCHANGED <<local, part, trash, journal, phone, channel, mode, listing, adds, dels,
                   infos, batch, held, observer, budget>>

\* Neither staged nor final: drop the action.
RecoverAbandon ==
    /\ Pending("download")
    /\ local[journal.path] = Absent /\ part[journal.name] = Absent
    /\ pc' = "recover_clear"
    /\ UNCHANGED <<disk, phone, channel, mode, work, observer, budget>>

\* original.exists(): remove a leftover trash file, keep original and record.
RecoverKeep ==
    /\ Pending("delete")
    /\ local[journal.path] # Absent /\ trash[journal.name] # Dir
    /\ trash' = [trash EXCEPT ![journal.name] = Absent]
    /\ pc' = "recover_clear"
    /\ UNCHANGED <<local, part, ledger, journal, phone, channel, mode, work, observer, budget>>

\* trash.exists(): remove it, then drop the record.
RecoverRemoveTrash ==
    /\ Pending("delete")
    /\ local[journal.path] = Absent /\ trash[journal.name] \notin {Absent, Dir}
    /\ trash' = [trash EXCEPT ![journal.name] = Absent]
    /\ pc' = "recover_drop"
    /\ UNCHANGED <<local, part, ledger, journal, phone, channel, mode, work, observer, budget>>

\* Mutant of RecoverDrop: the record is dropped in memory only.
RecoverDropUnsaved ==
    /\ \/ pc = "recover_drop"
       \/ /\ Pending("delete")
          /\ local[journal.path] = Absent /\ trash[journal.name] = Absent
    /\ snap' = [snap EXCEPT ![journal.path] = NoRow]
    /\ pc' = "recover_clear"
    /\ UNCHANGED <<disk, phone, channel, mode, listing, adds, dels, infos, batch, held,
                   observer, budget>>

\* The record is dropped and saved: after the trash was removed, or when
\* neither the original nor the trash exists.
RecoverDrop ==
    /\ \/ pc = "recover_drop"
       \/ /\ Pending("delete")
          /\ local[journal.path] = Absent /\ trash[journal.name] = Absent
    /\ snap' = [snap EXCEPT ![journal.path] = NoRow]
    /\ ledger' = snap'
    /\ pc' = "recover_clear"
    /\ UNCHANGED <<local, part, trash, journal, phone, channel, mode, listing, adds, dels,
                   infos, batch, held, observer, budget>>

RecoverClear ==
    /\ pc = "recover_clear"
    /\ journal' = NoAction
    /\ pc' = "plan"
    /\ UNCHANGED <<local, part, trash, ledger, phone, channel, mode, work, observer, budget>>

-----------------------------------------------------------------------------
(***************************************************************************)
(* The plan, rebased on the recovered ledger, and the choice of an item.   *)
(***************************************************************************)

\* Mutant of Plan: conflicts are looked for among the downloads only.
PlanDeletesUnchecked ==
    /\ pc = "plan"
    /\ pc' = "items"
    /\ IF mode = "run"
       THEN LET A == added(listing, snap)
            IN  /\ adds' = A \ check_conflicts(A, snap, local)
                /\ dels' = deleted(listing, snap)
                /\ infos' = info_modified(listing, snap)
                /\ exposed' = {}
       ELSE UNCHANGED <<adds, dels, infos, exposed>>
    /\ UNCHANGED <<disk, phone, channel, mode, snap, listing, batch, held, owner, budget>>

\* sync_diff_and_conflicts; a watch batch has no plan.
Plan ==
    /\ pc = "plan"
    /\ pc' = "items"
    /\ IF mode = "run"
       THEN LET A == added(listing, snap)
                D == deleted(listing, snap)
                conflicts == check_conflicts(A \cup D, snap, local)
            IN  /\ adds' = A \ conflicts
                /\ dels' = D \ conflicts
                /\ infos' = info_modified(listing, snap)
                /\ exposed' = {}
       ELSE UNCHANGED <<adds, dels, infos, exposed>>
    /\ UNCHANGED <<disk, phone, channel, mode, snap, listing, batch, held, owner, budget>>

\* Mutant of Change: no conflict check before a watched change.
ChangeUnchecked(statuses, p) ==
    /\ mode = "watch" /\ batch # <<>>
    /\ Head(batch).status \in statuses
    /\ Head(batch).path = p
    /\ ~is_directory(Head(batch).file)

\* The change at the head of the batch, if it passes apply_watch_batch's
\* one-entry conflict check.
Change(statuses, p) ==
    /\ mode = "watch" /\ batch # <<>>
    /\ Head(batch).status \in statuses
    /\ Head(batch).path = p
    /\ ~is_directory(Head(batch).file)
    /\ check_conflicts({p}, snap, local) = {}

\* The next item is the download of p, described by the phone as "file".
NextDownload(p, file) ==
    /\ pc = "items"
    /\ \/ mode = "run" /\ p \in adds /\ file = listing[p]
       \/ Change({"added", "modified"}, p) /\ file = Head(batch).file

\* The next item is the deletion of p: in a run after every download, in a
\* batch only when p has a record.
NextDelete(p) ==
    /\ pc = "items"
    /\ \/ mode = "run" /\ adds = {} /\ p \in dels
       \/ Change({"deleted"}, p) /\ snap[p] # NoRow

\* The item is taken off the plan or the batch.
Consume(p) ==
    IF mode = "run"
    THEN /\ adds' = adds \ {p}
         /\ dels' = dels \ {p}
         /\ UNCHANGED <<batch, exposed>>
    ELSE /\ batch' = Tail(batch)
         /\ exposed' = exposed \ {p}
         /\ UNCHANGED <<adds, dels>>

\* An item that ends here with a failure reported or nothing to do.
ItemEnds(p) ==
    /\ Consume(p)
    /\ UNCHANGED <<disk, phone, channel, pc, mode, snap, listing, infos, held, owner>>

-----------------------------------------------------------------------------
(***************************************************************************)
(* journaled_download.                                                     *)
(***************************************************************************)

\* A name no staged file has and the journal does not mention.
FreePart(n) == part[n] = Absent /\ (journal # NoAction => journal.name # n)

Downloadable(p) == phone[p] # Absent /\ ~is_directory(phone[p])

\* download_to_staged succeeded: the phone sends the bytes the file has now,
\* the record takes checksum and metadata from the listing or the event.
Stage(p, n) ==
    \E file \in RemoteFile :
        /\ NextDownload(p, file)
        /\ Downloadable(p) /\ FreePart(n)
        /\ part' = [part EXCEPT ![n] = phone[p].content]
        /\ held' = [op |-> "download", path |-> p, name |-> n,
                    row |-> [checksum |-> checksum(file), meta |-> file.meta,
                             local_sha256 |-> phone[p].content]]
        /\ pc' = "staged"
        /\ Consume(p)
        /\ UNCHANGED <<local, trash, ledger, journal, phone, channel, mode, snap, listing,
                       infos, owner, budget>>

\* download_to_staged failed: the file is gone from the phone, the disk is full
\* of staged files, or the transfer broke.  The guard removed the partial file.
StageFails(p) ==
    /\ \E file \in RemoteFile : NextDownload(p, file)
    /\ \/ /\ ~Downloadable(p) \/ \A n \in PartNames : ~FreePart(n)
          /\ UNCHANGED budget
       \/ Spend("fault")
    /\ ItemEnds(p)

\* journal.write replaces whatever the journal held.
WriteJournal ==
    /\ pc = "staged"
    /\ journal' = held
    /\ pc' = "journaled"
    /\ UNCHANGED <<local, part, trash, ledger, phone, channel, mode, work, observer, budget>>

\* journal.write failed: the staged file is removed and the run returns Err.
JournalFails ==
    /\ pc = "staged"
    /\ Spend("abort")
    /\ part' = [part EXCEPT ![held.name] = Absent]
    /\ pc' = "idle"
    /\ NoWork
    /\ watching' = FALSE /\ lagged' = FALSE /\ events' = <<>>
    /\ UNCHANGED <<local, trash, ledger, journal, phone, mode, observer>>

\* fs::rename(part, destination), and the record in the in-memory snapshot.
RenameStaged ==
    /\ pc = "journaled" /\ held.op = "download"
    /\ local[held.path] # Dir
    /\ local' = [local EXCEPT ![held.path] = part[held.name]]
    /\ part' = [part EXCEPT ![held.name] = Absent]
    /\ owner' = [owner EXCEPT ![held.path] = "sync"]
    /\ snap' = [snap EXCEPT ![held.path] = held.row]
    /\ pc' = "renamed"
    /\ UNCHANGED <<trash, ledger, journal, phone, channel, mode, listing, adds, dels, infos,
                   batch, held, exposed, budget>>

\* A rename failed: the item is a failure, the journal stays, the run goes on.
RenameFails ==
    /\ pc = "journaled"
    /\ \/ held.op = "download" /\ local[held.path] = Dir /\ UNCHANGED budget
       \/ held.op = "delete" /\ local[held.path] = Absent /\ UNCHANGED budget
       \/ Spend("fault")
    /\ pc' = "items"
    /\ held' = NoAction
    /\ UNCHANGED <<disk, phone, channel, mode, snap, listing, adds, dels, infos, batch,
                   observer>>

\* Mutant of SaveLedger: the checkpoint is left to the end of the run.
SaveLater ==
    /\ pc = "renamed"
    /\ pc' = IF held.op = "delete" THEN "saved_delete" ELSE "saved"
    /\ UNCHANGED <<disk, phone, channel, mode, work, observer, budget>>

\* store.save
SaveLedger ==
    /\ pc = "renamed"
    /\ ledger' = snap
    /\ pc' = IF held.op = "delete" THEN "saved_delete" ELSE "saved"
    /\ UNCHANGED <<local, part, trash, journal, phone, channel, mode, work, observer, budget>>

\* journal.clear
ClearJournal ==
    /\ pc = "saved"
    /\ journal' = NoAction
    /\ pc' = "items"
    /\ held' = NoAction
    /\ UNCHANGED <<local, part, trash, ledger, phone, channel, mode, snap, listing, adds, dels,
                   infos, batch, observer, budget>>

-----------------------------------------------------------------------------
(***************************************************************************)
(* journaled_delete.                                                       *)
(***************************************************************************)

\* The local file is already gone: drop the record and save.
DeleteMissing(p) ==
    /\ NextDelete(p)
    /\ local[p] = Absent
    /\ snap' = [snap EXCEPT ![p] = NoRow]
    /\ ledger' = snap'
    /\ Consume(p)
    /\ UNCHANGED <<local, part, trash, journal, phone, channel, pc, mode, listing, infos, held,
                   owner, budget>>

\* A directory is never trashed.
DeleteDirectory(p) ==
    /\ NextDelete(p)
    /\ local[p] = Dir
    /\ ItemEnds(p)
    /\ UNCHANGED budget

JournalDelete(p, n) ==
    /\ NextDelete(p)
    /\ local[p] \notin {Absent, Dir}
    /\ trash[n] = Absent /\ (journal # NoAction => journal.name # n)
    /\ held' = [op |-> "delete", path |-> p, name |-> n, row |-> NoRow]
    /\ journal' = held'
    /\ pc' = "journaled"
    /\ Consume(p)
    /\ UNCHANGED <<local, part, trash, ledger, phone, channel, mode, snap, listing, infos,
                   owner, budget>>

\* fs::rename(local, trash); whatever is at the path by now is moved away.
RenameToTrash ==
    /\ pc = "journaled" /\ held.op = "delete"
    /\ local[held.path] # Absent
    /\ trash' = [trash EXCEPT ![held.name] = local[held.path]]
    /\ local' = [local EXCEPT ![held.path] = Absent]
    /\ owner' = [owner EXCEPT ![held.path] = "sync"]
    /\ snap' = [snap EXCEPT ![held.path] = NoRow]
    /\ pc' = "renamed"
    /\ UNCHANGED <<part, ledger, journal, phone, channel, mode, listing, adds, dels, infos,
                   batch, held, exposed, budget>>

\* fs::remove_file(trash).
RemoveTrash ==
    /\ pc = "saved_delete"
    /\ trash[held.name] # Dir
    /\ trash' = [trash EXCEPT ![held.name] = Absent]
    /\ pc' = "saved"
    /\ UNCHANGED <<local, part, ledger, journal, phone, channel, mode, work, observer, budget>>

-----------------------------------------------------------------------------
(***************************************************************************)
(* Items of a batch that touch no file, and the end of a run or a batch.   *)
(***************************************************************************)

\* A conflicting change, a directory, or a change to a path with no record.
SkipChange ==
    /\ pc = "items" /\ mode = "watch" /\ batch # <<>>
    /\ LET change == Head(batch) IN
        \/ is_directory(change.file)
        \/ change.status = "info" /\ snap[change.path] = NoRow
        \/ change.status = "deleted" /\ snap[change.path] = NoRow
        \/ /\ change.status # "info"
           /\ check_conflicts({change.path}, snap, local) # {}
    /\ batch' = Tail(batch)
    /\ UNCHANGED <<disk, phone, channel, pc, mode, snap, listing, adds, dels, infos, held,
                   observer, budget>>

\* InfoModified: the record in memory takes the event's metadata.
ApplyInfo ==
    /\ pc = "items" /\ mode = "watch" /\ batch # <<>>
    /\ Head(batch).status = "info"
    /\ ~is_directory(Head(batch).file)
    /\ snap[Head(batch).path] # NoRow
    /\ snap' = [snap EXCEPT ![Head(batch).path] = with_metadata(@, Head(batch).file)]
    /\ batch' = Tail(batch)
    /\ UNCHANGED <<disk, phone, channel, pc, mode, listing, adds, dels, infos, held, observer,
                   budget>>

\* The last save of a run (metadata of the info_modified files included; the
\* commit of run_sync_job saves the same snapshot again) or of a batch.
Finish ==
    /\ pc = "items" /\ adds = {} /\ dels = {} /\ batch = <<>>
    /\ ledger' = [p \in Paths |-> IF p \in infos /\ snap[p] # NoRow
                                  THEN with_metadata(snap[p], listing[p])
                                  ELSE snap[p]]
    /\ pc' = "idle"
    /\ NoWork
    /\ UNCHANGED <<local, part, trash, journal, phone, channel, mode, observer, budget>>

\* fs::remove_file fails on a directory, which reached the trash when the user
\* replaced the file by one just before the rename.
TrashStuck ==
    \/ pc = "saved_delete" /\ trash[held.name] = Dir
    \/ Pending("delete") /\ trash[journal.name] = Dir

\* The process dies, the task is aborted, or a save, a clear or a removal
\* returns Err: the disk stays as it is, the engine's memory is lost, and a
\* watch ends with its events.
Abort ==
    /\ pc # "idle"
    /\ \/ Spend("abort")
       \/ TrashStuck /\ UNCHANGED budget
    /\ pc' = "idle"
    /\ NoWork
    /\ watching' = FALSE /\ lagged' = FALSE /\ events' = <<>>
    /\ UNCHANGED <<disk, phone, mode, observer>>

-----------------------------------------------------------------------------
(***************************************************************************)
(* The environment.                                                        *)
(***************************************************************************)

\* A FILE_CHANGE event reaches the subscription, or overflows it.
Notify(status, p, file) ==
    IF ~watching
    THEN UNCHANGED channel
    ELSE /\ UNCHANGED watching
         /\ IF Len(events) < MaxEvents
            THEN /\ events' = Append(events, [status |-> status, path |-> p, file |-> file])
                 /\ UNCHANGED lagged
            ELSE lagged' = TRUE /\ UNCHANGED events

PhonePut(p, file) ==
    /\ Spend("phone")
    /\ phone[p] # file
    /\ phone' = [phone EXCEPT ![p] = file]
    /\ Notify(IF phone[p] = Absent THEN "added"
              ELSE IF phone[p].content # file.content THEN "modified" ELSE "info", p, file)
    /\ UNCHANGED <<disk, engine, observer>>

PhoneRemove(p) ==
    /\ Spend("phone")
    /\ phone[p] # Absent
    /\ phone' = [phone EXCEPT ![p] = Absent]
    /\ Notify("deleted", p, phone[p])
    /\ UNCHANGED <<disk, engine, observer>>

\* The host's user writes, replaces or (c = Absent) removes a local file.
UserEdit(p, c) ==
    /\ Spend("user")
    /\ local[p] # c
    /\ local' = [local EXCEPT ![p] = c]
    /\ owner' = [owner EXCEPT ![p] = "user"]
    /\ exposed' = exposed \cup {p}
    /\ UNCHANGED <<part, trash, ledger, journal, phone, channel, engine>>

-----------------------------------------------------------------------------
Recover ==
    \/ RecoverNothing \/ RecoverRename \/ RecoverRecord \/ RecoverAbandon
    \/ RecoverKeep \/ RecoverRemoveTrash \/ RecoverDrop \/ RecoverClear

Items ==
    \/ \E p \in Paths :
        \/ \E n \in PartNames : Stage(p, n)
        \/ StageFails(p)
        \/ DeleteMissing(p)
        \/ DeleteDirectory(p)
        \/ \E n \in TrashNames : JournalDelete(p, n)
    \/ WriteJournal \/ RenameStaged \/ RenameToTrash \/ RenameFails
    \/ SaveLedger \/ RemoveTrash \/ ClearJournal
    \/ SkipChange \/ ApplyInfo \/ Finish

Engine == Recover \/ Plan \/ Items

Environment ==
    \/ \E p \in Paths :
        \/ \E file \in RemoteFile : PhonePut(p, file)
        \/ PhoneRemove(p)
        \/ \E c \in UserContents \cup {Absent} : UserEdit(p, c)
    \/ JournalFails \/ Abort

Next ==
    \/ StartRun \/ StartWatch \/ StartBatch \/ StopWatch
    \/ Engine \/ Environment

Spec == Init /\ [][Next]_vars

(***************************************************************************)
(* A started run keeps being scheduled (its task is polled, its requests   *)
(* are answered or time out), and the operator starts another one after    *)
(* it.  Nothing obliges the environment to act.                            *)
(***************************************************************************)
FairSpec == Spec /\ WF_vars(StartRun) /\ WF_vars(Engine)

-----------------------------------------------------------------------------
Pcs == {"idle", "recover", "recover_drop", "recover_clear", "plan", "items", "staged",
        "journaled", "renamed", "saved_delete", "saved"}

\* Disk, channel and engine hold values of the types of domain.rs, events.rs and
\* sync_journal.rs; every record carries the hash of real bytes, and a staged file
\* is never a directory.
TypeOK ==
    /\ local \in [Paths -> LocalFile]
    /\ part \in [PartNames -> Contents \cup {Absent}]
    /\ trash \in [TrashNames -> LocalFile]
    /\ ledger \in Snapshot
    /\ journal \in PendingSyncAction \cup {NoAction}
    /\ phone \in Listing
    /\ events \in Seq(FileChange) /\ watching \in BOOLEAN /\ lagged \in BOOLEAN
    /\ pc \in Pcs /\ mode \in {"run", "watch"}
    /\ snap \in Snapshot
    /\ listing \in Listing
    /\ adds \subseteq Paths /\ dels \subseteq Paths /\ infos \subseteq Paths
    /\ batch \in Seq(FileChange)
    /\ held \in PendingSyncAction \cup {NoAction}
    /\ owner \in [Paths -> {"user", "sync"}]
    /\ exposed \subseteq Paths
    /\ budget \in [Kinds -> Nat]

-----------------------------------------------------------------------------
(***************************************************************************)
(* Correctness.                                                            *)
(***************************************************************************)

\* The journal names p.
Journaled(p) == journal # NoAction /\ journal.path = p

\* The ledger and the disk agree about p.
Recorded(p) == IF ledger[p] = NoRow THEN local[p] = Absent
               ELSE local[p] = ledger[p].local_sha256

\* The ledger never lies about a file sync itself put there or removed: until
\* the user touches it, what is at the path is what its record says, or the
\* journal names the path (sync.rs execute_plan_with_checkpoint: a crash leaves
\* at most one pending action, never "files changed, ledger stale").
LedgerMatchesFiles == \A p \in Paths : owner[p] = "sync" => Recorded(p) \/ Journaled(p)

\* The record of p promises bytes that are in a staged file.
StrandedIn(p, names) ==
    /\ ledger[p] # NoRow /\ local[p] # Absent
    /\ \E n \in names : part[n] = ledger[p].local_sha256

\* The names of staged files no action uses.
Strays == {n \in PartNames : /\ journal # NoAction => journal.name # n
                             /\ held # NoAction => held.name # n}

Done(p, names) == owner[p] = "sync" => Recorded(p) \/ StrandedIn(p, names)

\* Whatever crashes, aborts and failed calls do, a path sync owns is in one of
\* three states: ledger and disk agree, the journal names it, or recovery
\* recorded the new download over the old file, in which case the new bytes
\* are still on disk in a stranded staged file (journaled_download,
\* journaled_delete and recover_impl together).
NothingHalfDone ==
    \A p \in Paths : Journaled(p) \/ Done(p, Strays)

\* A photo that sync renamed away is never forgotten in the folder: a trash file
\* exists only while the journal names it (journaled_delete removes the trash
\* before it clears the journal; recover_impl retries the removal).
TrashIsJournaled ==
    \A n \in TrashNames :
        trash[n] # Absent => journal # NoAction /\ journal.op = "delete" /\ journal.name = n

\* Nothing half done is forgotten: neither a path whose ledger and disk disagree
\* nor a photo in the trash is unknown to the journal, whatever crashes, aborts
\* and failed calls do (journaled_download, journaled_delete, recover_impl).
NothingForgotten == NothingHalfDone /\ TrashIsJournaled

\* The engine, at any moment, has no more than one side effect the ledger does
\* not know of, and none at all whenever it is about to start another item:
\* the journal has one slot, and WriteJournal and JournalDelete replace it.
CleanBeforeNextItem ==
    pc \in {"items", "staged"} =>
        /\ \A p \in Paths : Done(p, Strays)
        /\ \A n \in TrashNames : trash[n] = Absent

\* A local file this step replaces or removes, if it is not the user's step.
ReplacedBySync(p) == local[p] # Absent /\ local'[p] # local[p] /\ owner'[p] = "sync"

VerifiedReplacement ==
    \A p \in Paths : ReplacedBySync(p) =>
        \/ snap[p] = NoRow
        \/ local[p] = snap[p].local_sha256
        \/ p \in exposed

\* Sync replaces or removes a local file only if its bytes are the ones its
\* record names, or there was no record to compare with, or the user changed
\* it after the conflict check of this run or this watch item (check_conflicts,
\* recomputed after recovery, and the one-entry check of apply_watch_batch).
OnlyVerifiedFilesReplaced == [][VerifiedReplacement]_vars

\* The folder, the ledger and the phone agree about p, or the user decided, or
\* the phone has a directory there, which plan_diff ignores.
InSync(p) ==
    \/ phone[p] # Absent /\ is_directory(phone[p])
    \/ owner[p] = "user" /\ local[p] # Absent
    \/ phone[p] = Absent /\ ledger[p] = NoRow /\ local[p] = Absent
    \/ /\ phone[p] # Absent /\ ledger[p] # NoRow
       /\ ledger[p].checksum = checksum(phone[p]) /\ ledger[p].meta = phone[p].meta
       /\ local[p] = phone[p].content

\* Repeated runs converge: once the phone, the user and the faults are quiet,
\* every path ends up in sync and stays so, whatever pending action, failed
\* item or interrupted recovery the earlier runs left behind.
Converges == <>[](\A p \in Paths : InSync(p))

-----------------------------------------------------------------------------
(***************************************************************************)
(* The inductive invariant behind NothingHalfDone, TrashIsJournaled,       *)
(* CleanBeforeNextItem and OnlyVerifiedFilesReplaced.                      *)
(***************************************************************************)

\* The action in hand, and the journal while it is being executed.
HeldInv ==
    /\ pc = "staged" => held \in Download
    /\ pc \in {"journaled", "renamed", "saved_delete", "saved"} =>
           held \in PendingSyncAction /\ journal = held
    /\ pc = "saved_delete" => held \in Delete
    /\ held # NoAction => pc \in {"staged", "journaled", "renamed", "saved_delete", "saved"}
    /\ pc = "recover_drop" => journal \in Delete
    /\ pc = "recover_clear" => journal \in PendingSyncAction
    /\ pc \in {"idle", "recover", "recover_drop", "recover_clear", "plan"} => infos = {}
    /\ \A p \in infos : listing[p] \in RemoteFile

\* Only the journaled deletion has a trash file, and only between its rename
\* and its removal.
TrashInv ==
    /\ TrashIsJournaled
    /\ pc \notin {"idle", "recover", "renamed", "saved_delete"} =>
           \A n \in TrashNames : trash[n] = Absent

\* A staged file holds the bytes its action will record.
StagedBytes(action) ==
    action \in Download => part[action.name] \in {Absent, action.row.local_sha256}

PartInv ==
    /\ StagedBytes(journal)
    /\ pc = "staged" => /\ part[held.name] = held.row.local_sha256
                        /\ journal # NoAction => journal.name # held.name
    /\ pc = "journaled" /\ held \in Download => part[held.name] = held.row.local_sha256
    /\ pc = "renamed" /\ held \in Download => part[held.name] = Absent

\* Two snapshots record the same local files.
SameFiles(s1, s2) ==
    \A p \in Paths : /\ s1[p] = NoRow <=> s2[p] = NoRow
                     /\ s1[p] # NoRow => s1[p].local_sha256 = s2[p].local_sha256

\* The ledger on disk lags the snapshot in memory by metadata only, and by the
\* item in hand between its rename and its save.
SnapInv ==
    /\ pc \notin {"idle", "renamed"} => SameFiles(snap, ledger)
    /\ pc = "renamed" => /\ snap[held.path] = held.row
                         /\ \A p \in Paths \ {held.path} :
                                /\ snap[p] = NoRow <=> ledger[p] = NoRow
                                /\ snap[p] # NoRow =>
                                       snap[p].local_sha256 = ledger[p].local_sha256

FileInv ==
    /\ NothingHalfDone
    /\ pc \in {"plan", "items", "staged", "journaled", "saved_delete", "saved"} =>
           \A p \in Paths : Done(p, Strays)
    /\ pc = "recover_clear" => \A p \in Paths : Done(p, PartNames)
    \* A journaled download whose staged file is gone was renamed into place.
    /\ \A p \in Paths :
           journal \in Download /\ journal.path = p /\ owner[p] = "sync"
           /\ part[journal.name] = Absent => local[p] = journal.row.local_sha256
    \* A journaled deletion whose file is there was not renamed away.
    /\ \A p \in Paths :
           journal \in Delete /\ journal.path = p /\ owner[p] = "sync" /\ local[p] # Absent
           => pc \notin {"recover_drop", "renamed"} /\ Done(p, Strays)

\* A path the plan or the action in hand will touch passed its conflict check,
\* unless the user changed it since.
Checked(p) ==
    \/ local[p] = Absent
    \/ snap[p] = NoRow
    \/ local[p] = snap[p].local_sha256
    \/ p \in exposed

CheckedInv ==
    /\ pc \in {"idle", "recover", "recover_drop", "recover_clear", "plan"} \/ mode = "watch" =>
           adds = {} /\ dels = {}
    /\ \A p \in adds \cup dels : Checked(p)
    /\ pc \in {"staged", "journaled"} => Checked(held.path)

IndInv == TypeOK /\ HeldInv /\ TrashInv /\ PartInv /\ SnapInv /\ FileInv /\ CheckedInv
=============================================================================
