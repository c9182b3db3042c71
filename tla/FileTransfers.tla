--------------------------- MODULE FileTransfers ----------------------------
(***************************************************************************)
(* The file service: preflight of a plan, its execution as a background    *)
(* transfer (runtime.rs plan_download .. start_batch_plan), the batches    *)
(* and trees of the core client and the single downloads and uploads they  *)
(* consist of (client.rs), with the file requests of other callers, the    *)
(* user and the phone changing files meanwhile.                            *)
(*                                                                         *)
(* One plan is made and executed in a behaviour.  Every await of the code  *)
(* ends a step: a request and its answer, a chunk, a local file operation. *)
(* The contents of files are opaque; "torn" is a body of the right length  *)
(* made of two versions, "partial" one that is too short.                  *)
(***************************************************************************)
EXTENDS FilePlan, FiniteSets, FiniteSetsExt

CONSTANTS
    RemoteInit, LocalInit,  \* the two file systems at first
    Contents,               \* what the user and the phone may write
    Sources,                \* source lists of a request: relative, as sequences
    Destinations,           \* destinations of a request, by direction
    Pairs,                  \* items of a batch without preflight, by direction
    QueryPaths,             \* paths of the reading file requests
    Deletes, NewPaths,      \* what other callers delete, move and create
    StrayPath,              \* a path outside the subtree it was listed for
    ConcurrencyChoices,     \* concurrency asked for at execution
    MaxOthers               \* bound on the steps of user, phone and other callers

\* A file system maps the paths it has room for to their entries, and nothing
\* lies below a file.
FileSystem(fs) ==
    /\ IsFiniteSet(DOMAIN fs) /\ DOMAIN fs \subseteq Seq(STRING) \ {<<>>}
    /\ fs \in [DOMAIN fs -> STRING \ {"partial", "torn"}]
    /\ \A p, q \in DOMAIN fs : IsFile(fs[p]) /\ IsStrictPrefix(p, q) => fs[q] = "none"

ASSUME FilesAssumption ==
    /\ FileSystem(RemoteInit) /\ FileSystem(LocalInit)
    /\ Contents \subseteq STRING \ {"none", "dir", "partial", "torn"}

\* A stray entry leads out of the tree it is listed for.
ASSUME PathsAssumption ==
    /\ Root \in Seq(STRING) /\ StrayPath \in Seq(STRING)
    /\ \E n \in DOMAIN StrayPath : StrayPath[n] = ".."
    /\ QueryPaths \subseteq [abs : BOOLEAN, parts : Seq(STRING)]
    /\ NewPaths \subseteq Seq(STRING) /\ UNION Deletes \subseteq Seq(STRING)

ASSUME RequestsAssumption ==
    /\ Sources \in [{"Download", "Upload"} -> SUBSET Seq(Seq(STRING))]
    /\ Destinations \in [{"Download", "Upload"} -> SUBSET Seq(STRING)]
    /\ Pairs \in [{"Download", "Upload"} ->
                     SUBSET Seq([src : Seq(STRING), dst : Seq(STRING), isDir : BOOLEAN])]
    /\ ConcurrencyChoices \subseteq Nat /\ MaxOthers \in Nat

VARIABLES
    remote, local,      \* the file systems
    alive,              \* the connection
    plan,               \* FileOperationPlan, and the request while it is made
    exec,               \* what start_batch_plan's task keeps
    batch,              \* the items of the running batch_transfer
    temps,              \* temporary files, by the item that made them
    xfer, token,        \* the transfer's public state and its cancel token
    cancelling,         \* TransferRegistry::cancel is between its two effects
    others,             \* steps of user, phone and other callers so far
    touched,            \* ghost: paths (with side) those steps changed
    base,               \* ghost: both file systems when the execution began
    escaped,            \* ghost: a relative path was resolved outside the root
    replied             \* ghost: what the last successful delete said is gone

vars == <<remote, local, alive, plan, exec, batch, temps, xfer, token, cancelling,
          others, touched, base, escaped, replied>>
files == <<remote, local>>
transfer == <<xfer, token, cancelling>>
ghosts == <<others, touched, base, escaped, replied>>

Terminal == {"Completed", "Failed", "Cancelled"}
transition(next) == IF xfer \in Terminal THEN xfer ELSE next
Directions == {"Download", "Upload"}
Src == IF plan.dir = "Download" THEN remote ELSE local
Dst == IF plan.dir = "Download" THEN local ELSE remote
IsDir(fs, p) == p = <<>> \/ At(fs, p) = "dir"
\* A file can be put at a path; one the model has no room for is refused, as on
\* a full disk.
CanHold(fs, p) == p \in DOMAIN fs /\ fs[p] # "dir" /\ IsDir(fs, Parent(p))
Below(fs, p) == {q \in DOMAIN fs : IsStrictPrefix(p, q) /\ fs[q] # "none"}
Range1(s) == {s[i] : i \in DOMAIN s}
NoteEscape(raws) ==
    escaped' = (escaped \/ \E raw \in raws : ~raw.abs /\ ~IsPrefix(Root, resolve_remote_path(raw)))

Init ==
    /\ remote = RemoteInit /\ local = LocalInit /\ alive = TRUE
    /\ plan = [phase |-> "none", dir |-> "Download", todo |-> <<>>, dest |-> <<>>, count |-> 0,
               destIsDir |-> FALSE, recursive |-> FALSE, overwrite |-> FALSE,
               items |-> <<>>, conflicts |-> {}, checked |-> FALSE]
    /\ exec = [phase |-> "none", background |-> FALSE, overwrite |-> FALSE, concurrency |-> 1,
               trees |-> {}, files |-> {}, dirs |-> {}, then |-> <<>>, tree |-> FALSE,
               failures |-> {}, completed |-> 0, failed |-> 0]
    /\ batch = <<>> /\ temps = {}
    /\ xfer = "none" /\ token = FALSE /\ cancelling = FALSE
    /\ others = 0 /\ touched = {} /\ base = [remote |-> RemoteInit, local |-> LocalInit]
    /\ escaped = FALSE /\ replied = {}

(***************************************************************************)
(* The requests of the core client, as the phone answers them.             *)
(***************************************************************************)

\* list_dir: everything below a directory.
list_dir(p) == Below(remote, p)

\* stat: the root is known without asking, anything else is looked up in the
\* listing of its parent.
stat_answered(p) == alive \/ p = Root

file_exists(p) == At(remote, p) # "none"

\* create_dir and rename: when the phone does them, and what they leave.
can_create_dir(p) == p \in DOMAIN remote /\ ~file_exists(p) /\ IsDir(remote, Parent(p))
create_dir(p) == [remote EXCEPT ![p] = "dir"]
can_rename(p, q) ==
    /\ IsFile(At(remote, p)) /\ ~file_exists(q)
    /\ q \in DOMAIN remote /\ IsDir(remote, Parent(q))
rename(p, q) == [remote EXCEPT ![p] = "none", ![q] = remote[p]]

\* delete: the phone deletes what it can of the paths, with all below them.
delete(gone) ==
    [q \in DOMAIN remote |-> IF \E p \in gone : IsPrefix(p, q) THEN "none" ELSE remote[q]]

(***************************************************************************)
(* plan_download and plan_upload.                                          *)
(***************************************************************************)

Relative(p) == [abs |-> FALSE, parts |-> p]

\* The request; plan_upload first asks the phone about the destination, and
\* an unanswered stat ends the plan.
PlanBegins(dir, sources, dest, recursive, overwrite) ==
    /\ plan.phase = "none"
    /\ LET at == IF dir = "Upload" THEN resolve_remote_path(Relative(dest)) ELSE dest
       IN  /\ plan' = [plan EXCEPT !.phase = IF dir = "Download" \/ stat_answered(at)
                                             THEN "planning" ELSE "error",
                         !.dir = dir, !.todo = sources, !.dest = at, !.count = Len(sources),
                         !.destIsDir = dir = "Upload" /\ IsDir(remote, at),
                         !.recursive = recursive, !.overwrite = overwrite, !.checked = TRUE]
           /\ IF dir = "Upload" THEN NoteEscape({Relative(dest)}) ELSE UNCHANGED escaped
    /\ UNCHANGED <<files, alive, exec, batch, temps, transfer, others, touched, base, replied>>

\* One source of the preflight: its kind, its destination and the conflicts.
\* The local destination is looked at again for every source.
PlanSource ==
    /\ plan.phase = "planning" /\ plan.todo # <<>>
    /\ LET raw == Relative(Head(plan.todo))
           src == IF plan.dir = "Download" THEN resolve_remote_path(raw) ELSE Head(plan.todo)
           entry == At(Src, src)
           destIsDir == IF plan.dir = "Download" THEN IsDir(local, plan.dest) ELSE plan.destIsDir
           dst == resolve_destination(plan.dest, destIsDir, src, plan.count)
           recursion == IF entry = "dir" /\ ~plan.recursive
                        THEN {Conflict("RecursiveRequired", TRUE)} ELSE {}
           unanswered == \/ plan.dir = "Download" /\ ~stat_answered(src)
                         \/ plan.dir = "Upload" /\ entry # "none" /\ \E d \in dst : ~stat_answered(d)
           next == [plan EXCEPT !.todo = Tail(@)]
       IN  /\ IF plan.dir = "Download" THEN NoteEscape({raw}) ELSE UNCHANGED escaped
           /\ plan' =
                CASE unanswered -> [plan EXCEPT !.phase = "error"]
                  [] ~unanswered /\ entry = "none" ->
                         [next EXCEPT !.conflicts = @ \cup {Conflict("SourceMissing", FALSE)}]
                  [] ~unanswered /\ entry # "none" /\ dst = {} ->
                         [next EXCEPT !.conflicts = @ \cup recursion
                                          \cup {Conflict("DestinationTypeMismatch", FALSE)}]
                  [] OTHER -> LET d == CHOOSE d \in dst : TRUE IN
                         [next EXCEPT
                            !.conflicts = @ \cup recursion
                               \cup inspect_destination(At(Dst, d), entry = "dir", plan.overwrite),
                            !.items = Append(@, [src |-> src, dst |-> d, isDir |-> entry = "dir"])]
    /\ UNCHANGED <<files, alive, exec, batch, temps, transfer, others, touched, base, replied>>

\* Duplicate destinations, and the plan goes back to the caller.
finalize_file_plan ==
    /\ plan.phase = "planning" /\ plan.todo = <<>>
    /\ plan' = [plan EXCEPT !.phase = "planned",
                  !.conflicts = @ \cup append_duplicate_destination_conflicts(plan.items)]
    /\ UNCHANGED <<files, alive, exec, batch, temps, transfer, ghosts>>

(***************************************************************************)
(* execute_file_plan, the batches without preflight, and cancel.           *)
(***************************************************************************)

\* The plan's items in two parts, by their places in the plan.
Trees(items) == {i \in DOMAIN items : items[i].isDir}
Files(items) == {i \in DOMAIN items : ~items[i].isDir}

\* The task is registered and spawned with the items split.
Begin(items, background, overwrite, concurrency) ==
    /\ exec' = [exec EXCEPT !.phase = "start", !.background = background,
                   !.overwrite = overwrite,
                   !.concurrency = IF concurrency = 0 THEN 1 ELSE concurrency,
                   !.trees = Trees(items), !.files = Files(items)]
    /\ xfer' = IF background THEN "Queued" ELSE "none"
    /\ base' = [remote |-> remote, local |-> local]
    /\ touched' = {}
    /\ UNCHANGED <<files, alive, batch, temps, token, cancelling, others, replied>>

execute_file_plan(overwrite, concurrency) ==
    /\ plan.phase = "planned" /\ exec.phase = "none"
    /\ is_executable_with(plan.conflicts, overwrite)
    /\ plan.items # <<>>
    /\ Begin(plan.items, TRUE, overwrite, concurrency)
    /\ UNCHANGED <<plan, escaped>>

\* start_batch_transfer (background) and batch_download / batch_upload: the
\* caller names every target, nothing is looked at, execution is serial.
start_batch(dir, background, overwrite, pairs) ==
    /\ plan.phase = "none"
    /\ LET item(i) == [src |-> IF dir = "Download" THEN resolve_remote_path(Relative(pairs[i].src))
                               ELSE pairs[i].src,
                       dst |-> IF dir = "Upload" THEN resolve_remote_path(Relative(pairs[i].dst))
                               ELSE pairs[i].dst,
                       isDir |-> pairs[i].isDir]
           items == [i \in DOMAIN pairs |-> item(i)]
       IN  /\ plan' = [plan EXCEPT !.phase = "planned", !.dir = dir, !.items = items]
           /\ Begin(items, background, overwrite, 1)
           /\ NoteEscape({Relative(IF dir = "Download" THEN pairs[i].src ELSE pairs[i].dst) :
                             i \in DOMAIN pairs})

\* TransferRegistry::cancel: the token, then the public state.
cancel_transfer ==
    /\ xfer # "none" /\ ~cancelling /\ ~token
    /\ token' = TRUE /\ cancelling' = TRUE
    /\ UNCHANGED <<files, alive, plan, exec, batch, temps, xfer, ghosts>>

cancel_transition ==
    /\ cancelling
    /\ cancelling' = FALSE /\ xfer' = transition("Cancelled")
    /\ UNCHANGED <<files, alive, plan, exec, batch, temps, token, ghosts>>

(***************************************************************************)
(* The background task, its trees and its batches.                         *)
(***************************************************************************)

\* The task's error arm: a cancellation leaves the public state to cancel(),
\* everything else is Failed.  A direct batch only returns the error.
TaskFails(code) ==
    /\ exec' = [exec EXCEPT !.phase = "ended"]
    /\ xfer' = IF exec.background /\ code # "Interrupted" THEN transition("Failed") ELSE xfer
    /\ UNCHANGED <<alive, plan, token, cancelling, ghosts>>

\* The task begins, or one of its stages is over: the next tree, then the
\* files.  A background plan without files calls no batch for them.
NextStage ==
    /\ exec.phase = "start"
    /\ \/ /\ exec.trees # {}
          /\ exec' = [exec EXCEPT !.phase = IF plan.dir = "Download" THEN "mkdir" ELSE "collect"]
       \/ /\ exec.trees = {} /\ exec.files # {}
          /\ exec' = [exec EXCEPT !.phase = "batch", !.tree = FALSE,
                                  !.then = [i \in exec.files |-> plan.items[i]]]
       \/ /\ exec.trees = {} /\ exec.files = {}
          /\ exec' = [exec EXCEPT !.phase = "report"]
    /\ xfer' = IF exec.background THEN transition("Running") ELSE xfer
    /\ UNCHANGED <<files, alive, plan, batch, temps, token, cancelling, ghosts>>

\* The tree the task is at: they are taken in the order of the plan.
Tree == plan.items[Min(exec.trees)]

\* create_dir_all.
CanMakeDirs(fs, p) ==
    \A n \in 1 .. Len(p) : SubSeq(p, 1, n) \in DOMAIN fs /\ ~IsFile(fs[SubSeq(p, 1, n)])
MakeDirs(fs, p) == [q \in DOMAIN fs |-> IF IsPrefix(q, p) THEN "dir" ELSE fs[q]]

\* download_tree, its first step.
TreeMakesRoot ==
    /\ exec.phase = "mkdir"
    /\ LET to == Tree.dst
       IN  IF CanMakeDirs(local, to)
           THEN /\ local' = MakeDirs(local, to)
                /\ exec' = [exec EXCEPT !.phase = "list"]
                /\ UNCHANGED <<alive, plan, transfer, ghosts>>
           ELSE UNCHANGED local /\ TaskFails("LocalIo")
    /\ UNCHANGED <<remote, batch, temps>>

\* Where a relative path below a directory leads: ".." leads up.
join(dir, relative) ==
    IF ".." \in Range1(relative) THEN normalize_remote_path(dir \o relative) ELSE dir \o relative

\* The part of a path that is below a directory.
strip_prefix(from, path) == SubSeq(path, Len(from) + 1, Len(path))

\* An entry of the listing may become a local path: it is below the tree and
\* has no component that leads out of it.
may_mirror(from, path) ==
    IsStrictPrefix(from, path) /\ ".." \notin Range1(strip_prefix(from, path))

\* download_tree, the listing: directories are made, files become items, in
\* the order of the listing.  The phone may list an entry that is not below
\* the tree.
TreeListed ==
    /\ exec.phase = "list"
    /\ LET from == Tree.src
           to == Tree.dst
           target(p) == join(to, strip_prefix(from, p))
           Mirrored(D) == [q \in DOMAIN local |->
                             IF \E p \in D : IsPrefix(q, target(p)) THEN "dir" ELSE local[q]]
       IN  \/ ~alive /\ TaskFails("Transport") /\ UNCHANGED local
           \/ /\ alive
              /\ \E strays \in SUBSET {from \o StrayPath} :
                    LET listed == list_dir(from) \cup strays
                        dirs == {p \in listed : At(remote, p) = "dir"}
                        makeable == {p \in dirs : may_mirror(from, p) /\ CanMakeDirs(local, target(p))}
                        items == {[src |-> IF p \in strays THEN normalize_remote_path(p) ELSE p,
                                   dst |-> target(p), isDir |-> FALSE] : p \in listed \ dirs}
                    IN  IF (\A p \in listed : may_mirror(from, p)) /\ makeable = dirs
                        THEN /\ local' = Mirrored(dirs)
                             /\ \E todo \in SetToSeqs(items) :
                                   exec' = [exec EXCEPT !.phase = "batch", !.tree = TRUE, !.then = todo]
                             /\ UNCHANGED <<alive, plan, transfer, ghosts>>
                        ELSE /\ \E made \in SUBSET makeable : local' = Mirrored(made)
                             /\ TaskFails("Protocol")
    /\ UNCHANGED <<remote, batch, temps>>

\* upload_tree, collect_upload_tree: one walk of the local tree.
collect_upload_tree ==
    /\ exec.phase = "collect"
    /\ LET from == Tree.src
           to == Tree.dst
           target(p) == to \o strip_prefix(from, p)
           dirs == {p \in Below(local, from) : local[p] = "dir"}
       IN  IF At(local, from) = "dir"
           THEN /\ \E todo \in SetToSeqs({[src |-> p, dst |-> target(p), isDir |-> FALSE] :
                                            p \in Below(local, from) \ dirs}) :
                      exec' = [exec EXCEPT !.phase = "mkremote", !.tree = TRUE, !.then = todo,
                                           !.dirs = {to} \cup {target(p) : p \in dirs}]
                /\ UNCHANGED <<alive, plan, transfer, ghosts>>
           ELSE TaskFails("LocalIo")
    /\ UNCHANGED <<files, batch, temps>>

\* upload_tree, the next directory, parents first: asked for, and made when
\* nothing of that name exists, be it a directory or a file.
TreeMakesRemote ==
    /\ exec.phase = "mkremote"
    /\ \/ /\ exec.dirs = {}
          /\ exec' = [exec EXCEPT !.phase = "batch"]
          /\ UNCHANGED <<remote, alive, plan, transfer, ghosts>>
       \/ \E d \in exec.dirs :
             /\ \A e \in exec.dirs : ~IsStrictPrefix(e, d)
             /\ CASE ~alive -> TaskFails("Transport") /\ UNCHANGED remote
                  [] alive /\ ~file_exists(d) /\ ~can_create_dir(d) ->
                         TaskFails("RemoteIo") /\ UNCHANGED remote
                  [] OTHER -> /\ remote' = IF file_exists(d) THEN remote ELSE create_dir(d)
                              /\ exec' = [exec EXCEPT !.dirs = @ \ {d}]
                              /\ UNCHANGED <<alive, plan, transfer, ghosts>>
    /\ UNCHANGED <<local, batch, temps>>

\* batch_transfer begins.
BatchBegins ==
    /\ exec.phase = "batch"
    /\ IF exec.concurrency \notin 1 .. 8
       THEN TaskFails("Usage") /\ UNCHANGED batch
       ELSE /\ batch' = [i \in DOMAIN exec.then |->
                           [src |-> exec.then[i].src, dst |-> exec.then[i].dst, st |-> "wait",
                            head |-> "none", body |-> "none", md5 |-> FALSE, code |-> "none"]]
            /\ exec' = [exec EXCEPT !.phase = "items"]
            /\ UNCHANGED <<alive, plan, transfer, ghosts>>
    /\ UNCHANGED <<files, temps>>

Copied == {i \in DOMAIN batch : batch[i].st = "ok"}
Failures == {i \in DOMAIN batch : batch[i].st = "failed"}
Busy == {i \in DOMAIN batch : batch[i].st \notin {"wait", "ok", "failed"}}

\* batch_transfer ends: interrupted when an item was skipped because of the
\* token, otherwise merged; a tree is one item of the plan, whatever failed in
\* it.
BatchEnds ==
    /\ exec.phase = "items"
    /\ \A i \in DOMAIN batch : batch[i].st \in {"ok", "failed"}
    /\ IF exec.background /\ token /\ \E i \in Failures : batch[i].code = "Interrupted"
       THEN TaskFails("Interrupted")
       ELSE /\ exec' = [exec EXCEPT !.phase = "start",
                   !.trees = IF exec.tree THEN @ \ {Min(@)} ELSE @,
                   !.files = IF exec.tree THEN @ ELSE {},
                   !.failures = @ \cup {batch[i].code : i \in Failures},
                   !.completed = @ + (IF exec.tree THEN 1 ELSE Cardinality(Copied)),
                   !.failed = @ + (IF exec.tree THEN 0 ELSE Cardinality(Failures))]
            /\ UNCHANGED <<alive, plan, transfer, ghosts>>
    /\ batch' = <<>>
    /\ UNCHANGED <<files, temps>>

\* The task reports: Completed without failures, Failed with some; a transport
\* failure marks the connection lost.
TaskReports ==
    /\ exec.phase = "report"
    /\ exec' = [exec EXCEPT !.phase = "ended"]
    /\ xfer' = IF ~exec.background THEN xfer
               ELSE transition(IF exec.failures = {} THEN "Completed" ELSE "Failed")
    /\ alive' = (alive /\ "Transport" \notin exec.failures)
    /\ UNCHANGED <<files, plan, batch, temps, token, cancelling, ghosts>>

(***************************************************************************)
(* One item: download.                                                     *)
(***************************************************************************)

\* Mutant of MayStart: one slot is never used.
MayStartStrictly(i) ==
    /\ exec.phase = "items" /\ batch[i].st = "wait"
    /\ \A j \in DOMAIN batch : j < i => batch[j].st # "wait"
    /\ Cardinality(Busy) < exec.concurrency - 1

\* buffer_unordered: the next item in order, while a slot is free.
MayStart(i) ==
    /\ exec.phase = "items" /\ batch[i].st = "wait"
    /\ \A j \in DOMAIN batch : j < i => batch[j].st # "wait"
    /\ Cardinality(Busy) < exec.concurrency
ItemFrame == UNCHANGED <<alive, plan, exec, transfer, ghosts>>
Skipped == exec.background /\ token

\* An item fails; dropping TemporaryDownload removes its file.
Fail(i, code) ==
    /\ batch' = [batch EXCEPT ![i].st = "failed", ![i].code = code]
    /\ temps' = temps \ {i}

Go(i, st) == batch' = [batch EXCEPT ![i].st = st] /\ UNCHANGED temps

\* Mutant of DownloadStarts: the target is not looked at.
DownloadStartsBlindly(i) ==
    /\ plan.dir = "Download" /\ MayStart(i)
    /\ IF Skipped THEN Fail(i, "Interrupted") ELSE Go(i, "asked")
    /\ UNCHANGED files /\ ItemFrame

\* An item starts: not after a cancellation, and not onto an existing target
\* unless it may be overwritten.
DownloadStarts(i) ==
    /\ plan.dir = "Download" /\ MayStart(i)
    /\ CASE Skipped -> Fail(i, "Interrupted")
         [] ~Skipped /\ At(local, batch[i].dst) # "none" /\ ~exec.overwrite -> Fail(i, "LocalIo")
         [] OTHER -> Go(i, "asked")
    /\ UNCHANGED files /\ ItemFrame

\* The header: the phone is ready or not, sends a checksum or not, and the
\* temporary file is created beside the target.
DownloadHeader(i) ==
    /\ plan.dir = "Download" /\ batch[i].st = "asked"
    /\ LET entry == At(remote, batch[i].src)
       IN  CASE ~alive -> Fail(i, "Transport")
             [] alive /\ ~IsFile(entry) -> Fail(i, "RemoteIo")
             [] alive /\ IsFile(entry) /\ ~IsDir(local, Parent(batch[i].dst)) -> Fail(i, "LocalIo")
             [] OTHER -> \E md5 \in BOOLEAN :
                   /\ batch' = [batch EXCEPT ![i].st = "receive", ![i].head = entry,
                                             ![i].md5 = md5]
                   /\ temps' = temps \cup {i}
    /\ UNCHANGED files /\ ItemFrame

\* What the phone reads from the file now; a deleted one is still open.
Read(i) == LET e == At(remote, batch[i].src) IN IF IsFile(e) THEN e ELSE batch[i].head

\* receive_raw_to: the first part of the body.
DownloadChunk(i) ==
    /\ plan.dir = "Download" /\ batch[i].st = "receive"
    /\ IF alive THEN /\ batch' = [batch EXCEPT ![i].st = "rest", ![i].body = Read(i)]
                     /\ UNCHANGED temps
       ELSE Fail(i, "Transport")
    /\ UNCHANGED files /\ ItemFrame

\* Mutant of DownloadBody: the checksum is not compared.
DownloadBodyUnverified(i) ==
    /\ plan.dir = "Download" /\ batch[i].st = "rest"
    /\ LET body == IF Read(i) = batch[i].body THEN batch[i].body ELSE "torn"
       IN  IF alive THEN /\ batch' = [batch EXCEPT ![i].st = "got", ![i].body = body]
                         /\ UNCHANGED temps
           ELSE Fail(i, "Transport")
    /\ UNCHANGED files /\ ItemFrame

\* The rest of the body, sync_all, and the checksum if the phone sent one.
DownloadBody(i) ==
    /\ plan.dir = "Download" /\ batch[i].st = "rest"
    /\ LET body == IF Read(i) = batch[i].body THEN batch[i].body ELSE "torn"
       IN  CASE ~alive -> Fail(i, "Transport")
             [] alive /\ batch[i].md5 /\ body # batch[i].head -> Fail(i, "Protocol")
             [] OTHER -> /\ batch' = [batch EXCEPT ![i].st = "got", ![i].body = body]
                         /\ UNCHANGED temps
    /\ UNCHANGED files /\ ItemFrame

\* The temporary file is renamed over the target, whatever is there by now.
DownloadRenames(i) ==
    /\ plan.dir = "Download" /\ batch[i].st = "got"
    /\ LET to == batch[i].dst
       IN  IF CanHold(local, to)
           THEN /\ local' = [local EXCEPT ![to] = batch[i].body]
                /\ batch' = [batch EXCEPT ![i].st = "ok"]
                /\ temps' = temps \ {i}
           ELSE Fail(i, "LocalIo") /\ UNCHANGED local
    /\ UNCHANGED remote /\ ItemFrame

(***************************************************************************)
(* One item: upload.                                                       *)
(***************************************************************************)

\* The source must be a regular file; unless overwriting, the phone is asked.
UploadStarts(i) ==
    /\ plan.dir = "Upload" /\ MayStart(i)
    /\ CASE Skipped -> Fail(i, "Interrupted")
         [] ~Skipped /\ ~IsFile(At(local, batch[i].src)) -> Fail(i, "LocalIo")
         [] OTHER -> Go(i, IF exec.overwrite THEN "hash" ELSE "exists")
    /\ UNCHANGED files /\ ItemFrame

UploadExists(i) ==
    /\ plan.dir = "Upload" /\ batch[i].st = "exists"
    /\ CASE ~alive -> Fail(i, "Transport")
         [] alive /\ file_exists(batch[i].dst) -> Fail(i, "RemoteIo")
         [] OTHER -> Go(i, "hash")
    /\ UNCHANGED files /\ ItemFrame

\* file_md5 reads the whole file once for its checksum and size.
file_md5(i) ==
    /\ plan.dir = "Upload" /\ batch[i].st = "hash"
    /\ LET entry == At(local, batch[i].src)
       IN  IF IsFile(entry)
           THEN batch' = [batch EXCEPT ![i].st = "header", ![i].head = entry] /\ UNCHANGED temps
           ELSE Fail(i, "LocalIo")
    /\ UNCHANGED files /\ ItemFrame

UploadHeader(i) ==
    /\ plan.dir = "Upload" /\ batch[i].st = "header"
    /\ LET to == batch[i].dst
       IN  CASE ~alive -> Fail(i, "Transport")
             [] alive /\ ~CanHold(remote, to) -> Fail(i, "RemoteIo")
             [] OTHER -> Go(i, "send")
    /\ UNCHANGED files /\ ItemFrame

\* The file is opened and read again, to its end.
UploadSends(i) ==
    /\ plan.dir = "Upload" /\ batch[i].st = "send"
    /\ LET entry == At(local, batch[i].src)
       IN  CASE ~IsFile(entry) -> Fail(i, "LocalIo")
             [] IsFile(entry) /\ ~alive -> Fail(i, "Transport")
             [] OTHER -> /\ batch' = [batch EXCEPT ![i].st = "complete", ![i].body = entry]
                         /\ UNCHANGED temps
    /\ UNCHANGED files /\ ItemFrame

\* The completion message.  The phone may refuse the body (checksum, space,
\* cancelled there); when the connection is lost it has all, some or nothing.
UploadCompletes(i) ==
    /\ plan.dir = "Upload" /\ batch[i].st = "complete"
    /\ LET to == batch[i].dst
       IN  \/ /\ alive /\ CanHold(remote, to)
              /\ remote' = [remote EXCEPT ![to] = batch[i].body]
              /\ Go(i, "ok")
           \/ /\ alive /\ (batch[i].body # batch[i].head \/ ~CanHold(remote, to))
              /\ Fail(i, "RemoteIo") /\ UNCHANGED remote
           \/ /\ ~alive
              /\ Fail(i, "Transport")
              /\ \E e \in {At(remote, to), "partial", batch[i].body} :
                    remote' = IF CanHold(remote, to) THEN [remote EXCEPT ![to] = e] ELSE remote
    /\ UNCHANGED local /\ ItemFrame

(***************************************************************************)
(* Everybody else: the user, the phone, the file requests of other         *)
(* callers, the connection, and the close of the session.                  *)
(***************************************************************************)

Other == others < MaxOthers /\ others' = others + 1
Steady == UNCHANGED <<plan, exec, batch, temps, transfer, base>>
Changes(side, old, new) == {<<side, q>> : q \in {q \in DOMAIN old : old[q] # new[q]}}

\* A program of the user writes or removes a file or an empty directory.
UserChanges(p, e) ==
    /\ Other /\ Below(local, p) = {} /\ IsDir(local, Parent(p)) /\ local[p] # e
    /\ local' = [local EXCEPT ![p] = e]
    /\ touched' = touched \cup {<<"local", p>>}
    /\ UNCHANGED <<remote, alive, escaped, replied>> /\ Steady

\* An app on the phone rewrites a file.
PhoneChanges(p, e) ==
    /\ Other /\ IsFile(At(remote, p)) /\ remote[p] # e
    /\ remote' = [remote EXCEPT ![p] = e]
    /\ touched' = touched \cup {<<"remote", p>>}
    /\ UNCHANGED <<local, alive, escaped, replied>> /\ Steady

\* list_files, count_files, stat_file, monitor_folder: all
\* that counts is which path the phone is asked about.
FileQuery(raw) ==
    /\ alive /\ plan.phase = "none"
    /\ NoteEscape({raw})
    /\ UNCHANGED <<files, alive, others, touched, replied>> /\ Steady

\* A request of another caller that changes the phone.
Applied(new) ==
    /\ remote' = new
    /\ touched' = touched \cup Changes("remote", remote, new)

\* The answer to a delete carries one flag per file.
ensure_deleted_files_succeeded(asked, gone) == asked \subseteq gone

\* delete_paths: the phone deletes what it can, the answer says so or is lost.
delete_paths(raws) ==
    /\ Other /\ alive
    /\ LET asked == {resolve_remote_path(raw) : raw \in raws}
       IN  \E gone \in SUBSET {p \in asked : file_exists(p)} :
             /\ Applied(delete(gone))
             /\ alive' \in {alive, FALSE}
             /\ replied' = IF alive' /\ ensure_deleted_files_succeeded(asked, gone)
                           THEN asked ELSE {}
    /\ NoteEscape(raws)
    /\ UNCHANGED local /\ Steady

\* create_directory and move_path: the phone does it or refuses.
create_directory(raw) ==
    /\ Other /\ alive
    /\ LET p == resolve_remote_path(raw)
       IN  can_create_dir(p) /\ Applied(create_dir(p))
    /\ NoteEscape({raw})
    /\ UNCHANGED <<local, alive, replied>> /\ Steady

move_path(from, to) ==
    /\ Other /\ alive
    /\ LET p == resolve_remote_path(from)
           q == resolve_remote_path(to)
       IN  can_rename(p, q) /\ Applied(rename(p, q))
    /\ NoteEscape({from, to})
    /\ UNCHANGED <<local, alive, replied>> /\ Steady

ConnectionLost ==
    /\ Other /\ alive
    /\ alive' = FALSE
    /\ UNCHANGED <<files, touched, escaped, replied>> /\ Steady

\* cancel_for_session, from a lost connection, disconnect or shutdown; its
\* caller may then abort the task, which drops the temporary files.
cancel_for_session ==
    /\ xfer # "none" /\ ~cancelling /\ ~token
    /\ token' = TRUE /\ xfer' = transition("Cancelled") /\ alive' = FALSE
    /\ \/ UNCHANGED <<exec, batch, temps>>
       \/ exec.phase # "ended" /\ exec' = [exec EXCEPT !.phase = "ended"]
             /\ batch' = <<>> /\ temps' = {}
    /\ UNCHANGED <<files, plan, cancelling, ghosts>>

(***************************************************************************)
(* The specification.                                                      *)
(***************************************************************************)

Plan ==
    \/ \E dir \in Directions, recursive, overwrite \in BOOLEAN :
         \E sources \in Sources[dir], dest \in Destinations[dir] :
            PlanBegins(dir, sources, dest, recursive, overwrite)
    \/ PlanSource \/ finalize_file_plan

Call ==
    \/ \E overwrite \in BOOLEAN, concurrency \in ConcurrencyChoices :
         execute_file_plan(overwrite, concurrency)
    \/ \E dir \in Directions, background, overwrite \in BOOLEAN : \E pairs \in Pairs[dir] :
         start_batch(dir, background, overwrite, pairs)
    \/ cancel_transfer

Item(i) ==
    \/ DownloadStarts(i) \/ DownloadHeader(i) \/ DownloadChunk(i) \/ DownloadBody(i)
    \/ DownloadRenames(i)
    \/ UploadStarts(i) \/ UploadExists(i) \/ file_md5(i) \/ UploadHeader(i) \/ UploadSends(i)
    \/ UploadCompletes(i)

Task ==
    \/ NextStage \/ TreeMakesRoot \/ TreeListed \/ collect_upload_tree \/ TreeMakesRemote
    \/ BatchBegins \/ BatchEnds \/ TaskReports
    \/ \E i \in DOMAIN batch : Item(i)

OtherCallers ==
    \/ \E p \in DOMAIN local, e \in Contents \cup {"none", "dir"} : UserChanges(p, e)
    \/ \E p \in DOMAIN remote, e \in Contents : PhoneChanges(p, e)
    \/ \E raw \in QueryPaths : FileQuery(raw)
    \/ \E ps \in Deletes : delete_paths({Relative(p) : p \in ps})
    \/ \E q \in NewPaths : create_directory(Relative(q))
    \/ \E p \in UNION Deletes, q \in NewPaths : move_path(Relative(p), Relative(q))
    \/ ConnectionLost \/ cancel_for_session

Next == Plan \/ Call \/ Task \/ cancel_transition \/ OtherCallers

\* The task is polled by the runtime, every request of the session is answered
\* or fails, and cancel() runs to its end.
Fairness == WF_vars(Task) /\ WF_vars(cancel_transition)

Spec == Init /\ [][Next]_vars /\ Fairness

(***************************************************************************)
(* Properties.                                                             *)
(***************************************************************************)

Entries == {"none", "dir", "torn", "partial"} \cup Contents \cup Range1(RemoteInit)
             \cup Range1(LocalInit)
ItemStates == {"wait", "asked", "receive", "rest", "got", "exists", "hash", "header", "send",
               "complete", "ok", "failed"}

\* Entries and items have the values the code gives them, and a plan's
\* completed and failed items never exceed its items ("completed_items must
\* never exceed item_count").
TypeOK ==
    /\ remote \in [DOMAIN RemoteInit -> Entries]
    /\ local \in [DOMAIN LocalInit -> Entries]
    /\ xfer \in Terminal \cup {"none", "Queued", "Running"}
    /\ \A i \in DOMAIN batch : batch[i].st \in ItemStates
    /\ exec.completed + exec.failed <= Len(plan.items)

\* A download replaces its target as a whole or not at all: no local path ever
\* holds a part of a file, however the transfer ends.
NeverPartial == \A p \in DOMAIN local : local[p] # "partial"

\* When the phone sends a checksum, a body put together from two versions of
\* the file never arrives.  (Without one, nothing can notice.)
VerifiedBodies ==
    \A i \in DOMAIN batch :
        batch[i].st = "got" /\ batch[i].md5 => batch[i].body = batch[i].head

\* A temporary file belongs to a download that is still receiving: failure,
\* cancellation and abort remove it.
TempsOwned == \A i \in temps : i \in DOMAIN batch /\ batch[i].st \in {"receive", "rest", "got"}

\* With all values of their types: what arrives is a whole file, the one the
\* phone described when it sent a checksum, and nothing else stays on disk
\* (receive_raw_to, download_file).
FilesWhole == TypeOK /\ NeverPartial /\ VerifiedBodies /\ TempsOwned

\* Without overwrite, a file that was there when the execution began is still
\* there, unchanged, unless somebody else changed that path meanwhile: neither
\* the plan nor the batches without preflight replace it.
KeptUnlessOverwrite ==
    exec.phase # "none" /\ ~exec.overwrite =>
        /\ \A p \in DOMAIN local : IsFile(base.local[p]) /\ <<"local", p>> \notin touched =>
              local[p] = base.local[p]
        /\ \A p \in DOMAIN remote : IsFile(base.remote[p]) /\ <<"remote", p>> \notin touched =>
              remote[p] = base.remote[p]

\* The transfer touches nothing but the destinations of its items, the entries
\* of a tree included, and the directories that lead there.
Targeted(p) ==
    \E i \in DOMAIN plan.items : IsPrefix(plan.items[i].dst, p) \/ IsPrefix(p, plan.items[i].dst)
Confined ==
    exec.phase # "none" =>
        /\ \A p \in DOMAIN local : local[p] # base.local[p] /\ <<"local", p>> \notin touched =>
              plan.dir = "Download" /\ Targeted(p)
        /\ \A p \in DOMAIN remote : remote[p] # base.remote[p] /\ <<"remote", p>> \notin touched =>
              plan.dir = "Upload" /\ Targeted(p)

\* A transfer that went through preflight and is reported Completed has copied
\* every item, trees with all they contain, if nobody else changed a file.  The
\* one exception: where the phone has a file, upload_tree takes it for the
\* directory of that name, which is then not there.
CompletedMeansCopied ==
    xfer = "Completed" /\ plan.checked /\ others = 0 =>
        \A i \in DOMAIN plan.items :
            LET it == plan.items[i]
                target(p) == it.dst \o strip_prefix(it.src, p)
            IN  \A p \in {it.src} \cup Below(Src, it.src) :
                   \/ At(Dst, target(p)) = At(Src, p)
                   \/ /\ plan.dir = "Upload" /\ p # it.src
                      /\ At(Src, p) = "dir" /\ IsFile(At(base.remote, target(p)))

\* The end of the task is visible: once it has ended and no cancel() is on its
\* way, the public state of its transfer is terminal.
EndedIsTerminal ==
    exec.phase = "ended" /\ exec.background /\ ~cancelling => xfer \in Terminal

\* A relative path of a request never names anything outside the device root.
InsideRoot == ~escaped

\* Nothing but what the request names is changed: no existing file without
\* overwrite, nothing beside the destinations, nothing outside the device root
\* (start_batch_plan, mirror of a tree, resolve_remote_path).
OnlyTargetsChange == KeptUnlessOverwrite /\ Confined /\ InsideRoot

\* A delete that reports success has deleted every path it was given.
DeletedIsGone ==
    [][replied' # replied => \A p \in replied' : At(remote', p) = "none"]_vars

\* What the caller is told is what happened: Completed means copied, the end of
\* a task shows in its transfer, and a delete that succeeded deleted every path
\* (batch_transfer, transition, ensure_deleted_files_succeeded).
OutcomeTold == [](CompletedMeansCopied /\ EndedIsTerminal) /\ DeletedIsGone

\* An accepted plan or batch comes to an end, whatever the phone, the user and
\* the connection do.
TransferEnds == (exec.phase = "start") ~> (exec.phase = "ended")
=============================================================================
