---------------------------- MODULE CliCommands ----------------------------
(***************************************************************************)
(* What one command of the command line client does once the process has   *)
(* got as far as running it (cli.rs: execute_connected, media_command,     *)
(* sync_command, the trust commands): its requests to the phone in order,  *)
(* its early returns, its confirmation, and the class of its error.        *)
(*                                                                         *)
(* A command is a record `op'; `step' is where it is, `res' how it ended.  *)
(* A request is one step with every outcome it can have: answered,         *)
(* refused, or failed by a timeout or a lost connection after or before    *)
(* the phone did the work.  Ctrl-C arrives between steps (CommandLine).    *)
(***************************************************************************)
EXTENDS Naturals, Sequences, FiniteSets, SequencesExt

CONSTANTS
    Root,           \* DeviceInfo.root_path, a sequence of components
    PhoneInit,      \* the phone's files: path -> "none", "file" or "dir"
    Replies,        \* thumbnail answers a phone may give: sequences of [id, err, data]
    ClipInit        \* the time stamps of the clipboard entries

VARIABLES
    mode,           \* "one" (one-shot command), "shell", "batch" or "watch"
    human, tty,     \* the output format is human; stdin is a terminal
    op, step, res,  \* the running command, its step, and how it ended
    at,             \* index of the loop it is in
    consent,        \* --yes was given or the prompt was answered with yes
    existing,       \* existing_targets of the transfer plan
    reply,          \* the thumbnails the phone sent
    cwd,            \* context.remote_cwd
    link,           \* the session: "none", "up" or "lost"
    rfs,            \* the phone's files; "new..." marks one this process replaced
    loc,            \* the entry at the local destination of a pull
    clip,           \* clipboard entries of the phone
    trust,          \* where this pair of devices is trusted: "host", "phone"
    job, watching,  \* the sync run, and whether its watch is registered
    thumbs          \* <<target, image>> pairs written to disk

cmdVars == <<op, step, res, at, consent, existing, reply>>
dataVars == <<cwd, link, rfs, loc, clip, trust, job, watching, thumbs>>
cliVars == <<mode, human, tty, cmdVars, dataVars>>

Steps == {"none", "start", "made", "confirm", "ask", "ask_i", "act", "dry", "write",
          "sync", "startsync", "poll", "sleep", "result", "startwatch", "events", "tail",
          "done"}

\* The classes of handshaker_core::Error a command can end in.
Errors == {"usage", "selection", "configuration", "transport", "handshake", "protocol",
           "remote", "local", "confirm", "interrupted"}

\* Entries that a listing shows as directories.
IsDir(e) == e \in {"dir", "newdir"}
Exists(e) == e # "none"
Replaced(e) == IF IsDir(e) THEN "newdir" ELSE IF Exists(e) THEN "newfile" ELSE "file"

At(p) == IF p = <<>> THEN "dir" ELSE IF p \in DOMAIN rfs THEN rfs[p] ELSE "none"

(***************************************************************************)
(* Helpers of the client.                                                  *)
(***************************************************************************)

\* Components are taken one by one; ".." drops the last one, if there is one.
Walk(base, parts) ==
    LET next(acc, c) == CASE c \in {"", "."} -> acc
                          [] c = ".." -> IF acc = <<>> THEN acc ELSE Front(acc)
                          [] OTHER -> Append(acc, c)
    IN  FoldLeft(next, base, parts)

\* resolve_remote: an absolute path starts over, a relative one at the base.
resolve_remote(base, raw) == Walk(IF raw.abs THEN <<>> ELSE base, raw.parts)

Arg(i) == resolve_remote(cwd, op.args[i])

\* app_error: the class of the CLI for what the application answered.  Every
\* failed connection, timeout and unknown job lands in "transport".
app_error(outcome) ==
    CASE outcome = "refused" -> "remote"
      [] outcome = "invalid" -> "usage"
      [] OTHER -> "transport"

\* A request: its outcome, and whether the phone did what was asked.
Asked(outcome, did) ==
    /\ outcome = "ok" => link = "up" /\ did
    /\ outcome \in {"refused", "invalid"} => link = "up" /\ ~did
    /\ did => link = "up"
    /\ link' \in (IF outcome = "failed" THEN {link, "lost"} ELSE {link})

Ended(r) == step' = "done" /\ res' = r

\* What follows an answer: the next step, or the command's error.
Then(outcome, next) ==
    IF outcome = "ok" THEN step' = next /\ UNCHANGED res ELSE Ended(app_error(outcome))

\* A request that changes nothing on the phone.
Read(next) ==
    \E o \in {"ok", "refused", "failed"}, did \in BOOLEAN :
        Asked(o, did) /\ Then(o, next)

\* get_session_snapshot: answered from the registry, where a lost session
\* stays as Failed until it is disconnected.
Snapshot(next) == step' = next /\ UNCHANGED <<res, link>>

\* What most steps leave alone.
interactive == human /\ tty
same == <<mode, human, tty, op, cwd, trust, existing, reply>>
files == <<rfs, loc, clip, thumbs>>
jobs == <<job, watching>>

(***************************************************************************)
(* confirm and confirm_interruptible.                                      *)
(***************************************************************************)

AskNext == IF op.name \in {"sync_run", "sync_watch"} THEN "startsync" ELSE "act"

\* Mutant of confirm: a script counts as having agreed.
confirm_assumes_yes ==
    /\ step = "confirm"
    /\ op.name \notin {"sync_run", "sync_watch"}
    /\ IF interactive /\ ~op.yes
       THEN step' = "ask" /\ UNCHANGED <<res, consent>>
       ELSE step' = AskNext /\ consent' = op.yes /\ UNCHANGED res
    /\ UNCHANGED <<same, files, jobs, link, at>>

\* confirm: --yes is enough; without a terminal and human output it is
\* required; otherwise the user is asked.
confirm ==
    /\ step = "confirm"
    /\ op.name \notin {"sync_run", "sync_watch"}
    /\ \/ op.yes /\ step' = AskNext /\ consent' = TRUE /\ UNCHANGED res
       \/ ~op.yes /\ ~interactive /\ Ended("confirm") /\ UNCHANGED consent
       \/ ~op.yes /\ interactive /\ step' = "ask" /\ UNCHANGED <<res, consent>>
    /\ UNCHANGED <<same, files, jobs, link, at>>

\* confirm_interruptible: the same, but the prompt of sync run and sync watch
\* is awaited instead of blocking the thread.
confirm_interruptible ==
    /\ step = "confirm"
    /\ op.name \in {"sync_run", "sync_watch"}
    /\ \/ op.yes /\ step' = AskNext /\ consent' = TRUE /\ UNCHANGED res
       \/ ~op.yes /\ ~interactive /\ Ended("confirm") /\ UNCHANGED consent
       \/ ~op.yes /\ interactive /\ step' = "ask_i" /\ UNCHANGED <<res, consent>>
    /\ UNCHANGED <<same, files, jobs, link, at>>

\* io::stdin() is one lock: run_batch holds it for as long as it reads lines,
\* so a prompt inside a batch waits for the lock its own loop holds.
StdinFree == mode # "batch"

\* The user answers the prompt (external); anything but y or yes is a no.
Answer ==
    /\ step \in {"ask", "ask_i"}
    /\ StdinFree
    /\ \/ step' = AskNext /\ consent' = TRUE /\ UNCHANGED res
       \/ Ended("confirm") /\ UNCHANGED consent
    /\ UNCHANGED <<same, files, jobs, link, at>>

(***************************************************************************)
(* execute_connected: device and file commands.                            *)
(***************************************************************************)

\* device info reads the session snapshot, device ping asks the phone.
DeviceQuery ==
    /\ step = "start" /\ op.name \in {"info", "ping"}
    /\ IF op.name = "info" THEN Snapshot("tail") ELSE Read("tail")
    /\ UNCHANGED <<same, files, jobs, at, consent>>

\* fs ls, count and exists answer; fs stat of nothing is an error.
FsQuery ==
    /\ step = "start" /\ op.name \in {"ls", "count", "stat", "exists"}
    /\ \/ Read("tail") /\ (step' = "tail" /\ op.name = "stat" => Exists(At(Arg(1))))
       \/ op.name = "stat" /\ link = "up" /\ ~Exists(At(Arg(1)))
            /\ Ended("remote") /\ UNCHANGED link
    /\ UNCHANGED <<same, files, jobs, at, consent>>

\* fs mkdir: create, then read the entry back for the output.
Mkdir ==
    /\ op.name = "mkdir"
    /\ \/ /\ step = "start"
          /\ \E o \in {"ok", "refused", "failed"}, did \in BOOLEAN :
                /\ Asked(o, did) /\ Then(o, "made")
                /\ did => Arg(1) \in DOMAIN rfs /\ ~Exists(At(Arg(1)))
                /\ rfs' = IF did THEN [rfs EXCEPT ![Arg(1)] = "dir"] ELSE rfs
       \/ /\ step = "made"
          /\ \/ Read("tail") /\ (step' = "tail" => Exists(At(Arg(1))))
             \/ link = "up" /\ ~Exists(At(Arg(1))) /\ Ended("remote") /\ UNCHANGED link
          /\ UNCHANGED rfs
    /\ UNCHANGED <<same, loc, clip, thumbs, jobs, at, consent>>

\* fs mv: one request, no confirmation.
Mv ==
    /\ step = "start" /\ op.name = "mv"
    /\ \E o \in {"ok", "refused", "failed"}, did \in BOOLEAN :
          /\ Asked(o, did) /\ Then(o, "tail")
          /\ did => Exists(At(Arg(1))) /\ ~Exists(At(Arg(2)))
          /\ rfs' = IF did THEN [rfs EXCEPT ![Arg(1)] = "none", ![Arg(2)] = At(Arg(1))]
                    ELSE rfs
    /\ UNCHANGED <<same, loc, clip, thumbs, jobs, at, consent>>

\* fs rm looks at every path first: one that is missing, or a directory
\* without --recursive, ends it before anything is asked or deleted.
RmLooks ==
    /\ step = "start" /\ op.name = "rm"
    /\ LET e == At(Arg(at))
           next == IF at = Len(op.args) THEN "confirm" ELSE "start"
       IN  \/ Read(next) /\ (step' = next => Exists(e) /\ (IsDir(e) => op.recursive))
           \/ link = "up" /\ ~Exists(e) /\ Ended("remote") /\ UNCHANGED link
           \/ link = "up" /\ IsDir(e) /\ ~op.recursive /\ Ended("usage") /\ UNCHANGED link
    /\ at' = at + 1
    /\ UNCHANGED <<same, files, jobs, consent>>

\* ... and then deletes all of them with one request, whose answer reports
\* an entry that was not deleted as an error.
RmDeletes ==
    /\ step = "act" /\ op.name = "rm"
    /\ \E o \in {"ok", "refused", "failed"}, gone \in SUBSET (1 .. Len(op.args)) :
          /\ Asked(o, o = "ok") /\ Then(o, "tail")
          /\ o = "ok" => gone = 1 .. Len(op.args)
          /\ gone # {} => link = "up"
          /\ rfs' = [p \in DOMAIN rfs |->
                       IF \E i \in gone : IsPrefix(Arg(i), p) THEN "none" ELSE rfs[p]]
    /\ UNCHANGED <<same, loc, clip, thumbs, jobs, at, consent>>

(***************************************************************************)
(* fs pull.  The destination is the local directory, whose entries `loc'   *)
(* maps by name.                                                           *)
(***************************************************************************)

FP == INSTANCE FilePlan

\* The plan resolves what was typed against the device root.
Source(i) == FP!resolve_remote_path(op.args[i])
Found == {i \in 1 .. Len(op.args) : Exists(At(Source(i)))}
Local(i) == loc[Last(Source(i))]

NeedsRecursive(i) == IsDir(At(Source(i))) /\ ~op.recursive
Mismatch(i) == Exists(Local(i)) /\ IsDir(Local(i)) # IsDir(At(Source(i)))
Blocked == {i \in Found : NeedsRecursive(i) \/ Mismatch(i)}
Duplicate ==
    \E i, j \in Found : i < j /\ Last(Source(i)) = Last(Source(j))
Present == {i \in Found : Exists(Local(i)) /\ ~IsDir(Local(i))}

\* pull_target_misparsed: a second source that exists here is a forgotten --.
pull_target_misparsed ==
    /\ Len(op.args) > 1
    /\ LET raw == op.args[2]
       IN  ~raw.abs /\ Len(raw.parts) = 1 /\ Exists(loc[raw.parts[1]])

\* What follows the plan: the first conflict that cannot be overridden, a
\* dry run, existing targets with and without --overwrite, or the transfer.
AfterPlan(present, refusal) ==
    CASE op.dry -> step' = "dry" /\ UNCHANGED res
      [] ~op.dry /\ present > 0 /\ ~op.overwrite -> Ended(refusal)
      [] ~op.dry /\ present > 0 /\ op.overwrite -> step' = "confirm" /\ UNCHANGED res
      [] OTHER -> step' = "act" /\ UNCHANGED res

\* Preflight of a pull: usage errors first, then the plan and its conflicts
\* in the order the plan lists them.  A missing source is only remembered.
PullPlans ==
    /\ step = "start" /\ op.name = "pull"
    /\ \/ /\ \/ pull_target_misparsed
             \/ Len(op.args) = 1 /\ ~op.recursive /\ op.args[1].parts = <<>>
          /\ Ended("usage")
          /\ UNCHANGED <<link, existing>>
       \/ /\ ~pull_target_misparsed
          /\ Len(op.args) = 1 /\ ~op.recursive => op.args[1].parts # <<>>
          /\ \/ /\ Asked("failed", FALSE) /\ Ended("transport")
                /\ UNCHANGED <<existing>>
             \/ /\ Asked("ok", TRUE)
                /\ existing' = Cardinality(Present)
                /\ LET first == CHOOSE i \in Blocked : \A j \in Blocked : i <= j
                   IN  CASE Blocked # {} ->
                                Ended(IF NeedsRecursive(first) THEN "usage" ELSE "local")
                         [] Blocked = {} /\ Duplicate -> Ended("usage")
                         [] OTHER -> AfterPlan(Cardinality(Present), "local")
    /\ UNCHANGED <<mode, human, tty, op, cwd, trust, reply, files, jobs, at, consent>>

\* --dry-run of a pull or a push: count the trees and return at once.
DryRun ==
    /\ step = "dry"
    /\ LET trees == op.name = "pull" /\ \E i \in Found : IsDir(At(Source(i)))
       IN  \/ trees /\ \E o \in {"refused", "failed"} : Asked(o, FALSE) /\ Ended(app_error(o))
           \/ op.name = "push" /\ op.src = "dir" /\ Ended("local") /\ UNCHANGED link
           \/ (trees => link = "up") /\ Ended("ok") /\ UNCHANGED link
    /\ UNCHANGED <<same, files, jobs, at, consent>>

\* batch_download: an item that fails is a line of the report, not an error;
\* only a lost connection ends the call.  A file that exists is skipped
\* without --overwrite; a tree replaces the files it finds with it.
PullRuns ==
    /\ step = "act" /\ op.name = "pull"
    /\ \E o \in {"ok", "failed"}, got \in SUBSET Found :
          /\ Asked(o, o = "ok") /\ Then(o, "tail")
          /\ got # {} => link = "up"
          /\ \A i \in got : Exists(Local(i)) => op.overwrite
          /\ loc' = [n \in DOMAIN loc |->
                       IF \E i \in got : Last(Source(i)) = n THEN
                           IF Exists(loc[n]) THEN Replaced(loc[n])
                           ELSE At(Source(CHOOSE i \in got : Last(Source(i)) = n))
                       ELSE loc[n]]
    /\ UNCHANGED <<same, rfs, clip, thumbs, jobs, at, consent>>

(***************************************************************************)
(* fs push.  op.src says what the local source is, op.base its name.       *)
(***************************************************************************)

Target == IF IsDir(At(Arg(1))) THEN Append(Arg(1), op.base) ELSE Arg(1)

PushPlans ==
    /\ step = "start" /\ op.name = "push"
    /\ \/ Asked("failed", FALSE) /\ Ended("transport") /\ UNCHANGED existing
       \/ /\ Asked("ok", TRUE)
          /\ LET e == At(Target)
                 clash == op.src # "none" /\ Exists(e) /\ (IsDir(e) # (op.src = "dir"))
                 present == IF op.src = "file" /\ Exists(e) /\ ~IsDir(e) THEN 1 ELSE 0
             IN  /\ existing' = present
                 /\ CASE op.src = "dir" /\ ~op.recursive -> Ended("usage")
                      [] ~(op.src = "dir" /\ ~op.recursive) /\ clash -> Ended("remote")
                      [] OTHER -> AfterPlan(present, "remote")
    /\ UNCHANGED <<mode, human, tty, op, cwd, trust, reply, files, jobs, at, consent>>

\* batch_upload: a file goes to its planned target, a tree is mirrored into
\* the directory that was named.
PushRuns ==
    /\ step = "act" /\ op.name = "push"
    /\ LET dst == IF op.src = "dir" THEN Arg(1) ELSE Target
       IN  \E o \in {"ok", "failed"}, done \in BOOLEAN :
             /\ Asked(o, o = "ok") /\ Then(o, "tail")
             /\ done => link = "up" /\ op.src # "none" /\ dst \in DOMAIN rfs
                          /\ (Exists(At(dst)) => op.overwrite)
             /\ rfs' = IF ~done THEN rfs
                       ELSE [rfs EXCEPT ![dst] = IF Exists(@) THEN Replaced(@) ELSE op.src]
    /\ UNCHANGED <<same, loc, clip, thumbs, jobs, at, consent>>

(***************************************************************************)
(* Clipboard and media.                                                    *)
(***************************************************************************)

\* clipboard get and set; set --stdin has no stdin to read inside a shell.
ClipboardGetSet ==
    /\ step = "start" /\ op.name \in {"clip_get", "clip_set"}
    /\ \/ op.name = "clip_set" /\ op.stdin /\ mode # "one" /\ Ended("usage")
            /\ UNCHANGED <<link, clip>>
       \/ /\ op.name = "clip_set" => ~(op.stdin /\ mode # "one")
          /\ \E o \in {"ok", "refused", "failed"}, did \in BOOLEAN :
                /\ Asked(o, did) /\ Then(o, "tail")
                /\ clip' = IF did /\ op.name = "clip_set" THEN clip \cup {op.stamp} ELSE clip
    /\ UNCHANGED <<same, rfs, loc, thumbs, jobs, at, consent>>

\* clipboard delete and clear ask before their only request.
ClipboardRemove ==
    /\ op.name \in {"clip_delete", "clip_clear"}
    /\ \/ step = "start" /\ step' = "confirm" /\ UNCHANGED <<res, link, clip>>
       \/ /\ step = "act"
          /\ \E o \in {"ok", "refused", "failed"}, did \in BOOLEAN :
                /\ Asked(o, did) /\ Then(o, "tail")
                /\ clip' = CASE ~did -> clip
                             [] did /\ op.name = "clip_clear" -> {}
                             [] OTHER -> clip \ {op.stamp}
    /\ UNCHANGED <<same, rfs, loc, thumbs, jobs, at, consent>>

\* media photo, video and audio print a preview and return.
MediaPreview ==
    /\ step = "start" /\ op.name = "media"
    /\ \/ link = "up" /\ Ended("ok") /\ UNCHANGED link
       \/ \E o \in {"refused", "failed"} : Asked(o, FALSE) /\ Ended(app_error(o))
    /\ UNCHANGED <<same, files, jobs, at, consent>>

\* media thumbnail: the directory, then one request for all targets.
ThumbnailsAsked ==
    /\ step = "start" /\ op.name = "thumbs"
    /\ \/ Ended("local") /\ UNCHANGED <<link, reply>>
       \/ Asked("ok", TRUE) /\ step' = "write" /\ reply' \in Replies /\ UNCHANGED res
       \/ \E o \in {"refused", "failed"} :
             Asked(o, FALSE) /\ Ended(app_error(o)) /\ UNCHANGED reply
    /\ UNCHANGED <<mode, human, tty, op, cwd, trust, existing, files, jobs, at, consent>>

\* The first answer that echoes the target.
Match(target) ==
    LET hits == {i \in 1 .. Len(reply) : reply[i].id = target}
    IN  {i \in hits : \A j \in hits : i <= j}

\* One target: no answer, an error mark or no bytes is a failed line of the
\* report; a write that fails ends the command.
ThumbnailWritten ==
    /\ step = "write" /\ op.name = "thumbs"
    /\ IF at > Len(op.targets) THEN Ended("ok") /\ UNCHANGED <<at, thumbs>>
       ELSE LET target == op.targets[at]
                usable == {i \in Match(target) : ~reply[i].err /\ reply[i].data}
            IN  \/ usable = {} /\ at' = at + 1 /\ UNCHANGED <<step, res, thumbs>>
                \/ usable # {} /\ Ended("local") /\ UNCHANGED <<at, thumbs>>
                \/ /\ usable # {}
                   /\ thumbs' = thumbs \cup {<<target, reply[i].id>> : i \in usable}
                   /\ at' = at + 1
                   /\ UNCHANGED <<step, res>>
    /\ UNCHANGED <<same, rfs, loc, clip, link, jobs, consent>>

(***************************************************************************)
(* sync_command.                                                           *)
(***************************************************************************)

SyncNames == {"sync_status", "sync_plan", "sync_run", "sync_watch"}

\* Every sync command needs a snapshot with a usable phone id; one inside a
\* shell may lack --output-dir, and sync watch is refused there.
SyncBegins ==
    /\ step = "start" /\ op.name \in SyncNames
    /\ \/ op.name = "sync_watch" /\ mode # "one" /\ Ended("usage") /\ UNCHANGED link
       \/ /\ ~(op.name = "sync_watch" /\ mode # "one")
          /\ \/ Snapshot("sync")
             \/ Ended("protocol") /\ UNCHANGED link
    /\ UNCHANGED <<same, files, jobs, at, consent>>

SyncSteps ==
    /\ step = "sync"
    /\ \/ op.name # "sync_status" /\ ~op.output_dir /\ Ended("usage") /\ UNCHANGED link
       \/ /\ op.name = "sync_status" \/ op.output_dir
          /\ \/ op.name \in {"sync_run", "sync_watch"} /\ step' = "confirm" /\ UNCHANGED <<res, link>>
             \/ op.name = "sync_status" /\ (Ended("ok") \/ Ended("transport")) /\ UNCHANGED link
             \/ op.name = "sync_plan" /\ link = "up" /\ Ended("ok") /\ UNCHANGED link
             \/ op.name = "sync_plan"
                  /\ \E o \in {"refused", "failed"} : Asked(o, FALSE) /\ Ended(app_error(o))
    /\ UNCHANGED <<same, files, jobs, at, consent>>

\* start_sync: refused while the profile still has a run or a watch.
SyncStarted ==
    /\ step = "startsync"
    /\ \/ job # "running" /\ ~watching /\ link = "up" /\ job' = "running"
            /\ step' = "poll" /\ UNCHANGED <<res, link>>
       \/ (job = "running" \/ watching) /\ Ended("usage") /\ UNCHANGED <<link, job>>
       \/ Asked("failed", FALSE) /\ Ended("transport") /\ UNCHANGED job
    /\ UNCHANGED <<same, files, watching, at, consent>>

\* Mutant of wait_sync_run: only a run with a result counts as over.
wait_sync_run_needs_result ==
    /\ \/ step = "poll" /\ job # "done" /\ step' = "sleep" /\ UNCHANGED res
       \/ step = "poll" /\ job = "done" /\ UNCHANGED res
            /\ step' = (IF op.name = "sync_run" THEN "result" ELSE "startwatch")
       \/ step = "sleep" /\ step' = "poll" /\ UNCHANGED res
    /\ UNCHANGED <<same, files, jobs, link, at, consent>>

\* wait_sync_run: look at the job, sleep 200 ms while it runs.
wait_sync_run ==
    /\ \/ step = "poll" /\ job = "running" /\ step' = "sleep" /\ UNCHANGED res
       \/ step = "poll" /\ job = "done" /\ UNCHANGED res
            /\ step' = (IF op.name = "sync_run" THEN "result" ELSE "startwatch")
       \/ step = "poll" /\ job \in {"failed", "none"} /\ Ended("transport")
       \/ step = "sleep" /\ step' = "poll" /\ UNCHANGED res
    /\ UNCHANGED <<same, files, jobs, link, at, consent>>

\* last_sync_result of a run that finished without an error: it has one.
SyncResult ==
    /\ step = "result"
    /\ Ended("ok")
    /\ UNCHANGED <<same, files, jobs, link, at, consent>>

\* start_sync_watch, then the subscription to the events it publishes.
SyncWatchStarted ==
    /\ step = "startwatch"
    /\ \/ Asked("ok", TRUE) /\ job = "done" /\ watching' = TRUE /\ step' = "events" /\ UNCHANGED res
       \/ \E o \in {"refused", "failed"} :
             Asked(o, FALSE) /\ Ended(app_error(o)) /\ UNCHANGED watching
    /\ UNCHANGED <<same, files, job, at, consent>>

\* The run itself (external): it ends, and it cannot outlive its session; a
\* watch stops when the session is lost.
JobSteps ==
    /\ \/ job = "running" /\ job' \in (IF link = "up" THEN {"done", "failed"} ELSE {"failed"})
            /\ UNCHANGED watching
       \/ watching /\ link # "up" /\ watching' = FALSE /\ UNCHANGED job
    /\ UNCHANGED <<same, files, link, at, consent, step, res>>

(***************************************************************************)
(* Commands that need no session, and those that may not be nested.        *)
(***************************************************************************)

\* shell, batch and watch have no place inside a session.
Nested ==
    /\ step = "start" /\ op.name \in {"shell", "batch", "watch"}
    /\ Ended("usage")
    /\ UNCHANGED <<same, files, jobs, link, at, consent>>

\* device list and device discover: a runtime of their own, or none.
DeviceList ==
    /\ step = "start"
    /\ op.name = "list" \/ (op.name = "discover" /\ mode = "one")
    /\ \/ Ended("ok")
       \/ Ended(IF op.name = "list" THEN "local" ELSE "transport")
    /\ UNCHANGED <<same, files, jobs, link, at, consent>>

TrustNames == {"trust_list", "trust_remove", "trust_reset"}

\* trust list reads the store; trust reset needs --wifi before it asks.
TrustBegins ==
    /\ step = "start" /\ op.name \in TrustNames /\ mode = "one"
    /\ \/ op.name = "trust_list" /\ Ended("ok")
       \/ op.name = "trust_list" /\ Ended("local")
       \/ op.name = "trust_reset" /\ ~op.wifi /\ Ended("usage")
       \/ (op.name = "trust_remove" \/ (op.name = "trust_reset" /\ op.wifi))
            /\ step' = "confirm" /\ UNCHANGED res
    /\ UNCHANGED <<same, files, jobs, link, at, consent>>

\* trust remove deletes the local record; none to delete is an error.
trust_remove ==
    /\ step = "act" /\ op.name = "trust_remove"
    /\ \/ "host" \in trust /\ trust' = trust \ {"host"} /\ Ended("ok")
       \/ "host" \notin trust /\ Ended("configuration") /\ UNCHANGED trust
       \/ Ended("local") /\ UNCHANGED trust
    /\ UNCHANGED <<mode, human, tty, op, cwd, existing, reply>>
    /\ UNCHANGED <<files, jobs, link, at, consent>>

\* trust reset asks the phone to forget this computer; the record here stays.
trust_reset ==
    /\ step = "act" /\ op.name = "trust_reset"
    /\ \E r \in {"ok", "transport", "handshake"} :
          /\ trust' \in (IF r = "ok" THEN {trust \ {"phone"}} ELSE {trust, trust \ {"phone"}})
          /\ Ended(r)
    /\ UNCHANGED <<mode, human, tty, op, cwd, existing, reply>>
    /\ UNCHANGED <<files, jobs, link, at, consent>>

\* The device summary of the output, from the registry.
Summary ==
    /\ step = "tail"
    /\ Ended("ok")
    /\ UNCHANGED <<same, files, jobs, link, at, consent>>

CommandStep ==
    \/ confirm \/ confirm_interruptible \/ DeviceQuery \/ FsQuery \/ Mkdir \/ Mv
    \/ RmLooks \/ RmDeletes \/ PullPlans \/ DryRun \/ PullRuns \/ PushPlans \/ PushRuns
    \/ ClipboardGetSet \/ ClipboardRemove \/ MediaPreview \/ ThumbnailsAsked
    \/ ThumbnailWritten \/ SyncBegins \/ SyncSteps \/ SyncStarted \/ wait_sync_run
    \/ SyncResult \/ SyncWatchStarted \/ Nested \/ DeviceList
    \/ TrustBegins \/ trust_remove \/ trust_reset \/ Summary
=============================================================================
