------------------------------ MODULE SyncJobs ------------------------------
(***************************************************************************)
(* The registry of photo-sync jobs of HandShakerRuntime                    *)
(* (handshaker-application, runtime.rs and sync.rs): start_sync,           *)
(* start_sync_watch, stop_sync, stop_sync_watch and shutdown racing with   *)
(* each other and with the run and watch tasks they spawn.  What a run or  *)
(* a watch does to files and ledger is module PhotoSync; here a task is at *)
(* work or it is not.                                                      *)
(*                                                                         *)
(* Each start_sync call creates at most one job object, so a job is        *)
(* identified with the call; likewise a watch task with its                *)
(* start_sync_watch call.                                                  *)
(***************************************************************************)
EXTENDS Naturals, FiniteSets

CONSTANTS
    Jobs,       \* start_sync calls
    Watches,    \* start_sync_watch calls
    Stops,      \* stop_sync calls
    Unwatches,  \* stop_sync_watch calls
    Profiles,
    ProfileOf,  \* the profile each start_sync call passes
    LedgerOf,   \* the ledger file a profile resolves to (sync_identity_for)
    FormatOf,   \* the facts validate_sync_profile_format tests
    Disabled,   \* profiles with enabled = false
    None

ASSUME SyncJobsAssumption ==
    /\ ProfileOf \in [Jobs -> Profiles]
    /\ Disabled \subseteq Profiles
    /\ None \notin Jobs \cup Watches
    /\ Watches \cap {"Reserved", "Finished", "Taken"} = {}
    /\ Stops \cap Unwatches = {} /\ Jobs \cap Watches = {}

VARIABLES
    sync_jobs,  \* RuntimeInner.sync_jobs
    status,     \* SyncStatusDto of each job
    cancel,     \* jobs whose token is cancelled
    launch,     \* where the start_sync call is
    run,        \* the run task of a job
    slot,       \* SyncJob.task
    wslot,      \* SyncJob.watch_task; a watch stands for its JoinHandle
    call,       \* where a start_sync_watch call is, and its job
    watch,      \* the watch task
    stop,       \* where a stop_sync or stop_sync_watch call is, and its job
    shutdown,   \* where shutdown() is
    todo, held, \* jobs shutdown has yet to visit, handles it has yet to join
    visiting,   \* the job whose watch it takes next
    up          \* the session is registered and its event stream open

calls == <<launch, call, stop>>
slots == <<slot, wslot>>
tasks == <<run, watch>>
closing == <<shutdown, todo, held, visiting>>
vars == <<sync_jobs, status, cancel, slots, calls, tasks, closing, up>>

shutting_down == shutdown # "open"

Fresh == [running |-> FALSE, monitoring |-> FALSE, reconciliation_required |-> FALSE]

Init ==
    /\ sync_jobs = [p \in Profiles |-> None]
    /\ status = [j \in Jobs |-> Fresh]
    /\ cancel = {}
    /\ launch = [j \in Jobs |-> "new"]
    /\ run = [j \in Jobs |-> "none"]
    /\ slot = [j \in Jobs |-> "Reserved"]
    /\ wslot = [j \in Jobs |-> "Reserved"]
    /\ call = [w \in Watches |-> [pc |-> "new", job |-> None]]
    /\ watch = [w \in Watches |-> "none"]
    /\ stop = [c \in Stops \cup Unwatches |-> [pc |-> "new", job |-> None]]
    /\ shutdown = "open"
    /\ todo = {}
    /\ held = {}
    /\ visiting = None
    /\ up = TRUE

Registered(j) == sync_jobs[ProfileOf[j]] = j
HoldsLedger(l) ==
    \/ \E j \in Jobs : /\ LedgerOf[ProfileOf[j]] = l
                       /\ run[j] \in {"working", "ending"}
    \/ \E w \in Watches : /\ watch[w] \in {"watching", "failing", "ended"}
                          /\ LedgerOf[ProfileOf[call[w].job]] = l

-----------------------------------------------------------------------------
(***************************************************************************)
(* start_sync: ensure_open and format; registration under the registry     *)
(* lock; spawn and publish the gated task; open the gate.                  *)
(***************************************************************************)
validate_sync_profile_format(f) ==
    /\ f.id_len \in 1..128 /\ f.device_uuid_len \in 1..128
    /\ ~f.control_characters
    /\ f.device_uuid_charset_ok
    /\ f.local_root_absolute /\ f.remote_root_absolute

StartSync(j) ==
    /\ launch[j] = "new"
    /\ launch' = [launch EXCEPT ![j] =
                    IF ~shutting_down /\ validate_sync_profile_format(FormatOf[ProfileOf[j]])
                    THEN "checked" ELSE "refused"]
    /\ UNCHANGED <<sync_jobs, status, cancel, slots, call, stop, tasks, closing, up>>

admits(j) ==
    LET existing == sync_jobs[ProfileOf[j]]
    IN  /\ ~shutting_down
        /\ existing # None => ~status[existing].running /\ ~status[existing].monitoring

register_sync_job(j) ==
    /\ launch[j] = "checked"
    /\ IF admits(j)
       THEN /\ launch' = [launch EXCEPT ![j] = "registered"]
            /\ sync_jobs' = [sync_jobs EXCEPT ![ProfileOf[j]] = j]
            /\ status' = [status EXCEPT ![j].running = TRUE]
       ELSE /\ launch' = [launch EXCEPT ![j] = "refused"]
            /\ UNCHANGED <<sync_jobs, status>>
    /\ UNCHANGED <<cancel, slots, call, stop, tasks, closing, up>>

PublishRun(j) ==
    /\ launch[j] = "registered"
    /\ launch' = [launch EXCEPT ![j] = "published"]
    /\ run' = [run EXCEPT ![j] = "gated"]
    /\ slot' = [slot EXCEPT ![j] = "Published"]
    /\ UNCHANGED <<sync_jobs, status, cancel, wslot, call, stop, watch, closing, up>>

ReleaseRun(j) ==
    /\ launch[j] = "published"
    /\ launch' = [launch EXCEPT ![j] = "returned"]
    /\ run' = [run EXCEPT ![j] = IF @ = "gated" THEN "lock" ELSE @]
    /\ UNCHANGED <<sync_jobs, status, cancel, slots, call, stop, watch, closing, up>>

-----------------------------------------------------------------------------
(***************************************************************************)
(* run_sync_job: ledger lock, token check, work, status, slot.             *)
(***************************************************************************)
\* Mutant of RunStarts: run_sync_once does not look at the token first.
RunStartsUnchecked(j) ==
    /\ run[j] = "lock"
    /\ ~HoldsLedger(LedgerOf[ProfileOf[j]])
    /\ run' = [run EXCEPT ![j] = "working"]
    /\ UNCHANGED <<sync_jobs, status, cancel, slots, calls, watch, closing, up>>

RunStarts(j) ==
    /\ run[j] = "lock"
    /\ ~HoldsLedger(LedgerOf[ProfileOf[j]])
    /\ IF j \in cancel
       THEN /\ run' = [run EXCEPT ![j] = "ending"]
            /\ status' = [status EXCEPT ![j].running = FALSE]
       ELSE /\ run' = [run EXCEPT ![j] = "working"]
            /\ UNCHANGED status
    /\ UNCHANGED <<sync_jobs, cancel, slots, calls, watch, closing, up>>

\* The run committed its ledger.
RunSucceeds(j) ==
    /\ run[j] = "working" /\ up
    /\ run' = [run EXCEPT ![j] = "ending"]
    /\ status' = [status EXCEPT ![j].running = FALSE, ![j].reconciliation_required = FALSE]
    /\ UNCHANGED <<sync_jobs, cancel, slots, calls, watch, closing, up>>

\* Session, phone, ledger or commit error, or the token seen by the request.
RunFails(j) ==
    /\ run[j] = "working"
    /\ run' = [run EXCEPT ![j] = "ending"]
    /\ status' = [status EXCEPT ![j].running = FALSE]
    /\ UNCHANGED <<sync_jobs, cancel, slots, calls, watch, closing, up>>

RunPanics(j) ==
    /\ run[j] = "working"
    /\ run' = [run EXCEPT ![j] = "panicked"]
    /\ UNCHANGED <<sync_jobs, status, cancel, slots, calls, watch, closing, up>>

RunReturns(j) ==
    /\ run[j] = "ending"
    /\ run' = [run EXCEPT ![j] = "done"]
    /\ slot' = [slot EXCEPT ![j] = "Finished"]
    /\ UNCHANGED <<sync_jobs, status, cancel, wslot, calls, watch, closing, up>>

RunOver(j) == run[j] \in {"done", "panicked", "aborted"}

-----------------------------------------------------------------------------
(***************************************************************************)
(* start_sync_watch: lookup and reconciliation check, reservation under    *)
(* the registry lock, session, phone-side monitor, shutdown check, spawn.  *)
(***************************************************************************)
WatchLookup(w) ==
    /\ ~shutting_down
    /\ call[w].pc = "new"
    /\ \E p \in Profiles \ Disabled :
        /\ sync_jobs[p] # None
        /\ ~status[sync_jobs[p]].reconciliation_required
        /\ call' = [call EXCEPT ![w] = [pc |-> "checked", job |-> sync_jobs[p]]]
    /\ UNCHANGED <<sync_jobs, status, cancel, slots, launch, stop, tasks, closing, up>>

\* Mutant of may_watch: a running job may be watched.
may_watch_running(j) == Registered(j) /\ ~status[j].monitoring
may_watch(j) == Registered(j) /\ ~status[j].running /\ ~status[j].monitoring

reserve_sync_watch(w) ==
    LET j == call[w].job IN
    /\ call[w].pc = "checked"
    /\ IF may_watch(j)
       THEN /\ status' = [status EXCEPT ![j].monitoring = TRUE]
            /\ call' = [call EXCEPT ![w].pc = "reserved"]
       ELSE /\ call' = [call EXCEPT ![w].pc = "refused"]
            /\ UNCHANGED status
    /\ UNCHANGED <<sync_jobs, cancel, slots, launch, stop, tasks, closing, up>>

\* status after release_sync_watch
release_sync_watch(j) ==
    IF Registered(j) THEN [status EXCEPT ![j].monitoring = FALSE] ELSE status

\* session_handle: a session that is gone ends the call with the reservation kept.
WatchSession(w) ==
    /\ call[w].pc = "reserved"
    /\ call' = [call EXCEPT ![w].pc = IF up THEN "subscribed" ELSE "refused"]
    /\ UNCHANGED <<sync_jobs, status, cancel, slots, launch, stop, tasks, closing, up>>

\* Mutant of MonitorRefused: the reservation is kept.
MonitorRefusedKept(w) ==
    /\ call[w].pc = "subscribed"
    /\ call' = [call EXCEPT ![w].pc = "refused"]
    /\ UNCHANGED <<sync_jobs, status, cancel, slots, launch, stop, tasks, closing, up>>

MonitorRefused(w) ==
    /\ call[w].pc = "subscribed"
    /\ call' = [call EXCEPT ![w].pc = "refused"]
    /\ status' = release_sync_watch(call[w].job)
    /\ UNCHANGED <<sync_jobs, cancel, slots, launch, stop, tasks, closing, up>>

\* The phone accepted; from the shutdown check to the slot lock nothing awaits.
PublishWatch(w) ==
    LET j == call[w].job IN
    /\ call[w].pc = "subscribed" /\ up
    /\ IF shutting_down
       THEN /\ call' = [call EXCEPT ![w].pc = "refused"]
            /\ status' = release_sync_watch(j)
            /\ UNCHANGED <<watch, wslot>>
       ELSE /\ call' = [call EXCEPT ![w].pc = "published"]
            /\ watch' = [watch EXCEPT ![w] = "gated"]
            /\ wslot' = [wslot EXCEPT ![j] = w]
            /\ UNCHANGED status
    /\ UNCHANGED <<sync_jobs, cancel, slot, launch, stop, run, closing, up>>

ReleaseWatch(w) ==
    /\ call[w].pc = "published"
    /\ call' = [call EXCEPT ![w].pc = "returned"]
    /\ watch' = [watch EXCEPT ![w] = IF @ = "gated" THEN "lock" ELSE @]
    /\ UNCHANGED <<sync_jobs, status, cancel, slots, launch, stop, run, closing, up>>

-----------------------------------------------------------------------------
(***************************************************************************)
(* run_sync_watch.                                                         *)
(***************************************************************************)
WatchStarts(w) ==
    /\ watch[w] = "lock"
    /\ ~HoldsLedger(LedgerOf[ProfileOf[call[w].job]])
    /\ watch' = [watch EXCEPT ![w] = "watching"]
    /\ UNCHANGED <<sync_jobs, status, cancel, slots, calls, run, closing, up>>

\* report_sync_watch_lag or reconcile_required_from_error, before its await.
WatchFails(w) ==
    LET j == call[w].job IN
    /\ watch[w] = "watching"
    /\ watch' = [watch EXCEPT ![w] = "failing"]
    /\ status' = [status EXCEPT ![j].reconciliation_required = TRUE, ![j].monitoring = FALSE]
    /\ UNCHANGED <<sync_jobs, cancel, slots, calls, run, closing, up>>

\* After the loop, by a failure or because the event stream closed.
WatchExits(w) ==
    LET j == call[w].job IN
    /\ watch[w] = "failing" \/ (watch[w] = "watching" /\ ~up)
    /\ watch' = [watch EXCEPT ![w] = "ended"]
    /\ status' = IF status[j].reconciliation_required THEN status
                 ELSE [status EXCEPT ![j].monitoring = FALSE]
    /\ UNCHANGED <<sync_jobs, cancel, slots, calls, run, closing, up>>

WatchReturns(w) ==
    /\ watch[w] = "ended"
    /\ watch' = [watch EXCEPT ![w] = "done"]
    /\ wslot' = [wslot EXCEPT ![call[w].job] = "Finished"]
    /\ UNCHANGED <<sync_jobs, status, cancel, slot, calls, run, closing, up>>

SessionEnds ==
    /\ up
    /\ up' = FALSE
    /\ UNCHANGED <<sync_jobs, status, cancel, slots, calls, tasks, closing>>

-----------------------------------------------------------------------------
(***************************************************************************)
(* take_published_task leaves Taken whatever it found, at once or, for a   *)
(* Reserved slot, after its two seconds; only a Published one yields a     *)
(* handle.  abort + await ends a task at its next await.                   *)
(***************************************************************************)
Alive(w) == watch[w] \notin {"none", "done", "aborted"}
AbortWatch(h) ==
    watch' = [w \in Watches |-> IF w = h /\ Alive(w) THEN "aborted" ELSE watch[w]]

StopBegins(c, p) ==
    LET j == sync_jobs[p] IN
    /\ ~shutting_down
    /\ stop[c].pc = "new"
    /\ j # None
    /\ stop' = [stop EXCEPT ![c] = [pc |-> IF c \in Stops THEN "take" ELSE "wtake", job |-> j]]
    /\ cancel' = IF c \in Stops THEN cancel \cup {j} ELSE cancel
    /\ UNCHANGED <<sync_jobs, status, slots, launch, call, tasks, closing, up>>

StopTakesRun(c) ==
    LET j == stop[c].job IN
    /\ stop[c].pc = "take"
    /\ slot' = [slot EXCEPT ![j] = "Taken"]
    /\ stop' = [stop EXCEPT ![c].pc = IF slot[j] = "Published" THEN "join" ELSE "wtake"]
    /\ UNCHANGED <<sync_jobs, status, cancel, wslot, launch, call, tasks, closing, up>>

StopJoins(c) ==
    LET j == stop[c].job IN
    /\ stop[c].pc = "join" /\ RunOver(j)
    /\ stop' = [stop EXCEPT ![c].pc = "wtake"]
    /\ status' = [status EXCEPT ![j].running = IF run[j] = "panicked" THEN FALSE ELSE @]
    /\ UNCHANGED <<sync_jobs, cancel, slots, launch, call, tasks, closing, up>>

\* Mutant of StopAborts: the join has no deadline.
StopAbortsNever(c) == FALSE /\ UNCHANGED vars

\* SYNC_STOP_DEADLINE passed
StopAborts(c) ==
    LET j == stop[c].job IN
    /\ stop[c].pc = "join" /\ ~RunOver(j)
    /\ run' = [run EXCEPT ![j] = "aborted"]
    /\ stop' = [stop EXCEPT ![c].pc = "wtake"]
    /\ UNCHANGED <<sync_jobs, status, cancel, slots, launch, call, watch, closing, up>>

StopTakesWatch(c) ==
    LET j == stop[c].job IN
    /\ stop[c].pc = "wtake"
    /\ wslot' = [wslot EXCEPT ![j] = "Taken"]
    /\ AbortWatch(wslot[j])
    /\ stop' = [stop EXCEPT ![c].pc = IF c \in Stops THEN "remove" ELSE "clear"]
    /\ UNCHANGED <<sync_jobs, status, cancel, slot, launch, call, run, closing, up>>

remove_sync_job_if_current(c) ==
    /\ stop[c].pc = "remove"
    /\ sync_jobs' = [p \in Profiles |-> IF sync_jobs[p] = stop[c].job THEN None ELSE sync_jobs[p]]
    /\ stop' = [stop EXCEPT ![c].pc = "returned"]
    /\ UNCHANGED <<status, cancel, slots, launch, call, tasks, closing, up>>

\* stop_sync_watch clears the flag; its monitor-off request may fail.
StopClears(c) ==
    /\ stop[c].pc = "clear"
    /\ status' = [status EXCEPT ![stop[c].job].monitoring = FALSE]
    /\ stop' = [stop EXCEPT ![c].pc = "returned"]
    /\ UNCHANGED <<sync_jobs, cancel, slots, launch, call, tasks, closing, up>>

-----------------------------------------------------------------------------
(***************************************************************************)
(* shutdown: flag, snapshot of the jobs, then job by job cancel and take   *)
(* both handles, join or abort them all, clear the registry.               *)
(***************************************************************************)
ShutdownFlag ==
    /\ shutdown = "open"
    /\ shutdown' = "flag"
    /\ UNCHANGED <<sync_jobs, status, cancel, slots, calls, tasks, todo, held, visiting, up>>

ShutdownLists ==
    /\ shutdown = "flag"
    /\ shutdown' = "take"
    /\ todo' = {j \in Jobs : Registered(j)}
    /\ UNCHANGED <<sync_jobs, status, cancel, slots, calls, tasks, held, visiting, up>>

ShutdownTakesRun(j) ==
    /\ shutdown = "take" /\ visiting = None /\ j \in todo
    /\ visiting' = j
    /\ cancel' = cancel \cup {j}
    /\ slot' = [slot EXCEPT ![j] = "Taken"]
    /\ held' = IF slot[j] = "Published" THEN held \cup {j} ELSE held
    /\ UNCHANGED <<sync_jobs, status, wslot, calls, tasks, shutdown, todo, up>>

ShutdownTakesWatch(j) ==
    /\ shutdown = "take" /\ visiting = j
    /\ visiting' = None
    /\ todo' = todo \ {j}
    /\ wslot' = [wslot EXCEPT ![j] = "Taken"]
    /\ held' = held \cup ({wslot[j]} \cap Watches)
    /\ UNCHANGED <<sync_jobs, status, cancel, slot, calls, tasks, shutdown, up>>

\* One handle joined, or aborted after the deadline.
ShutdownJoins(h) ==
    /\ shutdown = "take" /\ todo = {} /\ h \in held
    /\ held' = held \ {h}
    /\ run' = [j \in Jobs |-> IF j = h /\ ~RunOver(j) THEN "aborted" ELSE run[j]]
    /\ AbortWatch(h)
    /\ UNCHANGED <<sync_jobs, status, cancel, slots, calls, shutdown, todo, visiting, up>>

ShutdownClears ==
    /\ shutdown = "take" /\ todo = {} /\ held = {}
    /\ shutdown' = "done"
    /\ sync_jobs' = [p \in Profiles |-> None]
    /\ UNCHANGED <<status, cancel, slots, calls, tasks, todo, held, visiting, up>>

-----------------------------------------------------------------------------
JobStep(j) ==
    \/ StartSync(j) \/ register_sync_job(j) \/ PublishRun(j) \/ ReleaseRun(j)
    \/ RunStarts(j) \/ RunSucceeds(j) \/ RunFails(j) \/ RunPanics(j) \/ RunReturns(j)

WatchStep(w) ==
    \/ WatchLookup(w) \/ reserve_sync_watch(w) \/ WatchSession(w) \/ MonitorRefused(w)
    \/ PublishWatch(w) \/ ReleaseWatch(w)
    \/ WatchStarts(w) \/ WatchFails(w) \/ WatchExits(w) \/ WatchReturns(w)

StopStep(c) ==
    \/ StopTakesRun(c) \/ StopJoins(c) \/ StopAborts(c) \/ StopTakesWatch(c)
    \/ remove_sync_job_if_current(c) \/ StopClears(c)

ShutdownStep ==
    \/ ShutdownLists \/ ShutdownClears
    \/ \E j \in Jobs : ShutdownTakesRun(j) \/ ShutdownTakesWatch(j)
    \/ \E h \in Jobs \cup Watches : ShutdownJoins(h)

Next ==
    \/ \E j \in Jobs : JobStep(j)
    \/ \E w \in Watches : WatchStep(w)
    \/ \E c \in Stops \cup Unwatches : StopStep(c) \/ (\E p \in Profiles : StopBegins(c, p))
    \/ SessionEnds \/ ShutdownFlag \/ ShutdownStep

(***************************************************************************)
(* The code inside a stop or shutdown call is bounded by its deadlines, so *)
(* it moves on; nothing is assumed of phone, run or watch.                 *)
(***************************************************************************)
Fairness ==
    /\ \A c \in Stops \cup Unwatches : WF_vars(StopStep(c))
    /\ WF_vars(ShutdownStep)

Spec == Init /\ [][Next]_vars /\ Fairness

-----------------------------------------------------------------------------
TypeOK ==
    /\ sync_jobs \in [Profiles -> Jobs \cup {None}]
    /\ status \in [Jobs -> [running : BOOLEAN, monitoring : BOOLEAN,
                            reconciliation_required : BOOLEAN]]
    /\ cancel \subseteq Jobs
    /\ launch \in [Jobs -> {"new", "checked", "refused", "registered", "published", "returned"}]
    /\ run \in [Jobs -> {"none", "gated", "lock", "working", "ending", "done", "panicked",
                         "aborted"}]
    /\ slot \in [Jobs -> {"Reserved", "Published", "Finished", "Taken"}]
    /\ wslot \in [Jobs -> {"Reserved", "Finished", "Taken"} \cup Watches]
    /\ call \in [Watches -> [pc : {"new", "checked", "refused", "reserved", "subscribed",
                                   "published", "returned"}, job : Jobs \cup {None}]]
    /\ \A w \in Watches : call[w].pc # "new" => call[w].job \in Jobs
    /\ watch \in [Watches -> {"none", "gated", "lock", "watching", "failing", "ended", "done",
                              "aborted"}]
    /\ stop \in [Stops \cup Unwatches ->
                    [pc : {"new", "take", "join", "wtake", "remove", "clear", "returned"},
                     job : Jobs \cup {None}]]
    /\ \A c \in Stops \cup Unwatches : stop[c].pc # "new" => stop[c].job \in Jobs
    /\ shutdown \in {"open", "flag", "take", "done"}
    /\ todo \subseteq Jobs /\ visiting \in Jobs \cup {None}
    /\ held \subseteq Jobs \cup Watches
    /\ up \in BOOLEAN

\* "The run task and the watch task are mutually exclusive on the same job"
\* (sync.rs, SyncJob): no watch is at work for a job whose run still is.
RunXorWatch ==
    \A w \in Watches :
        Alive(w) => run[call[w].job] \notin {"gated", "lock", "working"}

Joining(j) == {c \in Stops : stop[c] = [pc |-> "join", job |-> j]}

\* A stop_sync that returned leaves no run of its job at work, whenever the
\* handle was published, unless a concurrent stop or shutdown owns the handle.
StopMeansStopped ==
    \A c \in Stops :
        /\ stop[c].pc = "returned"
        /\ run[stop[c].job] = "working"
        => Joining(stop[c].job) # {} \/ stop[c].job \in held

\* After shutdown no run is at work, but for one a stop_sync is joining.
ShutdownMeansStopped ==
    shutdown = "done" => \A j \in Jobs : run[j] = "working" => Joining(j) # {}

\* With all values of their types: neither a stop_sync nor a shutdown that
\* returned leaves a run at work behind its back (TaskPublication).
NoRunOutlivesStop == TypeOK /\ StopMeansStopped /\ ShutdownMeansStopped

\* A stop_sync call returns, even when the run ignores its token.
StopReturns == \A c \in Stops : stop[c].pc = "take" ~> stop[c].pc = "returned"

\* release_sync_watch rolls "the watch reservation back after a failed
\* activation": while the session lives, a profile that counts as watched has a
\* watch, one being activated, or a stop at work on it.
WatchedMeansWatching ==
    \A j \in Jobs :
        Registered(j) /\ status[j].monitoring /\ up /\ shutdown = "open"
            => \/ \E w \in Watches : /\ call[w].job = j
                                     /\ Alive(w) \/ call[w].pc \in {"reserved", "subscribed"}
               \/ \E c \in Stops \cup Unwatches : stop[c].job = j /\ stop[c].pc # "returned"

-----------------------------------------------------------------------------
(***************************************************************************)
(* The inductive invariant behind RunXorWatch, NoRunOutlivesStop and       *)
(* WatchedMeansWatching (SyncJobsProofs), part by part.                    *)
(***************************************************************************)
Unlaunched == {"new", "checked", "refused"}
Active(j) == launch[j] = "registered" \/ run[j] \in {"gated", "lock", "working"}

\* A registered or watched job was created by its start_sync call.
RegistryInv ==
    /\ \A p \in Profiles : sync_jobs[p] # None =>
          ProfileOf[sync_jobs[p]] = p /\ launch[sync_jobs[p]] \notin Unlaunched
    /\ \A w \in Watches : call[w].pc # "new" => launch[call[w].job] \notin Unlaunched

\* Every run passes its gate once and counts as running before and while it works.
RunOK(j) ==
    /\ run[j] = "none" <=> launch[j] \in Unlaunched \cup {"registered"}
    /\ run[j] = "gated" => launch[j] = "published"
    /\ Active(j) => status[j].running
    /\ launch[j] \in Unlaunched => ~status[j].monitoring

\* A watch is reserved for a job whose run is past, and its handle is in its job's slot.
WatchOK(w) ==
    /\ Alive(w) => call[w].pc \in {"published", "returned"}
    /\ call[w].pc \in {"reserved", "subscribed", "published", "returned"} => ~Active(call[w].job)
WatchSlotOK(j) ==
    wslot[j] \in Watches => call[wslot[j]].pc # "new" /\ call[wslot[j]].job = j

\* The handle of a run that is not over is in the slot or with someone who joins it.
HandleOK(j) ==
    /\ run[j] \in {"gated", "lock", "working", "ending"} =>
          slot[j] = "Published" \/ Joining(j) # {} \/ j \in held
    /\ slot[j] = "Published" \/ j \in held => run[j] # "none"

\* Cancelled and its handle taken, if there was one: so stop_sync leaves a job.
Taken(j) == j \in cancel /\ (run[j] = "working" => slot[j] # "Published")
StopOK(c) ==
    /\ stop[c].pc \in {"take", "join", "remove"} => c \in Stops
    /\ stop[c].pc = "join" => run[stop[c].job] # "none"
    /\ c \in Stops /\ stop[c].pc # "new" => stop[c].job \in cancel
    /\ c \in Stops /\ stop[c].pc \notin {"new", "take"} => Taken(stop[c].job)

\* shutdown finds every run that neither a token nor a join will stop.
Loose(j) == Active(j) /\ IF run[j] = "working" THEN slot[j] = "Published" ELSE j \notin cancel
ClosingInv ==
    /\ shutdown \in {"open", "flag", "done"} => todo = {} /\ held = {} /\ visiting = None
    /\ visiting # None => visiting \in todo /\ Taken(visiting)
    /\ \A j \in Jobs : Loose(j) => IF shutdown \in {"open", "flag"} THEN Registered(j) ELSE j \in todo

\* Who will clear a registered job's flag.
WatchedBy(j, w) ==
    /\ call[w].job = j
    /\ watch[w] \in {"gated", "lock", "watching"} \/ call[w].pc \in {"reserved", "subscribed"}
StoppedBy(j, c) == stop[c].job = j /\ stop[c].pc \notin {"new", "returned"}
MonitorOK(j) ==
    Registered(j) /\ status[j].monitoring /\ up /\ shutdown = "open" =>
        (\E w \in Watches : WatchedBy(j, w)) \/ (\E c \in Stops \cup Unwatches : StoppedBy(j, c))

IndInv ==
    /\ TypeOK /\ RegistryInv /\ ClosingInv
    /\ \A j \in Jobs : RunOK(j) /\ HandleOK(j) /\ WatchSlotOK(j) /\ MonitorOK(j)
    /\ \A w \in Watches : WatchOK(w)
    /\ \A c \in Stops \cup Unwatches : StopOK(c)
=============================================================================
