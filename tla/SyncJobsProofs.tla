--------------------------- MODULE SyncJobsProofs ---------------------------
(***************************************************************************)
(* Machine-checked proofs about SyncJobs, for any numbers of start, watch  *)
(* and stop calls, any profiles and any ledgers they share.                *)
(***************************************************************************)
EXTENDS SyncJobs, TLAPS

\* All stop calls, of runs and of watches.
Calls == Stops \cup Unwatches

\* The values of a status and where a call may be.
Statuses == [running : BOOLEAN, monitoring : BOOLEAN, reconciliation_required : BOOLEAN]
WatchPcs == {"new", "checked", "refused", "reserved", "subscribed", "published", "returned"}
StopPcs == {"new", "take", "join", "wtake", "remove", "clear", "returned"}

RunStates == {"none", "gated", "lock", "working", "ending", "done", "panicked", "aborted"}
WatchStates == {"none", "gated", "lock", "watching", "failing", "ended", "done", "aborted"}
Launches == {"new", "checked", "refused", "registered", "published", "returned"}
SlotStates == {"Reserved", "Published", "Finished", "Taken"}
WatchSlots == {"Reserved", "Finished", "Taken"} \cup Watches

\* The value of one job, or of one call, changes and no other.
Becomes(j, x, old, new, type) ==
    /\ new \in [Jobs -> type]
    /\ new[j] = x
    /\ \A i \in Jobs \ {j} : new[i] = old[i]
Marks(j, r, m, n) ==
    /\ status' \in [Jobs -> Statuses]
    /\ status'[j].running = r /\ status'[j].monitoring = m /\ status'[j].reconciliation_required = n
    /\ \A i \in Jobs \ {j} : status'[i] = status[i]
WatchMoves(w, pc, j) ==
    /\ call' \in [Watches -> [pc : WatchPcs, job : Jobs \cup {None}]]
    /\ call'[w].pc = pc /\ call'[w].job = j
    /\ \A v \in Watches \ {w} : call'[v] = call[v]
WatchBecomes(w, x) ==
    /\ watch' \in [Watches -> WatchStates]
    /\ watch'[w] = x
    /\ \A v \in Watches \ {w} : watch'[v] = watch[v]
StopMoves(c, pc, j) ==
    /\ stop' \in [Calls -> [pc : StopPcs, job : Jobs \cup {None}]]
    /\ stop'[c].pc = pc /\ stop'[c].job = j
    /\ \A d \in Calls \ {c} : stop'[d] = stop[d]

RunBecomes(j, x) == Becomes(j, x, run, run', RunStates)
LaunchBecomes(j, x) == Becomes(j, x, launch, launch', Launches)
SlotBecomes(j, x) == Becomes(j, x, slot, slot', SlotStates)
WatchSlotBecomes(j, x) == Becomes(j, x, wslot, wslot', WatchSlots)

\* What an assignment to one entry of a variable does, entry by entry.
LEMMA RunBecame ==
    ASSUME TypeOK, NEW j \in Jobs, NEW x \in RunStates, run' = [run EXCEPT ![j] = x]
    PROVE  RunBecomes(j, x)
  BY DEF TypeOK, RunBecomes, Becomes, RunStates

\* The place of one start_sync call.
LEMMA LaunchBecame ==
    ASSUME TypeOK, NEW j \in Jobs, NEW x \in Launches, launch' = [launch EXCEPT ![j] = x]
    PROVE  LaunchBecomes(j, x)
  BY DEF TypeOK, LaunchBecomes, Becomes, Launches

\* The task slot of one job.
LEMMA SlotBecame ==
    ASSUME TypeOK, NEW j \in Jobs, NEW x \in SlotStates, slot' = [slot EXCEPT ![j] = x]
    PROVE  SlotBecomes(j, x)
  BY DEF TypeOK, SlotBecomes, Becomes, SlotStates

\* The watch slot of one job.
LEMMA WatchSlotBecame ==
    ASSUME TypeOK, NEW j \in Jobs, NEW x \in WatchSlots, wslot' = [wslot EXCEPT ![j] = x]
    PROVE  WatchSlotBecomes(j, x)
  BY DEF TypeOK, WatchSlotBecomes, Becomes, WatchSlots

\* The task of one watch.
LEMMA WatchBecame ==
    ASSUME TypeOK, NEW w \in Watches, NEW x \in WatchStates, watch' = [watch EXCEPT ![w] = x]
    PROVE  WatchBecomes(w, x)
  BY DEF TypeOK, WatchBecomes, WatchStates

\* The running flag of one status.
LEMMA MarksRunning ==
    ASSUME TypeOK, NEW j \in Jobs, NEW v \in BOOLEAN, status' = [status EXCEPT ![j].running = v]
    PROVE  Marks(j, v, status[j].monitoring, status[j].reconciliation_required)
  BY SMTT(40) DEF TypeOK, Marks, Statuses

\* The monitoring flag of one status.
LEMMA MarksMonitoring ==
    ASSUME TypeOK, NEW j \in Jobs, NEW v \in BOOLEAN, status' = [status EXCEPT ![j].monitoring = v]
    PROVE  Marks(j, status[j].running, v, status[j].reconciliation_required)
  BY SMTT(40) DEF TypeOK, Marks, Statuses

\* A run that succeeded: not running, nothing to reconcile.
LEMMA MarksReconciled ==
    ASSUME TypeOK, NEW j \in Jobs,
           status' = [status EXCEPT ![j].running = FALSE, ![j].reconciliation_required = FALSE]
    PROVE  Marks(j, FALSE, status[j].monitoring, FALSE)
  <1> DEFINE old == status[j]
             new == [old EXCEPT !.running = FALSE, !.reconciliation_required = FALSE]
  <1>1. status \in [Jobs -> Statuses] /\ old \in Statuses
    BY DEF TypeOK, Statuses
  <1>2. status' = [status EXCEPT ![j] = new]
    BY Zenon
  <1> HIDE DEF old
  <1>3. /\ new \in Statuses /\ new.running = FALSE /\ new.monitoring = old.monitoring
        /\ new.reconciliation_required = FALSE
    BY <1>1 DEF Statuses
  <1> HIDE DEF new
  <1> QED
    BY <1>1, <1>2, <1>3 DEF Marks, old

\* A watch that failed: not monitoring, a full sync is due.
LEMMA MarksFailed ==
    ASSUME TypeOK, NEW j \in Jobs,
           status' = [status EXCEPT ![j].reconciliation_required = TRUE, ![j].monitoring = FALSE]
    PROVE  Marks(j, status[j].running, FALSE, TRUE)
  <1> DEFINE old == status[j]
             new == [old EXCEPT !.reconciliation_required = TRUE, !.monitoring = FALSE]
  <1>1. status \in [Jobs -> Statuses] /\ old \in Statuses
    BY DEF TypeOK, Statuses
  <1>2. status' = [status EXCEPT ![j] = new]
    BY Zenon
  <1> HIDE DEF old
  <1>3. /\ new \in Statuses /\ new.running = old.running /\ new.monitoring = FALSE
        /\ new.reconciliation_required = TRUE
    BY <1>1 DEF Statuses
  <1> HIDE DEF new
  <1> QED
    BY <1>1, <1>2, <1>3 DEF Marks, old

\* The place of one start_sync_watch call.
LEMMA WatchMoved ==
    ASSUME TypeOK, NEW w \in Watches, NEW x \in WatchPcs, call' = [call EXCEPT ![w].pc = x]
    PROVE  WatchMoves(w, x, call[w].job)
  BY SMTT(40) DEF TypeOK, WatchMoves, WatchPcs

\* The place of one stop call.
LEMMA StopMoved ==
    ASSUME TypeOK, NEW c \in Calls, NEW x \in StopPcs, stop' = [stop EXCEPT ![c].pc = x]
    PROVE  StopMoves(c, x, stop[c].job)
  BY DEF TypeOK, StopMoves, StopPcs, Calls

-----------------------------------------------------------------------------
(***************************************************************************)
(* The parts of the invariant that a step does not touch.                  *)
(***************************************************************************)
IndParts ==
    /\ TypeOK /\ RegistryInv /\ ClosingInv
    /\ \A j \in Jobs : RunOK(j)
    /\ \A j \in Jobs : HandleOK(j)
    /\ \A j \in Jobs : WatchSlotOK(j)
    /\ \A j \in Jobs : MonitorOK(j)
    /\ \A w \in Watches : WatchOK(w)
    /\ \A c \in Calls : StopOK(c)

\* The parts of the invariant, and which of the fields that may be None are jobs.
LEMMA Parts ==
    ASSUME IndInv
    PROVE  /\ IndParts
           /\ \A w \in Watches : call[w].pc # "new" => call[w].job \in Jobs
           /\ \A c \in Calls : stop[c].pc # "new" => stop[c].job \in Jobs
           /\ visiting # None => visiting \in Jobs
           /\ \A p \in Profiles : sync_jobs[p] # None => sync_jobs[p] \in Jobs
           /\ Stops \subseteq Calls
  BY DEF IndInv, IndParts, TypeOK, Calls

\* Someone joins a run.
LEMMA Joiners ==
    /\ TypeOK => \A j \in Jobs : Joining(j) # {} <=> \E c \in Stops : stop[c].pc = "join" /\ stop[c].job = j
    /\ TypeOK' => \A j \in Jobs : Joining(j)' # {} <=> \E c \in Stops : stop'[c].pc = "join" /\ stop'[c].job = j
  BY DEF TypeOK, Joining

\* The values a status flag may take.
LEMMA BoolFacts == TRUE \in BOOLEAN /\ FALSE \in BOOLEAN
  OBVIOUS

\* A part whose variables stay the same stays true.
LEMMA Untouched ==
    ASSUME IndInv
    PROVE  /\ UNCHANGED <<sync_jobs, launch, call>> => RegistryInv'
           /\ UNCHANGED <<run, launch, status>> => \A i \in Jobs : RunOK(i)'
           /\ UNCHANGED <<run, launch, call, watch>> => \A v \in Watches : WatchOK(v)'
           /\ UNCHANGED <<wslot, call>> => \A i \in Jobs : WatchSlotOK(i)'
           /\ UNCHANGED <<run, slot, stop, held>> => \A i \in Jobs : HandleOK(i)'
           /\ UNCHANGED <<run, slot, stop, cancel>> => \A d \in Calls : StopOK(d)'
           /\ UNCHANGED <<run, slot, launch, cancel, sync_jobs, shutdown, todo, held, visiting>>
                 => ClosingInv'
           /\ UNCHANGED <<sync_jobs, status, up, shutdown, call, watch, stop>>
                 => \A i \in Jobs : MonitorOK(i)'
  <1>0. IndParts
    BY Parts
  <1>1. UNCHANGED <<sync_jobs, launch, call>> => RegistryInv'
    BY <1>0 DEF IndParts, RegistryInv
  <1>2. UNCHANGED <<run, launch, status>> => \A i \in Jobs : RunOK(i)'
    BY <1>0 DEF IndParts, RunOK, Active
  <1>3. UNCHANGED <<run, launch, call, watch>> => \A v \in Watches : WatchOK(v)'
    BY <1>0 DEF IndParts, WatchOK, Active, Alive
  <1>4. UNCHANGED <<wslot, call>> => \A i \in Jobs : WatchSlotOK(i)'
    BY <1>0 DEF IndParts, WatchSlotOK
  <1>5. UNCHANGED <<run, slot, stop, held>> => \A i \in Jobs : HandleOK(i)'
    BY <1>0 DEF IndParts, HandleOK, Joining
  <1>6. UNCHANGED <<run, slot, stop, cancel>> => \A d \in Calls : StopOK(d)'
    BY <1>0 DEF IndParts, StopOK, Taken
  <1>7. UNCHANGED <<run, slot, launch, cancel, sync_jobs, shutdown, todo, held, visiting>> => ClosingInv'
    BY <1>0 DEF IndParts, ClosingInv, Loose, Taken, Active, Registered
  <1>8. UNCHANGED <<sync_jobs, status, up, shutdown, call, watch, stop>> => \A i \in Jobs : MonitorOK(i)'
    BY <1>0 DEF IndParts, MonitorOK, WatchedBy, StoppedBy, Registered
  <1> QED
    BY <1>1, <1>2, <1>3, <1>4, <1>5, <1>6, <1>7, <1>8

-----------------------------------------------------------------------------
(***************************************************************************)
(* start_sync and the run.                                                 *)
(***************************************************************************)

\* ensure_open and the format check: no job yet.
LEMMA StartSyncKeeps ==
    ASSUME IndInv, NEW j \in Jobs, StartSync(j)
    PROVE  IndInv'
  <1>0. IndParts /\ TypeOK
    BY Parts DEF IndParts
  <1>1. /\ launch[j] = "new"
        /\ LaunchBecomes(j, "checked") \/ LaunchBecomes(j, "refused")
        /\ UNCHANGED <<sync_jobs, status, cancel, run, slot, wslot, call, watch, stop, shutdown, todo,
                       held, visiting, up>>
    BY <1>0, LaunchBecame, BoolFacts DEF StartSync, Launches, slots, calls, tasks, closing
  <1> USE DEF LaunchBecomes, Becomes
  <1>2. TypeOK'
    BY <1>0, <1>1, SyncJobsAssumption DEF TypeOK, Launches
  <1>3. RegistryInv'
    BY <1>0, <1>1, Parts DEF IndParts, RegistryInv, Unlaunched
  <1>4. \A i \in Jobs : RunOK(i)'
    BY <1>0, <1>1 DEF IndParts, RunOK, RegistryInv, Active, Unlaunched
  <1>5. \A v \in Watches : WatchOK(v)'
    BY <1>0, <1>1, Parts DEF IndParts, WatchOK, Active, Alive
  <1>6. ClosingInv'
    BY <1>0, <1>1 DEF IndParts, ClosingInv, Loose, Taken, Active, Registered
  <1> QED
    BY <1>1, <1>2, <1>3, <1>4, <1>5, <1>6, Untouched DEF IndInv, Calls

\* A job is registered where no other of its profile runs or watches.
LEMMA RegisterKeeps ==
    ASSUME IndInv, NEW j \in Jobs, register_sync_job(j)
    PROVE  IndInv'
  <1>0. IndParts /\ TypeOK
    BY Parts DEF IndParts
  <1>1. /\ launch[j] = "checked"
        /\ \/ /\ shutdown = "open" /\ LaunchBecomes(j, "registered")
              /\ sync_jobs' \in [Profiles -> Jobs \cup {None}] /\ sync_jobs'[ProfileOf[j]] = j
              /\ \A p \in Profiles \ {ProfileOf[j]} : sync_jobs'[p] = sync_jobs[p]
              /\ Marks(j, TRUE, status[j].monitoring, status[j].reconciliation_required)
              /\ sync_jobs[ProfileOf[j]] # None => ~status[sync_jobs[ProfileOf[j]]].running
           \/ LaunchBecomes(j, "refused") /\ UNCHANGED <<sync_jobs, status>>
        /\ UNCHANGED <<cancel, run, slot, wslot, call, watch, stop, shutdown, todo, held, visiting, up>>
    <2>1. CASE ~admits(j)
      BY <1>0, <2>1, LaunchBecame DEF register_sync_job, Launches, slots, tasks, closing
    <2>2. CASE admits(j)
      <3>1. /\ sync_jobs' \in [Profiles -> Jobs \cup {None}] /\ sync_jobs'[ProfileOf[j]] = j
            /\ \A p \in Profiles \ {ProfileOf[j]} : sync_jobs'[p] = sync_jobs[p]
        BY <1>0, <2>2, SyncJobsAssumption DEF register_sync_job, TypeOK
      <3>2. Marks(j, TRUE, status[j].monitoring, status[j].reconciliation_required)
        BY <1>0, <2>2, MarksRunning, BoolFacts DEF register_sync_job
      <3> QED
        BY <1>0, <2>2, <3>1, <3>2, LaunchBecame DEF register_sync_job, Launches, admits, shutting_down,
           slots, tasks, closing
    <2> QED
      BY <2>1, <2>2
  <1> USE DEF Marks, LaunchBecomes, Becomes
  <1>2. TypeOK'
    BY <1>0, <1>1, SyncJobsAssumption DEF TypeOK, Statuses, Launches
  <1>3. RegistryInv'
    BY <1>0, <1>1, Parts DEF IndParts, RegistryInv, Unlaunched
  <1>4. \A i \in Jobs : RunOK(i)'
    BY <1>0, <1>1 DEF IndParts, RunOK, RegistryInv, Active, Unlaunched
  <1>5. \A v \in Watches : WatchOK(v)'
    BY <1>0, <1>1, Parts DEF IndParts, WatchOK, RunOK, RegistryInv, Active, Alive, Unlaunched
  <1>6. ClosingInv'
    BY <1>0, <1>1, Parts, SyncJobsAssumption DEF IndParts, ClosingInv, StopOK, Loose, Taken,
       RunOK, Active, Registered, Unlaunched
  <1>7. \A i \in Jobs : MonitorOK(i)'
    BY <1>0, <1>1, Parts, SyncJobsAssumption DEF IndParts, Calls, MonitorOK, WatchSlotOK,
       WatchOK, RunOK, WatchedBy, StoppedBy, Registered, Alive, Unlaunched
  <1> QED
    BY <1>1, <1>2, <1>3, <1>4, <1>5, <1>6, <1>7, Untouched DEF IndInv, Calls

\* The gated task and its handle are there at once.
LEMMA PublishRunKeeps ==
    ASSUME IndInv, NEW j \in Jobs, PublishRun(j)
    PROVE  IndInv'
  <1>0. IndParts /\ TypeOK
    BY Parts DEF IndParts
  <1>1. /\ launch[j] = "registered"
        /\ LaunchBecomes(j, "published") /\ RunBecomes(j, "gated") /\ SlotBecomes(j, "Published")
        /\ UNCHANGED <<sync_jobs, status, cancel, wslot, call, watch, stop, shutdown, todo, held, visiting,
                       up>>
    BY <1>0, RunBecame, LaunchBecame, SlotBecame, BoolFacts DEF PublishRun, RunStates, Launches, SlotStates, slots, calls, tasks, closing
  <1> USE DEF RunBecomes, Becomes, LaunchBecomes, SlotBecomes
  <1>2. TypeOK'
    BY <1>0, <1>1, SyncJobsAssumption DEF TypeOK, RunStates, Launches, SlotStates
  <1>3. RegistryInv'
    BY <1>0, <1>1, Parts DEF IndParts, RegistryInv, Unlaunched
  <1>4. \A i \in Jobs : RunOK(i)'
    BY <1>0, <1>1 DEF IndParts, RunOK, RegistryInv, Active, Unlaunched
  <1>5. \A v \in Watches : WatchOK(v)'
    BY <1>0, <1>1, Parts DEF IndParts, WatchOK, Active, Alive
  <1>6. \A i \in Jobs : HandleOK(i)'
    BY <1>0, <1>1, <1>2, Joiners DEF IndParts, HandleOK
  <1>7. \A d \in Calls : StopOK(d)'
    BY <1>0, <1>1, Parts DEF IndParts, StopOK, Taken
  <1>8. ClosingInv'
    BY <1>0, <1>1, Parts DEF IndParts, ClosingInv, Loose, Taken, RunOK, Active, Registered,
       Unlaunched
  <1> QED
    BY <1>1, <1>2, <1>3, <1>4, <1>5, <1>6, <1>7, <1>8, Untouched DEF IndInv, Calls

\* The gate opens, for a task that may be aborted already.
LEMMA ReleaseRunKeeps ==
    ASSUME IndInv, NEW j \in Jobs, ReleaseRun(j)
    PROVE  IndInv'
  <1>0. IndParts /\ TypeOK
    BY Parts DEF IndParts
  <1>1. /\ launch[j] = "published"
        /\ LaunchBecomes(j, "returned")
        /\ \/ run[j] = "gated" /\ RunBecomes(j, "lock")
           \/ run[j] # "gated" /\ RunBecomes(j, run[j])
        /\ UNCHANGED <<sync_jobs, status, cancel, slot, wslot, call, watch, stop, shutdown, todo, held,
                       visiting, up>>
    <2>1. run[j] \in RunStates /\ "lock" \in RunStates /\ "returned" \in Launches
      BY <1>0 DEF TypeOK, RunStates, Launches
    <2>2. CASE run[j] = "gated"
      BY <1>0, <2>1, <2>2, RunBecame, LaunchBecame DEF ReleaseRun, slots, closing
    <2>3. CASE run[j] # "gated"
      BY <1>0, <2>1, <2>3, RunBecame, LaunchBecame DEF ReleaseRun, slots, closing
    <2> QED
      BY <2>2, <2>3
  <1> USE DEF RunBecomes, Becomes, LaunchBecomes
  <1>2. TypeOK'
    BY <1>0, <1>1, SyncJobsAssumption DEF TypeOK, RunStates, Launches
  <1>3. RegistryInv'
    BY <1>0, <1>1, Parts DEF IndParts, RegistryInv, Unlaunched
  <1>4. \A i \in Jobs : RunOK(i)'
    BY <1>0, <1>1 DEF IndParts, RunOK, RegistryInv, Active, Unlaunched
  <1>5. \A v \in Watches : WatchOK(v)'
    BY <1>0, <1>1, Parts DEF IndParts, WatchOK, Active, Alive
  <1>6. \A i \in Jobs : HandleOK(i)'
    BY <1>0, <1>1, <1>2, Joiners DEF IndParts, HandleOK
  <1>7. \A d \in Calls : StopOK(d)'
    BY <1>0, <1>1, Parts DEF IndParts, StopOK, Taken
  <1>8. ClosingInv'
    BY <1>0, <1>1, Parts DEF IndParts, ClosingInv, Loose, Taken, Active, Registered
  <1> QED
    BY <1>1, <1>2, <1>3, <1>4, <1>5, <1>6, <1>7, <1>8, Untouched DEF IndInv, Calls

\* The run has its ledger and looks at its token.
LEMMA RunStartsKeeps ==
    ASSUME IndInv, NEW j \in Jobs, RunStarts(j)
    PROVE  IndInv'
  <1>0. IndParts /\ TypeOK
    BY Parts DEF IndParts
  <1>1. /\ run[j] = "lock"
        /\ \/ j \in cancel /\ RunBecomes(j, "ending") /\ Marks(j, FALSE, status[j].monitoring, status[j].reconciliation_required)
           \/ j \notin cancel /\ RunBecomes(j, "working") /\ UNCHANGED status
        /\ UNCHANGED <<sync_jobs, cancel, launch, slot, wslot, call, watch, stop, shutdown, todo, held,
                       visiting, up>>
    BY <1>0, MarksRunning, RunBecame, BoolFacts DEF RunStarts, RunStates, slots, calls, tasks, closing
  <1> USE DEF Marks, RunBecomes, Becomes
  <1>2. TypeOK'
    BY <1>0, <1>1, SyncJobsAssumption DEF TypeOK, Statuses, RunStates
  <1>3. \A i \in Jobs : RunOK(i)'
    BY <1>0, <1>1 DEF IndParts, RunOK, Active
  <1>4. \A v \in Watches : WatchOK(v)'
    BY <1>0, <1>1, Parts DEF IndParts, WatchOK, Active, Alive
  <1>5. \A i \in Jobs : HandleOK(i)'
    BY <1>0, <1>1, <1>2, Joiners DEF IndParts, HandleOK
  <1>6. \A d \in Calls : StopOK(d)'
    BY <1>0, <1>1, Parts DEF IndParts, StopOK, Taken
  <1>7. ClosingInv'
    BY <1>0, <1>1, Parts DEF IndParts, ClosingInv, Loose, Taken, Active, Registered
  <1>8. \A i \in Jobs : MonitorOK(i)'
    BY <1>0, <1>1 DEF IndParts, MonitorOK, WatchedBy, StoppedBy, Registered
  <1> QED
    BY <1>1, <1>2, <1>3, <1>4, <1>5, <1>6, <1>7, <1>8, Untouched DEF IndInv, Calls

\* The run is over, one way or the other.
LEMMA RunSucceedsKeeps ==
    ASSUME IndInv, NEW j \in Jobs, RunSucceeds(j)
    PROVE  IndInv'
  <1>0. IndParts /\ TypeOK
    BY Parts DEF IndParts
  <1>1. /\ run[j] = "working" /\ RunBecomes(j, "ending")
        /\ Marks(j, FALSE, status[j].monitoring, FALSE)
        /\ UNCHANGED <<sync_jobs, cancel, launch, slot, wslot, call, watch, stop, shutdown, todo, held,
                       visiting, up>>
    BY <1>0, MarksReconciled, RunBecame, BoolFacts DEF RunSucceeds, RunStates, slots, calls, tasks, closing
  <1> USE DEF Marks, RunBecomes, Becomes
  <1>2. TypeOK'
    BY <1>0, <1>1, SyncJobsAssumption DEF TypeOK, Statuses, RunStates
  <1>3. \A i \in Jobs : RunOK(i)'
    BY <1>0, <1>1 DEF IndParts, RunOK, Active
  <1>4. \A v \in Watches : WatchOK(v)'
    BY <1>0, <1>1, Parts DEF IndParts, WatchOK, Active, Alive
  <1>5. \A i \in Jobs : HandleOK(i)'
    BY <1>0, <1>1, <1>2, Joiners DEF IndParts, HandleOK
  <1>6. \A d \in Calls : StopOK(d)'
    BY <1>0, <1>1, Parts DEF IndParts, StopOK, Taken
  <1>7. ClosingInv'
    BY <1>0, <1>1, Parts DEF IndParts, ClosingInv, Loose, Taken, RunOK, Active, Registered,
       Unlaunched
  <1>8. \A i \in Jobs : MonitorOK(i)'
    BY <1>0, <1>1 DEF IndParts, MonitorOK, WatchedBy, StoppedBy, Registered
  <1> QED
    BY <1>1, <1>2, <1>3, <1>4, <1>5, <1>6, <1>7, <1>8, Untouched DEF IndInv, Calls

\* The run failed.
LEMMA RunFailsKeeps ==
    ASSUME IndInv, NEW j \in Jobs, RunFails(j)
    PROVE  IndInv'
  <1>0. IndParts /\ TypeOK
    BY Parts DEF IndParts
  <1>1. /\ run[j] = "working" /\ RunBecomes(j, "ending")
        /\ Marks(j, FALSE, status[j].monitoring, status[j].reconciliation_required)
        /\ UNCHANGED <<sync_jobs, cancel, launch, slot, wslot, call, watch, stop, shutdown, todo, held,
                       visiting, up>>
    BY <1>0, MarksRunning, RunBecame, BoolFacts DEF RunFails, RunStates, slots, calls, tasks, closing
  <1> USE DEF Marks, RunBecomes, Becomes
  <1>2. TypeOK'
    BY <1>0, <1>1, SyncJobsAssumption DEF TypeOK, Statuses, RunStates
  <1>3. \A i \in Jobs : RunOK(i)'
    BY <1>0, <1>1 DEF IndParts, RunOK, Active
  <1>4. \A v \in Watches : WatchOK(v)'
    BY <1>0, <1>1, Parts DEF IndParts, WatchOK, Active, Alive
  <1>5. \A i \in Jobs : HandleOK(i)'
    BY <1>0, <1>1, <1>2, Joiners DEF IndParts, HandleOK
  <1>6. \A d \in Calls : StopOK(d)'
    BY <1>0, <1>1, Parts DEF IndParts, StopOK, Taken
  <1>7. ClosingInv'
    BY <1>0, <1>1, Parts DEF IndParts, ClosingInv, Loose, Taken, RunOK, Active, Registered,
       Unlaunched
  <1>8. \A i \in Jobs : MonitorOK(i)'
    BY <1>0, <1>1 DEF IndParts, MonitorOK, WatchedBy, StoppedBy, Registered
  <1> QED
    BY <1>1, <1>2, <1>3, <1>4, <1>5, <1>6, <1>7, <1>8, Untouched DEF IndInv, Calls

\* The run panicked.
LEMMA RunPanicsKeeps ==
    ASSUME IndInv, NEW j \in Jobs, RunPanics(j)
    PROVE  IndInv'
  <1>0. IndParts /\ TypeOK
    BY Parts DEF IndParts
  <1>1. /\ run[j] = "working" /\ RunBecomes(j, "panicked")
        /\ UNCHANGED <<sync_jobs, status, cancel, launch, slot, wslot, call, watch, stop, shutdown, todo,
                       held, visiting, up>>
    BY <1>0, RunBecame, BoolFacts DEF RunPanics, RunStates, slots, calls, tasks, closing
  <1> USE DEF RunBecomes, Becomes
  <1>2. TypeOK'
    BY <1>0, <1>1, SyncJobsAssumption DEF TypeOK, RunStates
  <1>3. \A i \in Jobs : RunOK(i)'
    BY <1>0, <1>1 DEF IndParts, RunOK, Active
  <1>4. \A v \in Watches : WatchOK(v)'
    BY <1>0, <1>1, Parts DEF IndParts, WatchOK, Active, Alive
  <1>5. \A i \in Jobs : HandleOK(i)'
    BY <1>0, <1>1, <1>2, Joiners DEF IndParts, HandleOK
  <1>6. \A d \in Calls : StopOK(d)'
    BY <1>0, <1>1, Parts DEF IndParts, StopOK, Taken
  <1>7. ClosingInv'
    BY <1>0, <1>1, Parts DEF IndParts, ClosingInv, Loose, Taken, RunOK, Active, Registered,
       Unlaunched
  <1> QED
    BY <1>1, <1>2, <1>3, <1>4, <1>5, <1>6, <1>7, Untouched DEF IndInv, Calls

\* The task clears its slot.
LEMMA RunReturnsKeeps ==
    ASSUME IndInv, NEW j \in Jobs, RunReturns(j)
    PROVE  IndInv'
  <1>0. IndParts /\ TypeOK
    BY Parts DEF IndParts
  <1>1. /\ run[j] = "ending" /\ RunBecomes(j, "done") /\ SlotBecomes(j, "Finished")
        /\ UNCHANGED <<sync_jobs, status, cancel, launch, wslot, call, watch, stop, shutdown, todo, held,
                       visiting, up>>
    BY <1>0, RunBecame, SlotBecame, BoolFacts DEF RunReturns, RunStates, SlotStates, slots, calls, tasks, closing
  <1> USE DEF RunBecomes, Becomes, SlotBecomes
  <1>2. TypeOK'
    BY <1>0, <1>1, SyncJobsAssumption DEF TypeOK, RunStates, SlotStates
  <1>3. \A i \in Jobs : RunOK(i)'
    BY <1>0, <1>1 DEF IndParts, RunOK, Active
  <1>4. \A v \in Watches : WatchOK(v)'
    BY <1>0, <1>1, Parts DEF IndParts, WatchOK, Active, Alive
  <1>5. \A i \in Jobs : HandleOK(i)'
    BY <1>0, <1>1, <1>2, Joiners DEF IndParts, HandleOK
  <1>6. \A d \in Calls : StopOK(d)'
    BY <1>0, <1>1, Parts DEF IndParts, StopOK, Taken
  <1>7. ClosingInv'
    BY <1>0, <1>1, Parts DEF IndParts, ClosingInv, Loose, Taken, Active, Registered
  <1> QED
    BY <1>1, <1>2, <1>3, <1>4, <1>5, <1>6, <1>7, Untouched DEF IndInv, Calls

-----------------------------------------------------------------------------
(***************************************************************************)
(* start_sync_watch and the watch.                                         *)
(***************************************************************************)

\* The call finds a registered job.
LEMMA WatchLookupKeeps ==
    ASSUME IndInv, NEW w \in Watches, WatchLookup(w)
    PROVE  IndInv'
  <1>0. IndParts /\ TypeOK
    BY Parts DEF IndParts
  <1>1. /\ call[w].pc = "new"
        /\ \E p \in Profiles : sync_jobs[p] # None /\ WatchMoves(w, "checked", sync_jobs[p])
        /\ UNCHANGED <<sync_jobs, status, cancel, launch, run, slot, wslot, watch, stop, shutdown, todo,
                       held, visiting, up>>
    <2>1. PICK p \in Profiles : /\ sync_jobs[p] # None
                                /\ call' = [call EXCEPT ![w] = [pc |-> "checked", job |-> sync_jobs[p]]]
      BY DEF WatchLookup
    <2>2. WatchMoves(w, "checked", sync_jobs[p])
      BY <1>0, <2>1 DEF TypeOK, WatchMoves, WatchPcs
    <2> QED
      BY <2>1, <2>2 DEF WatchLookup, slots, tasks, closing
  <1> USE DEF WatchMoves
  <1>2. TypeOK'
    BY <1>0, <1>1, SyncJobsAssumption DEF TypeOK, WatchPcs
  <1>3. RegistryInv'
    BY <1>0, <1>1 DEF IndParts, RegistryInv, Unlaunched
  <1>4. \A v \in Watches : WatchOK(v)'
    BY <1>0, <1>1 DEF IndParts, WatchOK, Active, Alive
  <1>5. \A i \in Jobs : WatchSlotOK(i)'
    BY <1>0, <1>1 DEF IndParts, WatchSlotOK
  <1>6. \A i \in Jobs : MonitorOK(i)'
    BY <1>0, <1>1 DEF IndParts, MonitorOK, RunOK, WatchOK, WatchedBy, StoppedBy, Registered,
       Alive, Unlaunched
  <1> QED
    BY <1>1, <1>2, <1>3, <1>4, <1>5, <1>6, Untouched DEF IndInv, Calls

\* The reservation excludes runs and other watches.
LEMMA ReserveKeeps ==
    ASSUME IndInv, NEW w \in Watches, reserve_sync_watch(w)
    PROVE  IndInv'
  <1> DEFINE j == call[w].job
  <1>0. IndParts /\ TypeOK /\ j \in Jobs
    BY Parts DEF IndParts, reserve_sync_watch, Calls, WatchOK, Alive, TypeOK
  <1>1. /\ call[w].pc = "checked"
        /\ \/ ~status[j].running /\ WatchMoves(w, "reserved", j) /\ Marks(j, status[j].running, TRUE, status[j].reconciliation_required)
           \/ WatchMoves(w, "refused", j) /\ UNCHANGED status
        /\ UNCHANGED <<sync_jobs, cancel, launch, run, slot, wslot, watch, stop, shutdown, todo, held,
                       visiting, up>>
    BY <1>0, MarksMonitoring, WatchMoved, BoolFacts DEF reserve_sync_watch, WatchPcs, may_watch, slots, calls, tasks, closing
  <1> HIDE DEF j
  <1>j. call[w].job = j
    BY DEF j
  <1> USE DEF Marks, WatchMoves
  <1>2. TypeOK'
    BY <1>0, <1>1, <1>j, SyncJobsAssumption, SMTT(90) DEF TypeOK, Statuses, WatchPcs
  <1>3. RegistryInv'
    BY <1>0, <1>1, <1>j DEF IndParts, RegistryInv, Unlaunched
  <1>4. \A i \in Jobs : RunOK(i)'
    BY <1>0, <1>1, <1>j DEF IndParts, RunOK, RegistryInv, Active, Unlaunched
  <1>5. \A v \in Watches : WatchOK(v)'
    BY <1>0, <1>1, <1>j DEF IndParts, WatchOK, RunOK, RegistryInv, Active, Alive, Unlaunched
  <1>6. \A i \in Jobs : WatchSlotOK(i)'
    BY <1>0, <1>1, <1>j DEF IndParts, WatchSlotOK
  <1>7. \A i \in Jobs : MonitorOK(i)'
    BY <1>0, <1>1, <1>j DEF IndParts, MonitorOK, WatchedBy, StoppedBy, Registered
  <1> QED
    BY <1>1, <1>2, <1>3, <1>4, <1>5, <1>6, <1>7, Untouched DEF IndInv, Calls

\* Without a session the reservation stays.
LEMMA WatchSessionKeeps ==
    ASSUME IndInv, NEW w \in Watches, WatchSession(w)
    PROVE  IndInv'
  <1> DEFINE j == call[w].job
  <1>0. IndParts /\ TypeOK /\ j \in Jobs
    BY Parts DEF IndParts, WatchSession, Calls, WatchOK, Alive, TypeOK
  <1>1. /\ call[w].pc = "reserved"
        /\ \/ up /\ WatchMoves(w, "subscribed", j)
           \/ ~up /\ WatchMoves(w, "refused", j)
        /\ UNCHANGED <<sync_jobs, status, cancel, launch, run, slot, wslot, watch, stop, shutdown, todo,
                       held, visiting, up>>
    BY <1>0, WatchMoved, BoolFacts DEF WatchSession, WatchPcs, slots, calls, tasks, closing
  <1> HIDE DEF j
  <1>j. call[w].job = j
    BY DEF j
  <1> USE DEF WatchMoves
  <1>2. TypeOK'
    BY <1>0, <1>1, <1>j, SyncJobsAssumption DEF TypeOK, WatchPcs
  <1>3. RegistryInv'
    BY <1>0, <1>1, <1>j DEF IndParts, RegistryInv, Unlaunched
  <1>4. \A v \in Watches : WatchOK(v)'
    BY <1>0, <1>1, <1>j DEF IndParts, WatchOK, Active, Alive
  <1>5. \A i \in Jobs : WatchSlotOK(i)'
    BY <1>0, <1>1, <1>j DEF IndParts, WatchSlotOK
  <1>6. \A i \in Jobs : MonitorOK(i)'
    BY <1>0, <1>1, <1>j DEF IndParts, MonitorOK, WatchedBy, StoppedBy, Registered
  <1> QED
    BY <1>1, <1>2, <1>3, <1>4, <1>5, <1>6, Untouched DEF IndInv, Calls

\* A refused monitor gives the reservation back.
LEMMA MonitorRefusedKeeps ==
    ASSUME IndInv, NEW w \in Watches, MonitorRefused(w)
    PROVE  IndInv'
  <1> DEFINE j == call[w].job
  <1>0. IndParts /\ TypeOK /\ j \in Jobs
    BY Parts DEF IndParts, MonitorRefused, Calls, WatchOK, Alive, TypeOK
  <1>1. /\ call[w].pc = "subscribed" /\ WatchMoves(w, "refused", j)
        /\ \/ Registered(j) /\ Marks(j, status[j].running, FALSE, status[j].reconciliation_required)
           \/ ~Registered(j) /\ UNCHANGED status
        /\ UNCHANGED <<sync_jobs, cancel, launch, run, slot, wslot, watch, stop, shutdown, todo, held,
                       visiting, up>>
    BY <1>0, MarksMonitoring, WatchMoved, BoolFacts DEF MonitorRefused, WatchPcs, release_sync_watch, slots, calls, tasks, closing
  <1> HIDE DEF j
  <1>j. call[w].job = j
    BY DEF j
  <1> USE DEF Marks, WatchMoves
  <1>2. TypeOK'
    BY <1>0, <1>1, <1>j, SyncJobsAssumption, ZenonT(60) DEF TypeOK, Statuses, WatchPcs
  <1>3. RegistryInv'
    BY <1>0, <1>1, <1>j DEF IndParts, RegistryInv, Unlaunched
  <1>4. \A i \in Jobs : RunOK(i)'
    BY <1>0, <1>1, <1>j DEF IndParts, RunOK, Active
  <1>5. \A v \in Watches : WatchOK(v)'
    BY <1>0, <1>1, <1>j DEF IndParts, WatchOK, Active, Alive
  <1>6. \A i \in Jobs : WatchSlotOK(i)'
    BY <1>0, <1>1, <1>j DEF IndParts, WatchSlotOK
  <1>7. \A i \in Jobs : MonitorOK(i)'
    BY <1>0, <1>1, <1>j DEF IndParts, MonitorOK, WatchedBy, StoppedBy, Registered
  <1> QED
    BY <1>1, <1>2, <1>3, <1>4, <1>5, <1>6, <1>7, Untouched DEF IndInv, Calls

\* The watch task and its handle are there at once, unless shutdown began.
LEMMA PublishWatchKeeps ==
    ASSUME IndInv, NEW w \in Watches, PublishWatch(w)
    PROVE  IndInv'
  <1> DEFINE j == call[w].job
  <1>0. IndParts /\ TypeOK /\ j \in Jobs
    BY Parts DEF IndParts, PublishWatch, Calls, WatchOK, Alive, TypeOK
  <1>1. /\ call[w].pc = "subscribed" /\ up
        /\ \/ /\ shutdown = "open" /\ WatchMoves(w, "published", j) /\ WatchBecomes(w, "gated")
              /\ WatchSlotBecomes(j, w) /\ UNCHANGED status
           \/ /\ shutdown # "open" /\ WatchMoves(w, "refused", j) /\ UNCHANGED <<watch, wslot>>
              /\ Marks(j, status[j].running, FALSE, status[j].reconciliation_required) \/ UNCHANGED status
        /\ UNCHANGED <<sync_jobs, cancel, launch, run, slot, stop, shutdown, todo, held, visiting, up>>
    BY <1>0, MarksMonitoring, WatchSlotBecame, WatchBecame, WatchMoved, BoolFacts DEF PublishWatch, WatchSlots, WatchStates, WatchPcs, release_sync_watch, shutting_down, slots,
       calls, tasks, closing
  <1> HIDE DEF j
  <1>j. call[w].job = j
    BY DEF j
  <1> USE DEF Marks, WatchSlotBecomes, Becomes, WatchBecomes, WatchMoves
  <1>2. TypeOK'
    BY <1>0, <1>1, <1>j, SyncJobsAssumption, SMTT(40) DEF TypeOK, Statuses, WatchSlots, WatchStates,
       WatchPcs
  <1>3. RegistryInv'
    BY <1>0, <1>1, <1>j DEF IndParts, RegistryInv, Unlaunched
  <1>4. \A i \in Jobs : RunOK(i)'
    BY <1>0, <1>1, <1>j DEF IndParts, RunOK, Active
  <1>5. \A v \in Watches : WatchOK(v)'
    BY <1>0, <1>1, <1>j DEF IndParts, WatchOK, Active, Alive
  <1>6. \A i \in Jobs : WatchSlotOK(i)'
    BY <1>0, <1>1, <1>j DEF IndParts, WatchSlotOK
  <1>7. \A i \in Jobs : MonitorOK(i)'
    BY <1>0, <1>1, <1>j DEF IndParts, MonitorOK, WatchedBy, StoppedBy, Registered
  <1> QED
    BY <1>1, <1>2, <1>3, <1>4, <1>5, <1>6, <1>7, Untouched DEF IndInv, Calls

\* The gate of the watch opens.
LEMMA ReleaseWatchKeeps ==
    ASSUME IndInv, NEW w \in Watches, ReleaseWatch(w)
    PROVE  IndInv'
  <1> DEFINE j == call[w].job
  <1>0. IndParts /\ TypeOK /\ j \in Jobs
    BY Parts DEF IndParts, ReleaseWatch, Calls, WatchOK, Alive, TypeOK
  <1>1. /\ call[w].pc = "published" /\ WatchMoves(w, "returned", j)
        /\ \/ watch[w] = "gated" /\ WatchBecomes(w, "lock")
           \/ watch[w] # "gated" /\ WatchBecomes(w, watch[w])
        /\ UNCHANGED <<sync_jobs, status, cancel, launch, run, slot, wslot, stop, shutdown, todo, held,
                       visiting, up>>
    <2>1. watch[w] \in WatchStates /\ "lock" \in WatchStates /\ "returned" \in WatchPcs
      BY <1>0 DEF TypeOK, WatchStates, WatchPcs
    <2>2. CASE watch[w] = "gated"
      BY <1>0, <2>1, <2>2, WatchBecame, WatchMoved DEF ReleaseWatch, slots, closing
    <2>3. CASE watch[w] # "gated"
      BY <1>0, <2>1, <2>3, WatchBecame, WatchMoved DEF ReleaseWatch, slots, closing
    <2> QED
      BY <2>2, <2>3
  <1> HIDE DEF j
  <1>j. call[w].job = j
    BY DEF j
  <1> USE DEF WatchBecomes, WatchMoves
  <1>2. TypeOK'
    BY <1>0, <1>1, <1>j, SyncJobsAssumption DEF TypeOK, WatchStates, WatchPcs
  <1>3. RegistryInv'
    BY <1>0, <1>1, <1>j DEF IndParts, RegistryInv, Unlaunched
  <1>4. \A v \in Watches : WatchOK(v)'
    BY <1>0, <1>1, <1>j DEF IndParts, WatchOK, Active, Alive
  <1>5. \A i \in Jobs : WatchSlotOK(i)'
    BY <1>0, <1>1, <1>j DEF IndParts, WatchSlotOK
  <1>6. \A i \in Jobs : MonitorOK(i)'
    BY <1>0, <1>1, <1>j DEF IndParts, MonitorOK, WatchedBy, StoppedBy, Registered
  <1> QED
    BY <1>1, <1>2, <1>3, <1>4, <1>5, <1>6, Untouched DEF IndInv, Calls

\* The watch has its ledger.
LEMMA WatchStartsKeeps ==
    ASSUME IndInv, NEW w \in Watches, WatchStarts(w)
    PROVE  IndInv'
  <1>0. IndParts /\ TypeOK
    BY Parts DEF IndParts
  <1>1. /\ watch[w] = "lock" /\ WatchBecomes(w, "watching")
        /\ UNCHANGED <<sync_jobs, status, cancel, launch, run, slot, wslot, call, stop, shutdown, todo,
                       held, visiting, up>>
    BY <1>0, WatchBecame, BoolFacts DEF WatchStarts, WatchStates, slots, calls, tasks, closing
  <1> USE DEF WatchBecomes
  <1>2. TypeOK'
    BY <1>0, <1>1, SyncJobsAssumption DEF TypeOK, WatchStates
  <1>3. \A v \in Watches : WatchOK(v)'
    BY <1>0, <1>1 DEF IndParts, WatchOK, Active, Alive
  <1>4. \A i \in Jobs : MonitorOK(i)'
    BY <1>0, <1>1 DEF IndParts, MonitorOK, WatchedBy, StoppedBy, Registered
  <1> QED
    BY <1>1, <1>2, <1>3, <1>4, Untouched DEF IndInv, Calls

\* A lag or a failed change ends the watch.
LEMMA WatchFailsKeeps ==
    ASSUME IndInv, NEW w \in Watches, WatchFails(w)
    PROVE  IndInv'
  <1> DEFINE j == call[w].job
  <1>0. IndParts /\ TypeOK /\ j \in Jobs
    BY Parts DEF IndParts, WatchFails, Calls, WatchOK, Alive, TypeOK
  <1>1. /\ watch[w] = "watching" /\ WatchBecomes(w, "failing")
        /\ Marks(j, status[j].running, FALSE, TRUE)
        /\ UNCHANGED <<sync_jobs, cancel, launch, run, slot, wslot, call, stop, shutdown, todo, held,
                       visiting, up>>
    BY <1>0, MarksFailed, WatchBecame, BoolFacts DEF WatchFails, WatchStates, slots, calls, tasks, closing
  <1> HIDE DEF j
  <1>j. call[w].job = j
    BY DEF j
  <1> USE DEF Marks, WatchBecomes
  <1>2. TypeOK'
    BY <1>0, <1>1, <1>j, SyncJobsAssumption DEF TypeOK, Statuses, WatchStates
  <1>3. \A i \in Jobs : RunOK(i)'
    BY <1>0, <1>1, <1>j DEF IndParts, RunOK, Active
  <1>4. \A v \in Watches : WatchOK(v)'
    BY <1>0, <1>1, <1>j DEF IndParts, WatchOK, Active, Alive
  <1>5. \A i \in Jobs : MonitorOK(i)'
    BY <1>0, <1>1, <1>j DEF IndParts, MonitorOK, WatchedBy, StoppedBy, Registered
  <1> QED
    BY <1>1, <1>2, <1>3, <1>4, <1>5, Untouched DEF IndInv, Calls

\* The loop is left.
LEMMA WatchExitsKeeps ==
    ASSUME IndInv, NEW w \in Watches, WatchExits(w)
    PROVE  IndInv'
  <1> DEFINE j == call[w].job
  <1>0. IndParts /\ TypeOK /\ j \in Jobs
    BY Parts DEF IndParts, WatchExits, Calls, WatchOK, Alive, TypeOK
  <1>1. /\ watch[w] = "failing" \/ (watch[w] = "watching" /\ ~up)
        /\ WatchBecomes(w, "ended")
        /\ Marks(j, status[j].running, FALSE, status[j].reconciliation_required) \/ UNCHANGED status
        /\ UNCHANGED <<sync_jobs, cancel, launch, run, slot, wslot, call, stop, shutdown, todo, held,
                       visiting, up>>
    BY <1>0, MarksMonitoring, WatchBecame, BoolFacts DEF WatchExits, WatchStates, slots, calls, tasks, closing
  <1> HIDE DEF j
  <1>j. call[w].job = j
    BY DEF j
  <1> USE DEF Marks, WatchBecomes
  <1>2. TypeOK'
    BY <1>0, <1>1, <1>j, SyncJobsAssumption DEF TypeOK, Statuses, WatchStates
  <1>3. \A i \in Jobs : RunOK(i)'
    BY <1>0, <1>1, <1>j DEF IndParts, RunOK, Active
  <1>4. \A v \in Watches : WatchOK(v)'
    BY <1>0, <1>1, <1>j DEF IndParts, WatchOK, Active, Alive
  <1>5. \A i \in Jobs : MonitorOK(i)'
    BY <1>0, <1>1, <1>j DEF IndParts, MonitorOK, WatchedBy, StoppedBy, Registered
  <1> QED
    BY <1>1, <1>2, <1>3, <1>4, <1>5, Untouched DEF IndInv, Calls

\* The watch task clears the slot of its job.
LEMMA WatchReturnsKeeps ==
    ASSUME IndInv, NEW w \in Watches, WatchReturns(w)
    PROVE  IndInv'
  <1> DEFINE j == call[w].job
  <1>0. IndParts /\ TypeOK /\ j \in Jobs
    BY Parts DEF IndParts, WatchReturns, Calls, WatchOK, Alive, TypeOK
  <1>1. /\ watch[w] = "ended" /\ WatchBecomes(w, "done") /\ WatchSlotBecomes(j, "Finished")
        /\ UNCHANGED <<sync_jobs, status, cancel, launch, run, slot, call, stop, shutdown, todo, held,
                       visiting, up>>
    BY <1>0, WatchSlotBecame, WatchBecame, BoolFacts DEF WatchReturns, WatchSlots, WatchStates, slots, calls, tasks, closing
  <1> HIDE DEF j
  <1>j. call[w].job = j
    BY DEF j
  <1> USE DEF WatchSlotBecomes, Becomes, WatchBecomes
  <1>2. TypeOK'
    BY <1>0, <1>1, <1>j, SyncJobsAssumption DEF TypeOK, WatchSlots, WatchStates
  <1>3. \A v \in Watches : WatchOK(v)'
    BY <1>0, <1>1, <1>j DEF IndParts, WatchOK, Active, Alive
  <1>4. \A i \in Jobs : WatchSlotOK(i)'
    BY <1>0, <1>1, <1>j, Parts, SyncJobsAssumption DEF IndParts, WatchSlotOK, StopOK
  <1>5. \A i \in Jobs : MonitorOK(i)'
    BY <1>0, <1>1, <1>j DEF IndParts, MonitorOK, WatchedBy, StoppedBy, Registered
  <1> QED
    BY <1>1, <1>2, <1>3, <1>4, <1>5, Untouched DEF IndInv, Calls

\* The event stream closes.
LEMMA SessionEndsKeeps ==
    ASSUME IndInv, SessionEnds
    PROVE  IndInv'
  <1>0. IndParts /\ TypeOK
    BY Parts DEF IndParts
  <1>1. /\ up' = FALSE
        /\ UNCHANGED <<sync_jobs, status, cancel, launch, run, slot, wslot, call, watch, stop, shutdown,
                       todo, held, visiting>>
    BY <1>0, BoolFacts DEF SessionEnds, slots, calls, tasks, closing
  <1>2. TypeOK'
    BY <1>0, <1>1, SyncJobsAssumption DEF TypeOK
  <1>3. \A i \in Jobs : MonitorOK(i)'
    BY <1>0, <1>1 DEF IndParts, MonitorOK, WatchedBy, StoppedBy, Registered
  <1> QED
    BY <1>1, <1>2, <1>3, Untouched DEF IndInv, Calls

-----------------------------------------------------------------------------
(***************************************************************************)
(* stop_sync and stop_sync_watch.                                          *)
(***************************************************************************)

\* A stop finds a registered job; stop_sync cancels it.
LEMMA StopBeginsKeeps ==
    ASSUME IndInv, NEW c \in Calls, NEW p \in Profiles, StopBegins(c, p)
    PROVE  IndInv'
  <1> DEFINE j == sync_jobs[p]
  <1>0. IndParts /\ TypeOK /\ j \in Jobs
    BY Parts DEF IndParts, StopBegins, Calls, WatchOK, Alive, TypeOK
  <1>1. /\ stop[c].pc = "new" /\ shutdown = "open" /\ j \in Jobs
        /\ \/ c \in Stops /\ StopMoves(c, "take", j) /\ cancel' = cancel \cup {j}
           \/ c \notin Stops /\ StopMoves(c, "wtake", j) /\ UNCHANGED cancel
        /\ UNCHANGED <<sync_jobs, status, launch, run, slot, wslot, call, watch, shutdown, todo, held,
                       visiting, up>>
    <2>1. stop' = [stop EXCEPT ![c] = [pc |-> IF c \in Stops THEN "take" ELSE "wtake", job |-> j]]
      BY DEF StopBegins
    <2>2. StopMoves(c, IF c \in Stops THEN "take" ELSE "wtake", j)
      BY <1>0, <2>1 DEF TypeOK, StopMoves, StopPcs, Calls
    <2> QED
      BY <1>0, <2>2 DEF StopBegins, shutting_down, slots, tasks, closing
  <1> HIDE DEF j
  <1>j. sync_jobs[p] = j
    BY DEF j
  <1> USE DEF StopMoves
  <1>2. TypeOK'
    BY <1>0, <1>1, <1>j, SyncJobsAssumption DEF TypeOK, StopPcs, Calls
  <1>3. \A i \in Jobs : HandleOK(i)'
    BY <1>0, <1>1, <1>2, <1>j, Parts, Joiners DEF IndParts, HandleOK
  <1>4. \A d \in Calls : StopOK(d)'
    BY <1>0, <1>1, <1>j DEF IndParts, StopOK, Taken
  <1>5. ClosingInv'
    BY <1>0, <1>1, <1>j DEF IndParts, ClosingInv, Loose, Taken, Active, Registered
  <1>6. \A i \in Jobs : MonitorOK(i)'
    BY <1>0, <1>1, <1>j, Parts, SyncJobsAssumption DEF IndParts, Calls, MonitorOK, WatchSlotOK,
       WatchOK, RunOK, WatchedBy, StoppedBy, Registered, Alive, Unlaunched
  <1> QED
    BY <1>1, <1>2, <1>3, <1>4, <1>5, <1>6, Untouched DEF IndInv, Calls

\* The stop takes the handle of the run, if there is one.
LEMMA StopTakesRunKeeps ==
    ASSUME IndInv, NEW c \in Calls, StopTakesRun(c)
    PROVE  IndInv'
  <1> DEFINE j == stop[c].job
  <1>0. IndParts /\ TypeOK /\ j \in Jobs
    BY Parts DEF IndParts, StopTakesRun, Calls, WatchOK, Alive, TypeOK
  <1>1. /\ stop[c].pc = "take" /\ SlotBecomes(j, "Taken")
        /\ \/ slot[j] = "Published" /\ StopMoves(c, "join", j)
           \/ slot[j] # "Published" /\ StopMoves(c, "wtake", j)
        /\ UNCHANGED <<sync_jobs, status, cancel, launch, run, wslot, call, watch, shutdown, todo, held,
                       visiting, up>>
    BY <1>0, SlotBecame, StopMoved, BoolFacts DEF StopTakesRun, SlotStates, StopPcs, Calls, slots, calls, tasks, closing
  <1> HIDE DEF j
  <1>j. stop[c].job = j
    BY DEF j
  <1> USE DEF SlotBecomes, Becomes, StopMoves
  <1>2. TypeOK'
    <2>1. \A d \in Calls : stop'[d].pc # "new" => stop'[d].job \in Jobs
      BY <1>0, <1>1, <1>j, Parts
    <2> QED
      BY <1>0, <1>1, <2>1, SyncJobsAssumption DEF TypeOK, SlotStates, StopPcs, Calls
  <1>3. \A i \in Jobs : HandleOK(i)'
    BY <1>0, <1>1, <1>2, <1>j, Parts, SyncJobsAssumption, Joiners, SMTT(40) DEF IndParts, HandleOK,
       StopOK, RunOver, RunOK, Unlaunched
  <1>4. \A d \in Calls : StopOK(d)'
    BY <1>0, <1>1, <1>j, Parts, SyncJobsAssumption DEF IndParts, StopOK, HandleOK, Taken
  <1>5. ClosingInv'
    BY <1>0, <1>1, <1>j, Parts DEF IndParts, ClosingInv, Loose, Taken, Active, Registered
  <1>6. \A i \in Jobs : MonitorOK(i)'
    BY <1>0, <1>1, <1>j, Parts, SyncJobsAssumption DEF IndParts, Calls, MonitorOK, WatchSlotOK,
       WatchOK, RunOK, WatchedBy, StoppedBy, Registered, Alive, Unlaunched
  <1> QED
    BY <1>1, <1>2, <1>3, <1>4, <1>5, <1>6, Untouched DEF IndInv, Calls

\* The run it joins is over.
LEMMA StopJoinsKeeps ==
    ASSUME IndInv, NEW c \in Calls, StopJoins(c)
    PROVE  IndInv'
  <1> DEFINE j == stop[c].job
  <1>0. IndParts /\ TypeOK /\ j \in Jobs
    BY Parts DEF IndParts, StopJoins, Calls, WatchOK, Alive, TypeOK
  <1>1. /\ stop[c].pc = "join" /\ RunOver(j) /\ StopMoves(c, "wtake", j)
        /\ Marks(j, FALSE, status[j].monitoring, status[j].reconciliation_required) \/ Marks(j, status[j].running, status[j].monitoring, status[j].reconciliation_required)
        /\ UNCHANGED <<sync_jobs, cancel, launch, run, slot, wslot, call, watch, shutdown, todo, held,
                       visiting, up>>
    <2>1. status[j].running \in BOOLEAN
      BY <1>0 DEF TypeOK
    <2>2. CASE run[j] = "panicked"
      BY <1>0, <2>2, BoolFacts, MarksRunning, StopMoved DEF StopJoins, StopPcs, slots, tasks, closing
    <2>3. CASE run[j] # "panicked"
      BY <1>0, <2>1, <2>3, MarksRunning, StopMoved DEF StopJoins, StopPcs, slots, tasks, closing
    <2> QED
      BY <2>2, <2>3
  <1> HIDE DEF j
  <1>j. stop[c].job = j
    BY DEF j
  <1> USE DEF Marks, StopMoves
  <1>2. TypeOK'
    BY <1>0, <1>1, <1>j, SyncJobsAssumption, SMTT(40) DEF TypeOK, Statuses, StopPcs, Calls
  <1>3. \A i \in Jobs : RunOK(i)'
    BY <1>0, <1>1, <1>j, Parts, SyncJobsAssumption DEF IndParts, RunOK, StopOK, HandleOK,
       RunOver, RegistryInv, Active, Unlaunched
  <1>4. \A i \in Jobs : HandleOK(i)'
    BY <1>0, <1>1, <1>2, <1>j, Parts, SyncJobsAssumption, Joiners, SMTT(40) DEF IndParts, HandleOK,
       StopOK, RunOver, RunOK, Unlaunched
  <1>5. \A d \in Calls : StopOK(d)'
    BY <1>0, <1>1, <1>j DEF IndParts, StopOK, Taken
  <1>6. \A i \in Jobs : MonitorOK(i)'
    BY <1>0, <1>1, <1>j, Parts, SyncJobsAssumption DEF IndParts, Calls, MonitorOK, WatchSlotOK,
       WatchOK, RunOK, WatchedBy, StoppedBy, Registered, Alive, Unlaunched
  <1> QED
    BY <1>1, <1>2, <1>3, <1>4, <1>5, <1>6, Untouched DEF IndInv, Calls

\* The run it joins is aborted.
LEMMA StopAbortsKeeps ==
    ASSUME IndInv, NEW c \in Calls, StopAborts(c)
    PROVE  IndInv'
  <1> DEFINE j == stop[c].job
  <1>0. IndParts /\ TypeOK /\ j \in Jobs
    BY Parts DEF IndParts, StopAborts, Calls, WatchOK, Alive, TypeOK
  <1>1. /\ stop[c].pc = "join" /\ RunBecomes(j, "aborted") /\ StopMoves(c, "wtake", j)
        /\ UNCHANGED <<sync_jobs, status, cancel, launch, slot, wslot, call, watch, shutdown, todo, held,
                       visiting, up>>
    BY <1>0, RunBecame, StopMoved, BoolFacts DEF StopAborts, RunStates, StopPcs, Calls, slots, calls, tasks, closing
  <1> HIDE DEF j
  <1>j. stop[c].job = j
    BY DEF j
  <1> USE DEF RunBecomes, Becomes, StopMoves
  <1>2. TypeOK'
    BY <1>0, <1>1, <1>j, SyncJobsAssumption DEF TypeOK, RunStates, StopPcs, Calls
  <1>3. \A i \in Jobs : RunOK(i)'
    BY <1>0, <1>1, <1>j, Parts, SyncJobsAssumption DEF IndParts, RunOK, StopOK, HandleOK,
       RunOver, RegistryInv, Active, Unlaunched
  <1>4. \A v \in Watches : WatchOK(v)'
    BY <1>0, <1>1, <1>j, Parts DEF IndParts, WatchOK, Active, Alive
  <1>5. \A i \in Jobs : HandleOK(i)'
    BY <1>0, <1>1, <1>2, <1>j, Parts, Joiners DEF IndParts, HandleOK
  <1>6. \A d \in Calls : StopOK(d)'
    BY <1>0, <1>1, <1>j, Parts DEF IndParts, StopOK, Taken
  <1>7. ClosingInv'
    BY <1>0, <1>1, <1>j, Parts DEF IndParts, ClosingInv, Loose, Taken, RunOK, Active,
       Registered, Unlaunched
  <1>8. \A i \in Jobs : MonitorOK(i)'
    BY <1>0, <1>1, <1>j, Parts, SyncJobsAssumption DEF IndParts, Calls, MonitorOK, WatchSlotOK,
       WatchOK, RunOK, WatchedBy, StoppedBy, Registered, Alive, Unlaunched
  <1> QED
    BY <1>1, <1>2, <1>3, <1>4, <1>5, <1>6, <1>7, <1>8, Untouched DEF IndInv, Calls

\* The watch, if there is one, is aborted.
LEMMA StopTakesWatchKeeps ==
    ASSUME IndInv, NEW c \in Calls, StopTakesWatch(c)
    PROVE  IndInv'
  <1> DEFINE j == stop[c].job
  <1>0. IndParts /\ TypeOK /\ j \in Jobs
    BY Parts DEF IndParts, StopTakesWatch, Calls, WatchOK, Alive, TypeOK
  <1>1. /\ stop[c].pc = "wtake" /\ WatchSlotBecomes(j, "Taken")
        /\ watch' \in [Watches -> WatchStates]
        /\ \A v \in Watches : \/ watch'[v] = watch[v]
                              \/ watch'[v] = "aborted" /\ v = wslot[j]
        /\ \/ c \in Stops /\ StopMoves(c, "remove", j)
           \/ c \notin Stops /\ StopMoves(c, "clear", j)
        /\ UNCHANGED <<sync_jobs, status, cancel, launch, run, slot, call, shutdown, todo, held, visiting,
                       up>>
    <2>1. WatchSlotBecomes(j, "Taken")
      BY <1>0, WatchSlotBecame DEF StopTakesWatch, WatchSlots
    <2>2. /\ watch' \in [Watches -> WatchStates]
          /\ \A v \in Watches : \/ watch'[v] = watch[v]
                                \/ watch'[v] = "aborted" /\ v = wslot[j]
      BY <1>0 DEF StopTakesWatch, AbortWatch, TypeOK, WatchStates
    <2>3. StopMoves(c, IF c \in Stops THEN "remove" ELSE "clear", j)
      BY <1>0, StopMoved DEF StopTakesWatch, StopPcs
    <2> QED
      BY <2>1, <2>2, <2>3 DEF StopTakesWatch, closing
  <1> HIDE DEF j
  <1>j. stop[c].job = j
    BY DEF j
  <1> USE DEF WatchSlotBecomes, Becomes, StopMoves
  <1>2. TypeOK'
    <2>1. \A d \in Calls : stop'[d].pc # "new" => stop'[d].job \in Jobs
      BY <1>0, <1>1, <1>j, Parts
    <2> QED
      BY <1>0, <1>1, <2>1, SyncJobsAssumption DEF TypeOK, WatchSlots, WatchStates, StopPcs, Calls
  <1>3. \A v \in Watches : WatchOK(v)'
    BY <1>0, <1>1, <1>j DEF IndParts, WatchOK, Active, Alive
  <1>4. \A i \in Jobs : WatchSlotOK(i)'
    BY <1>0, <1>1, <1>j, Parts, SyncJobsAssumption DEF IndParts, WatchSlotOK, StopOK
  <1>5. \A i \in Jobs : HandleOK(i)'
    BY <1>0, <1>1, <1>2, <1>j, Parts, Joiners DEF IndParts, HandleOK
  <1>6. \A d \in Calls : StopOK(d)'
    BY <1>0, <1>1, <1>j DEF IndParts, StopOK, Taken
  <1>7. \A i \in Jobs : MonitorOK(i)'
    BY <1>0, <1>1, <1>j, Parts, SyncJobsAssumption DEF IndParts, Calls, MonitorOK, WatchSlotOK,
       WatchOK, RunOK, WatchedBy, StoppedBy, Registered, Alive, Unlaunched
  <1> QED
    BY <1>1, <1>2, <1>3, <1>4, <1>5, <1>6, <1>7, Untouched DEF IndInv, Calls

\* stop_sync removes the job it stopped.
LEMMA RemoveKeeps ==
    ASSUME IndInv, NEW c \in Calls, remove_sync_job_if_current(c)
    PROVE  IndInv'
  <1> DEFINE j == stop[c].job
  <1>0. IndParts /\ TypeOK /\ j \in Jobs
    BY Parts DEF IndParts, remove_sync_job_if_current, Calls, WatchOK, Alive, TypeOK
  <1>1. /\ stop[c].pc = "remove" /\ StopMoves(c, "returned", j)
        /\ sync_jobs' = [p \in Profiles |-> IF sync_jobs[p] = j THEN None ELSE sync_jobs[p]]
        /\ UNCHANGED <<status, cancel, launch, run, slot, wslot, call, watch, shutdown, todo, held,
                       visiting, up>>
    BY <1>0, StopMoved, BoolFacts DEF remove_sync_job_if_current, StopPcs, Calls, slots, calls, tasks, closing
  <1> HIDE DEF j
  <1>j. stop[c].job = j
    BY DEF j
  <1> USE DEF StopMoves
  <1>2. TypeOK'
    BY <1>0, <1>1, <1>j, SyncJobsAssumption, ZenonT(60) DEF TypeOK, StopPcs, Calls
  <1>3. RegistryInv'
    BY <1>0, <1>1, <1>j DEF IndParts, RegistryInv, Unlaunched
  <1>4. \A i \in Jobs : HandleOK(i)'
    BY <1>0, <1>1, <1>2, <1>j, Parts, Joiners DEF IndParts, HandleOK
  <1>5. \A d \in Calls : StopOK(d)'
    BY <1>0, <1>1, <1>j DEF IndParts, StopOK, Taken
  <1>6. ClosingInv'
    BY <1>0, <1>1, <1>j, Parts, SyncJobsAssumption DEF IndParts, ClosingInv, StopOK, Loose,
       Taken, RunOK, Active, Registered, Unlaunched
  <1>7. \A i \in Jobs : MonitorOK(i)'
    BY <1>0, <1>1, <1>j, Parts, SyncJobsAssumption DEF IndParts, Calls, MonitorOK, WatchSlotOK,
       WatchOK, RunOK, WatchedBy, StoppedBy, Registered, Alive, Unlaunched
  <1> QED
    BY <1>1, <1>2, <1>3, <1>4, <1>5, <1>6, <1>7, Untouched DEF IndInv, Calls

\* stop_sync_watch clears the flag.
LEMMA StopClearsKeeps ==
    ASSUME IndInv, NEW c \in Calls, StopClears(c)
    PROVE  IndInv'
  <1> DEFINE j == stop[c].job
  <1>0. IndParts /\ TypeOK /\ j \in Jobs
    BY Parts DEF IndParts, StopClears, Calls, WatchOK, Alive, TypeOK
  <1>1. /\ stop[c].pc = "clear" /\ StopMoves(c, "returned", j)
        /\ Marks(j, status[j].running, FALSE, status[j].reconciliation_required)
        /\ UNCHANGED <<sync_jobs, cancel, launch, run, slot, wslot, call, watch, shutdown, todo, held,
                       visiting, up>>
    BY <1>0, MarksMonitoring, StopMoved, BoolFacts DEF StopClears, StopPcs, Calls, slots, calls, tasks, closing
  <1> HIDE DEF j
  <1>j. stop[c].job = j
    BY DEF j
  <1> USE DEF Marks, StopMoves
  <1>2. TypeOK'
    BY <1>0, <1>1, <1>j, SyncJobsAssumption, ZenonT(60) DEF TypeOK, Statuses, StopPcs, Calls
  <1>3. \A i \in Jobs : RunOK(i)'
    BY <1>0, <1>1, <1>j DEF IndParts, RunOK, Active
  <1>4. \A i \in Jobs : HandleOK(i)'
    BY <1>0, <1>1, <1>2, <1>j, Parts, Joiners DEF IndParts, HandleOK
  <1>5. \A d \in Calls : StopOK(d)'
    BY <1>0, <1>1, <1>j DEF IndParts, StopOK, Taken
  <1>6. \A i \in Jobs : MonitorOK(i)'
    BY <1>0, <1>1, <1>j, Parts, SyncJobsAssumption DEF IndParts, Calls, MonitorOK, WatchSlotOK,
       WatchOK, RunOK, WatchedBy, StoppedBy, Registered, Alive, Unlaunched
  <1> QED
    BY <1>1, <1>2, <1>3, <1>4, <1>5, <1>6, Untouched DEF IndInv, Calls

-----------------------------------------------------------------------------
(***************************************************************************)
(* shutdown.                                                               *)
(***************************************************************************)

\* shutdown begins.
LEMMA ShutdownFlagKeeps ==
    ASSUME IndInv, ShutdownFlag
    PROVE  IndInv'
  <1>0. IndParts /\ TypeOK
    BY Parts DEF IndParts
  <1>1. /\ shutdown = "open" /\ shutdown' = "flag"
        /\ UNCHANGED <<sync_jobs, status, cancel, launch, run, slot, wslot, call, watch, stop, todo, held,
                       visiting, up>>
    BY <1>0, BoolFacts DEF ShutdownFlag, slots, calls, tasks, closing
  <1>2. TypeOK'
    BY <1>0, <1>1, SyncJobsAssumption DEF TypeOK
  <1>3. ClosingInv'
    BY <1>0, <1>1 DEF IndParts, ClosingInv, Loose, Taken, Active, Registered
  <1>4. \A i \in Jobs : MonitorOK(i)'
    BY <1>0, <1>1 DEF IndParts, MonitorOK, WatchedBy, StoppedBy, Registered
  <1> QED
    BY <1>1, <1>2, <1>3, <1>4, Untouched DEF IndInv, Calls

\* The registered jobs are listed.
LEMMA ShutdownListsKeeps ==
    ASSUME IndInv, ShutdownLists
    PROVE  IndInv'
  <1>0. IndParts /\ TypeOK
    BY Parts DEF IndParts
  <1>1. /\ shutdown = "flag" /\ shutdown' = "take"
        /\ todo' = {j \in Jobs : Registered(j)}
        /\ UNCHANGED <<sync_jobs, status, cancel, launch, run, slot, wslot, call, watch, stop, held,
                       visiting, up>>
    BY <1>0, BoolFacts DEF ShutdownLists, slots, calls, tasks, closing
  <1>2. TypeOK'
    BY <1>0, <1>1, SyncJobsAssumption DEF TypeOK
  <1>3. ClosingInv'
    BY <1>0, <1>1 DEF IndParts, ClosingInv, Loose, Taken, Active, Registered
  <1>4. \A i \in Jobs : MonitorOK(i)'
    BY <1>0, <1>1 DEF IndParts, MonitorOK, WatchedBy, StoppedBy, Registered
  <1> QED
    BY <1>1, <1>2, <1>3, <1>4, Untouched DEF IndInv, Calls

\* A job is cancelled and the handle of its run taken.
LEMMA ShutdownTakesRunKeeps ==
    ASSUME IndInv, NEW j \in Jobs, ShutdownTakesRun(j)
    PROVE  IndInv'
  <1>0. IndParts /\ TypeOK
    BY Parts DEF IndParts
  <1>1. /\ shutdown = "take" /\ visiting = None /\ j \in todo
        /\ visiting' = j /\ cancel' = cancel \cup {j} /\ SlotBecomes(j, "Taken")
        /\ \/ slot[j] = "Published" /\ held' = held \cup {j}
           \/ slot[j] # "Published" /\ UNCHANGED held
        /\ UNCHANGED <<sync_jobs, status, launch, run, wslot, call, watch, stop, shutdown, todo, up>>
    BY <1>0, SlotBecame, BoolFacts DEF ShutdownTakesRun, SlotStates, slots, calls, tasks, closing
  <1> USE DEF SlotBecomes, Becomes
  <1>2. TypeOK'
    BY <1>0, <1>1, SyncJobsAssumption DEF TypeOK, SlotStates
  <1>3. \A i \in Jobs : HandleOK(i)'
    BY <1>0, <1>1, <1>2, Joiners DEF IndParts, HandleOK
  <1>4. \A d \in Calls : StopOK(d)'
    BY <1>0, <1>1, Parts DEF IndParts, StopOK, Taken
  <1>5. ClosingInv'
    BY <1>0, <1>1 DEF IndParts, ClosingInv, Loose, Taken, Active, Registered
  <1> QED
    BY <1>1, <1>2, <1>3, <1>4, <1>5, Untouched DEF IndInv, Calls

\* The handle of its watch is taken.
LEMMA ShutdownTakesWatchKeeps ==
    ASSUME IndInv, NEW j \in Jobs, ShutdownTakesWatch(j)
    PROVE  IndInv'
  <1>0. IndParts /\ TypeOK
    BY Parts DEF IndParts
  <1>1. /\ shutdown = "take" /\ visiting = j
        /\ visiting' = None /\ todo' = todo \ {j} /\ WatchSlotBecomes(j, "Taken")
        /\ held \subseteq held' /\ held' \subseteq held \cup Watches
        /\ UNCHANGED <<sync_jobs, status, cancel, launch, run, slot, call, watch, stop, shutdown, up>>
    BY <1>0, WatchSlotBecame, BoolFacts DEF ShutdownTakesWatch, WatchSlots, slots, calls, tasks, closing
  <1> USE DEF WatchSlotBecomes, Becomes
  <1>2. TypeOK'
    BY <1>0, <1>1, SyncJobsAssumption DEF TypeOK, WatchSlots
  <1>3. \A i \in Jobs : WatchSlotOK(i)'
    BY <1>0, <1>1, Parts, SyncJobsAssumption DEF IndParts, WatchSlotOK, StopOK
  <1>4. \A i \in Jobs : HandleOK(i)'
    BY <1>0, <1>1, <1>2, Parts, SyncJobsAssumption, Joiners DEF IndParts, HandleOK, StopOK,
       RunOver, RunOK, Unlaunched
  <1>5. ClosingInv'
    BY <1>0, <1>1, Parts, SyncJobsAssumption DEF IndParts, ClosingInv, StopOK, Loose, Taken,
       RunOK, Active, Registered, Unlaunched
  <1> QED
    BY <1>1, <1>2, <1>3, <1>4, <1>5, Untouched DEF IndInv, Calls

\* A handle is joined or aborted.
LEMMA ShutdownJoinsKeeps ==
    ASSUME IndInv, NEW h \in Jobs \cup Watches, ShutdownJoins(h)
    PROVE  IndInv'
  <1>0. IndParts /\ TypeOK
    BY Parts DEF IndParts
  <1>1. /\ shutdown = "take" /\ todo = {} /\ h \in held /\ held' = held \ {h}
        /\ run' \in [Jobs -> RunStates] /\ watch' \in [Watches -> WatchStates]
        /\ \A i \in Jobs : IF i = h THEN run'[i] \in {"done", "panicked", "aborted"} ELSE run'[i] = run[i]
        /\ \A v \in Watches : watch'[v] \in {watch[v], "aborted"}
        /\ UNCHANGED <<sync_jobs, status, cancel, launch, slot, wslot, call, stop, shutdown, todo,
                       visiting, up>>
    BY <1>0, BoolFacts DEF ShutdownJoins, AbortWatch, RunOver, RunStates, WatchStates, TypeOK, slots, calls, tasks,
       closing
  <1>2. TypeOK'
    BY <1>0, <1>1, SyncJobsAssumption DEF TypeOK
  <1>3. \A i \in Jobs : RunOK(i)'
    BY <1>0, <1>1, Parts, SyncJobsAssumption DEF IndParts, RunOK, StopOK, HandleOK, RunOver,
       RegistryInv, Active, Unlaunched
  <1>4. \A v \in Watches : WatchOK(v)'
    BY <1>0, <1>1, Parts DEF IndParts, WatchOK, Active, Alive
  <1>5. \A i \in Jobs : HandleOK(i)'
    BY <1>0, <1>1, <1>2, Joiners DEF IndParts, HandleOK
  <1>6. \A d \in Calls : StopOK(d)'
    BY <1>0, <1>1, Parts DEF IndParts, StopOK, Taken
  <1>7. ClosingInv'
    BY <1>0, <1>1 DEF IndParts, ClosingInv, Loose, Taken, RunOK, Active, Registered, Unlaunched
  <1>8. \A i \in Jobs : MonitorOK(i)'
    BY <1>0, <1>1 DEF IndParts, MonitorOK, WatchedBy, StoppedBy, Registered
  <1> QED
    BY <1>1, <1>2, <1>3, <1>4, <1>5, <1>6, <1>7, <1>8, Untouched DEF IndInv, Calls

\* The registry is cleared.
LEMMA ShutdownClearsKeeps ==
    ASSUME IndInv, ShutdownClears
    PROVE  IndInv'
  <1>0. IndParts /\ TypeOK
    BY Parts DEF IndParts
  <1>1. /\ shutdown = "take" /\ todo = {} /\ held = {} /\ shutdown' = "done"
        /\ sync_jobs' = [p \in Profiles |-> None]
        /\ UNCHANGED <<status, cancel, launch, run, slot, wslot, call, watch, stop, todo, held, visiting,
                       up>>
    BY <1>0, BoolFacts DEF ShutdownClears, slots, calls, tasks, closing
  <1>2. TypeOK'
    BY <1>0, <1>1, SyncJobsAssumption DEF TypeOK
  <1>3. RegistryInv'
    BY <1>0, <1>1 DEF IndParts, RegistryInv, Unlaunched
  <1>4. ClosingInv'
    BY <1>0, <1>1 DEF IndParts, ClosingInv, Loose, Taken, Active, Registered
  <1>5. \A i \in Jobs : MonitorOK(i)'
    BY <1>0, <1>1 DEF IndParts, MonitorOK, WatchedBy, StoppedBy, Registered
  <1> QED
    BY <1>1, <1>2, <1>3, <1>4, <1>5, Untouched DEF IndInv, Calls
-----------------------------------------------------------------------------
(***************************************************************************)
(* The invariant and what follows from it.                                 *)
(***************************************************************************)
\* Before the first call no job is registered, launched, watched or stopped.
LEMMA InitInv == Init => IndInv
  <1> SUFFICES ASSUME Init PROVE IndInv
    OBVIOUS
  <1>1. TypeOK
    BY SyncJobsAssumption DEF Init, TypeOK, Fresh
  <1>2. RegistryInv /\ ClosingInv
    BY SyncJobsAssumption DEF Init, RegistryInv, ClosingInv, Loose, Active, Unlaunched
  <1>3. \A j \in Jobs : RunOK(j) /\ HandleOK(j) /\ WatchSlotOK(j) /\ MonitorOK(j)
    BY SyncJobsAssumption DEF Init, Fresh, RunOK, HandleOK, WatchSlotOK, MonitorOK, Active, Unlaunched
  <1>4. \A w \in Watches : WatchOK(w)
    BY DEF Init, WatchOK, Alive
  <1>5. \A c \in Stops \cup Unwatches : StopOK(c)
    BY DEF Init, StopOK
  <1> QED
    BY <1>1, <1>2, <1>3, <1>4, <1>5 DEF IndInv

\* Every step of start_sync and of run_sync_job keeps the invariant.
LEMMA JobStepKeeps ==
    ASSUME IndInv, NEW j \in Jobs, JobStep(j)
    PROVE  IndInv'
  BY StartSyncKeeps, RegisterKeeps, PublishRunKeeps, ReleaseRunKeeps, RunStartsKeeps,
     RunSucceedsKeeps, RunFailsKeeps, RunPanicsKeeps, RunReturnsKeeps DEF JobStep

\* Every step of watch_sync and of run_sync_watch keeps the invariant.
LEMMA WatchStepKeeps ==
    ASSUME IndInv, NEW w \in Watches, WatchStep(w)
    PROVE  IndInv'
  BY WatchLookupKeeps, ReserveKeeps, WatchSessionKeeps, MonitorRefusedKeeps, PublishWatchKeeps,
     ReleaseWatchKeeps, WatchStartsKeeps, WatchFailsKeeps, WatchExitsKeeps, WatchReturnsKeeps
     DEF WatchStep

\* Every step of stop_sync and of unwatch_sync keeps the invariant.
LEMMA StopStepKeeps ==
    ASSUME IndInv, NEW c \in Calls, StopStep(c)
    PROVE  IndInv'
  BY StopTakesRunKeeps, StopJoinsKeeps, StopAbortsKeeps, StopTakesWatchKeeps, RemoveKeeps,
     StopClearsKeeps DEF StopStep

\* Every step of shutdown_sync_jobs keeps the invariant.
LEMMA ShutdownStepKeeps ==
    ASSUME IndInv, ShutdownStep
    PROVE  IndInv'
  BY ShutdownListsKeeps, ShutdownTakesRunKeeps, ShutdownTakesWatchKeeps, ShutdownJoinsKeeps,
     ShutdownClearsKeeps DEF ShutdownStep

\* Every step of every call and task keeps the invariant.
LEMMA NextInv == IndInv /\ [Next]_vars => IndInv'
  <1> SUFFICES ASSUME IndInv, [Next]_vars PROVE IndInv'
    OBVIOUS
  <1>1. CASE Next
    <2>1. ASSUME NEW j \in Jobs, JobStep(j) PROVE IndInv'
      BY <2>1, JobStepKeeps
    <2>2. ASSUME NEW w \in Watches, WatchStep(w) PROVE IndInv'
      BY <2>2, WatchStepKeeps
    <2>3. ASSUME NEW c \in Calls, StopStep(c) PROVE IndInv'
      BY <2>3, StopStepKeeps
    <2>4. ASSUME NEW c \in Calls, NEW p \in Profiles, StopBegins(c, p) PROVE IndInv'
      BY <2>4, StopBeginsKeeps
    <2>5. ASSUME SessionEnds \/ ShutdownFlag \/ ShutdownStep PROVE IndInv'
      BY <2>5, SessionEndsKeeps, ShutdownFlagKeeps, ShutdownStepKeeps
    <2> QED
      BY <1>1, <2>1, <2>2, <2>3, <2>4, <2>5 DEF Next, Calls
  <1>2. CASE UNCHANGED vars
    <2>1. UNCHANGED <<sync_jobs, status, cancel, launch, run, slot, wslot, call, watch, stop, shutdown,
                      todo, held, visiting, up>>
      BY <1>2 DEF vars, slots, calls, tasks, closing
    <2>2. TypeOK'
      BY <2>1, Parts DEF IndParts, TypeOK
    <2> QED
      BY <2>1, <2>2, Untouched DEF IndInv, Calls
  <1> QED
    BY <1>1, <1>2

\* Runs count as running until they are over, handles are in their slots or with someone who
\* joins them, stop and shutdown reach every run, and a watched job has a watch or a stop.
THEOREM SyncJobsInvariant == Spec => []IndInv
  BY InitInv, NextInv, PTL DEF Spec

\* The run task and the watch task of a job exclude each other: reserve_sync_watch refuses a job
\* that counts as running, and a job counts as running until its run is over.
THEOREM RunsExcludeWatches == Spec => []RunXorWatch
  <1>1. IndInv => RunXorWatch
    BY DEF IndInv, TypeOK, WatchOK, RunXorWatch, Active
  <1> QED
    BY <1>1, SyncJobsInvariant, PTL

\* Neither a stop_sync nor a shutdown that returned leaves a run at work behind its back: the
\* token was set before the run looked at it, or the handle was in the slot when it was taken.
THEOREM StopsAreFinal == Spec => []NoRunOutlivesStop
  <1>1. IndInv => TypeOK
    BY DEF IndInv
  <1>2. IndInv => StopMeansStopped
    BY DEF IndInv, TypeOK, StopMeansStopped, StopOK, Taken, HandleOK
  <1>3. IndInv => ShutdownMeansStopped
    BY DEF IndInv, ShutdownMeansStopped, ClosingInv, Loose, Active, HandleOK
  <1> QED
    BY <1>1, <1>2, <1>3, SyncJobsInvariant, PTL DEF NoRunOutlivesStop

\* While the session lives, a registered profile that counts as watched has a watch, one being
\* activated, or a stop at work on it: no failed activation leaves the flag behind.
THEOREM MonitoringIsReal == Spec => []WatchedMeansWatching
  <1>1. IndInv => WatchedMeansWatching
    BY DEF IndInv, MonitorOK, WatchedBy, StoppedBy, WatchedMeansWatching, Alive
  <1> QED
    BY <1>1, SyncJobsInvariant, PTL
=============================================================================
