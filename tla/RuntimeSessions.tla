-------------------------- MODULE RuntimeSessions --------------------------
(***************************************************************************)
(* Sessions, transfer launches and shutdown of HandShakerRuntime           *)
(* (handshaker-application, runtime.rs) over the transfer registry.        *)
(*                                                                         *)
(* Concurrent actors: the launchers (start_download, start_upload,         *)
(* start_batch_plan), the background tasks they spawn, requests, users     *)
(* that cancel, the event bridge of a session, mark_connection_lost        *)
(* wherever it is called, the closer of each session (disconnect or        *)
(* shutdown) and shutdown itself.  A session is connected once and a       *)
(* transfer is started once; ids are never reused.                         *)
(***************************************************************************)
EXTENDS TransferRegistry

CONSTANTS
    Batches,    \* transfers started by start_batch_plan
    Losable     \* sessions whose connection may be lost

ASSUME RuntimeSessionsAssumption ==
    /\ Batches \subseteq TransferIds
    /\ Losable \subseteq SessionIds

VARIABLES
    launch,     \* where the call that starts each transfer is
    cancelling, \* cancel() calls between token.cancel() and their transition
    registered, \* keys of RuntimeInner.sessions
    sess,       \* ActiveSession.state
    calls,      \* sessions with a request() in flight, which holds the client
    marking,    \* mark_connection_lost of each session
    closing,    \* close_session of each session
    todo,       \* entries cancel_for_session has yet to visit
    joins,      \* JoinHandles a closer holds
    outcome,    \* how the core client was let go
    shutdown,   \* where shutdown() is
    stops,      \* transfers shutdown has yet to cancel
    mine        \* sessions shutdown took out of the map

sessions == <<registered, sess, calls, marking, closing, todo, joins, outcome>>
stopping == <<shutdown, stops, mine>>
vars == <<registry, task, launch, cancelling, sessions, stopping>>

shutting_down == shutdown # "open"

Init ==
    /\ RegistryInit
    /\ launch = [t \in TransferIds |-> "idle"]
    /\ cancelling = {}
    /\ registered = {}
    /\ sess = [s \in SessionIds |-> "none"]
    /\ calls = {}
    /\ marking = [s \in SessionIds |-> "no"]
    /\ closing = [s \in SessionIds |-> "no"]
    /\ todo = [s \in SessionIds |-> {}]
    /\ joins = [s \in SessionIds |-> {}]
    /\ outcome = [s \in SessionIds |-> "open"]
    /\ shutdown = "open"
    /\ stops = {}
    /\ mine = {}

-----------------------------------------------------------------------------
(***************************************************************************)
(* connect inserts the session under the sessions lock, with the flag      *)
(* checked again.                                                          *)
(***************************************************************************)
Connect(s) ==
    /\ ~shutting_down
    /\ sess[s] = "none"
    /\ sess' = [sess EXCEPT ![s] = "Ready"]
    /\ registered' = registered \cup {s}
    /\ UNCHANGED <<registry, task, launch, cancelling, calls, marking, closing, todo, joins,
                   outcome, stopping>>

(***************************************************************************)
(* A launch: gate (single transfers only), flag, session lookup; state     *)
(* check; register; spawn; publish and return.  A refused launch returns.  *)
(***************************************************************************)
launching(t) == launch[t] \notin {"idle", "returned"}

\* Mutant of gate_readers: the guard is dropped where it is taken.
gate_readers_dropped == {}

\* Launchers that hold launch_gate.read().
gate_readers == {t \in TransferIds \ Batches : launching(t)}

\* launch_gate.read() (free as long as shutdown is open), ensure_open and the
\* lookup of session_handle, which clones the session's Arc.
Start(t) ==
    /\ launch[t] = "idle"
    /\ ~shutting_down
    /\ SessionOf[t] \in registered
    /\ launch' = [launch EXCEPT ![t] = "looked"]
    /\ UNCHANGED <<registry, task, cancelling, sessions, stopping>>

\* session_handle's check of the state, after the sessions lock was released.
Admit(t) ==
    /\ launch[t] = "looked"
    /\ launch' = [launch EXCEPT ![t] =
                     IF sess[SessionOf[t]] = "Ready" THEN "admitted" ELSE "returned"]
    /\ UNCHANGED <<registry, task, cancelling, sessions, stopping>>

Register(t) ==
    /\ launch[t] = "admitted"
    /\ register(t)
    /\ launch' = [launch EXCEPT ![t] = "registered"]
    /\ UNCHANGED <<cancelling, sessions, stopping>>

Spawn(t) ==
    /\ launch[t] = "registered"
    /\ task' = [task EXCEPT ![t] = "ready"]
    /\ launch' = [launch EXCEPT ![t] = "spawned"]
    /\ UNCHANGED <<registry, cancelling, sessions, stopping>>

\* The slot takes the handle, whatever it held; the session's Arc and the gate
\* are released as the call returns.
Publish(t) ==
    /\ launch[t] = "spawned"
    /\ slot' = [slot EXCEPT ![t] = "Published"]
    /\ launch' = [launch EXCEPT ![t] = "returned"]
    /\ UNCHANGED <<entries, state, token, task, cancelling, sessions, stopping>>

-----------------------------------------------------------------------------
(***************************************************************************)
(* The background task of a transfer.                                      *)
(***************************************************************************)
TaskStep(t, next) ==
    /\ task' = [task EXCEPT ![t] = next]
    /\ UNCHANGED <<entries, token, slot, launch, cancelling, sessions, stopping>>

TaskRuns(t) ==
    /\ task[t] = "ready"
    /\ state' = transition(t, "Running")
    /\ TaskStep(t, "running")

TaskProgresses(t) ==
    /\ task[t] = "running"
    /\ state' = set_progress(t)
    /\ TaskStep(t, "running")

\* Ok, or an error that leaves the connection usable.  A cancellation by the
\* phone makes a single transfer Cancelled and a batch Failed.
TaskEnds(t) ==
    /\ task[t] = "running"
    /\ \E end \in IF t \in Batches THEN {"Completed", "Failed"} ELSE Terminal :
           state' = transition(t, end)
    /\ TaskStep(t, "done")

\* The core call saw the token.  A batch leaves the transition to the canceller;
\* a cancelled download closes its connection.
TaskCancelled(t) ==
    /\ task[t] = "running" /\ token[t]
    /\ state' = IF t \in Batches THEN state ELSE transition(t, "Cancelled")
    /\ \/ TaskStep(t, "done")
       \/ t \notin Batches /\ SessionOf[t] \in Losable /\ TaskStep(t, "losing")

\* A transport error.
TaskLosesConnection(t) ==
    /\ task[t] = "running" /\ SessionOf[t] \in Losable
    /\ state' = transition(t, "Failed")
    /\ TaskStep(t, "losing")

-----------------------------------------------------------------------------
(***************************************************************************)
(* mark_connection_lost.                                                   *)
(***************************************************************************)

\* The session is still registered and Ready: the CAS to Failed succeeds.
MarkFailed(s) ==
    /\ s \in registered /\ sess[s] = "Ready"
    /\ sess' = [sess EXCEPT ![s] = "Failed"]
    /\ marking' = [marking EXCEPT ![s] = "cancelling"]
    /\ todo' = [todo EXCEPT ![s] = OfSession(s)]

CannotMark(s) == s \notin registered \/ sess[s] # "Ready"

\* The task that lost the connection is first to say so, or not.
TaskMarks(t) ==
    /\ task[t] = "losing"
    /\ MarkFailed(SessionOf[t])
    /\ task' = [task EXCEPT ![t] = "marking"]
    /\ UNCHANGED <<registry, launch, cancelling, registered, calls, closing, joins, outcome,
                   stopping>>

TaskReturns(t) ==
    /\ \/ task[t] = "losing" /\ CannotMark(SessionOf[t])
       \/ task[t] = "marking" /\ marking[SessionOf[t]] = "done"
    /\ task' = [task EXCEPT ![t] = "done"]
    /\ UNCHANGED <<registry, launch, cancelling, sessions, stopping>>

\* run_event_bridge: the core event stream closed while the session was idle.
BridgeMarks(s) ==
    /\ s \in Losable
    /\ MarkFailed(s)
    /\ UNCHANGED <<registry, task, launch, cancelling, registered, calls, closing, joins,
                   outcome, stopping>>

\* request: borrows the client for the length of a core call.
Call(s) ==
    /\ ~shutting_down
    /\ s \in registered /\ sess[s] = "Ready" /\ s \notin calls
    /\ calls' = calls \cup {s}
    /\ UNCHANGED <<registry, task, launch, cancelling, registered, sess, marking, closing, todo,
                   joins, outcome, stopping>>

CallReturns(s) ==
    /\ s \in calls
    /\ calls' = calls \ {s}
    /\ UNCHANGED <<registry, task, launch, cancelling, registered, sess, marking, closing, todo,
                   joins, outcome, stopping>>

\* The core call failed with a transport error.
CallMarks(s) ==
    /\ s \in calls /\ s \in Losable
    /\ MarkFailed(s)
    /\ calls' = calls \ {s}
    /\ UNCHANGED <<registry, task, launch, cancelling, registered, closing, joins, outcome,
                   stopping>>

\* cancel_for_session, whose handles mark_connection_lost drops.
MarkEntry(s, t) ==
    /\ marking[s] = "cancelling" /\ t \in todo[s]
    /\ cancel_entry(t)
    /\ todo' = [todo EXCEPT ![s] = @ \ {t}]
    /\ UNCHANGED <<task, launch, cancelling, registered, sess, calls, marking, closing, joins,
                   outcome, stopping>>

MarkDone(s) ==
    /\ marking[s] = "cancelling" /\ todo[s] = {}
    /\ marking' = [marking EXCEPT ![s] = "done"]
    /\ UNCHANGED <<registry, task, launch, cancelling, registered, sess, calls, closing, todo,
                   joins, outcome, stopping>>

-----------------------------------------------------------------------------
(***************************************************************************)
(* cancel_transfer and list_transfers.                                     *)
(***************************************************************************)

\* Mutant of CancelTransfer: the transition is left to the task.
CancelTransferTokenOnly(t) ==
    /\ ~shutting_down
    /\ t \in entries
    /\ token' = [token EXCEPT ![t] = TRUE]
    /\ UNCHANGED <<entries, state, slot, task, launch, cancelling, sessions, stopping>>

\* cancel_transfer, up to token.cancel().
CancelTransfer(t) ==
    /\ ~shutting_down
    /\ t \in entries
    /\ token' = [token EXCEPT ![t] = TRUE]
    /\ cancelling' = cancelling \cup {t}
    /\ UNCHANGED <<entries, state, slot, task, launch, sessions, stopping>>

\* The transition comes after the registry lock was released and taken again.
CancelTransition(t) ==
    /\ t \in cancelling
    /\ state' = transition(t, "Cancelled")
    /\ cancelling' = cancelling \ {t}
    /\ UNCHANGED <<entries, token, slot, task, launch, sessions, stopping>>

ListTransfers ==
    /\ ~shutting_down
    /\ reap
    /\ UNCHANGED <<launch, cancelling, sessions, stopping>>

-----------------------------------------------------------------------------
(***************************************************************************)
(* close_session, called by disconnect and by shutdown.                    *)
(***************************************************************************)

\* disconnect takes the session out of the map.
Disconnect(s) ==
    /\ ~shutting_down
    /\ s \in registered
    /\ registered' = registered \ {s}
    /\ closing' = [closing EXCEPT ![s] = "removed"]
    /\ UNCHANGED <<registry, task, launch, cancelling, sess, calls, marking, todo, joins,
                   outcome, stopping>>

\* A Failed session is not closed again.
CloseFailed(s) ==
    /\ closing[s] = "removed" /\ sess[s] = "Failed"
    /\ closing' = [closing EXCEPT ![s] = "closed"]
    /\ outcome' = [outcome EXCEPT ![s] = "dropped"]
    /\ UNCHANGED <<registry, task, launch, cancelling, registered, sess, calls, marking, todo,
                   joins, stopping>>

\* CAS to Disconnecting, and cancel_for_session lists the session's entries.
CloseBegins(s) ==
    /\ closing[s] = "removed" /\ sess[s] = "Ready"
    /\ sess' = [sess EXCEPT ![s] = "Disconnecting"]
    /\ closing' = [closing EXCEPT ![s] = "cancelling"]
    /\ todo' = [todo EXCEPT ![s] = OfSession(s)]
    /\ UNCHANGED <<registry, task, launch, cancelling, registered, calls, marking, joins,
                   outcome, stopping>>

CloseEntry(s, t) ==
    /\ closing[s] = "cancelling" /\ t \in todo[s]
    /\ cancel_entry(t)
    /\ joins' = [joins EXCEPT ![s] = @ \cup taken_handle(t)]
    /\ todo' = [todo EXCEPT ![s] = @ \ {t}]
    /\ UNCHANGED <<task, launch, cancelling, registered, sess, calls, marking, closing, outcome,
                   stopping>>

\* Mutant of JoinTask: no deadline, no abort.
JoinTaskUnbounded(s, t) ==
    /\ closing[s] = "cancelling" /\ todo[s] = {} /\ t \in joins[s]
    /\ ~Live(t)
    /\ joins' = [joins EXCEPT ![s] = @ \ {t}]
    /\ UNCHANGED <<registry, task, launch, cancelling, registered, sess, calls, marking, closing,
                   todo, outcome, stopping>>

\* The task ended within SESSION_CLOSE_DEADLINE, or it is aborted and awaited.
JoinTask(s, t) ==
    /\ closing[s] = "cancelling" /\ todo[s] = {} /\ t \in joins[s]
    /\ task' = [task EXCEPT ![t] = "done"]
    /\ joins' = [joins EXCEPT ![s] = @ \ {t}]
    /\ UNCHANGED <<registry, launch, cancelling, registered, sess, calls, marking, closing, todo,
                   outcome, stopping>>

\* Mutant of session_borrowed: the closer takes itself for the only owner.
session_borrowed_never(s) == FALSE

\* Arc::try_unwrap of the session, then of its client.
session_borrowed(s) == \E t \in TransferIds : SessionOf[t] = s /\ launching(t)
client_borrowed(s) == s \in calls \/ \E t \in TransferIds : SessionOf[t] = s /\ Live(t)

CloseClient(s) ==
    /\ closing[s] = "cancelling" /\ todo[s] = {} /\ joins[s] = {}
    /\ closing' = [closing EXCEPT ![s] = "closed"]
    /\ outcome' = [outcome EXCEPT ![s] =
                      IF session_borrowed(s) \/ client_borrowed(s) THEN "borrowed" ELSE "quit"]
    /\ UNCHANGED <<registry, task, launch, cancelling, registered, sess, calls, marking, todo,
                   joins, stopping>>

-----------------------------------------------------------------------------
(***************************************************************************)
(* shutdown.                                                               *)
(***************************************************************************)
ShutdownFlag ==
    /\ shutdown = "open"
    /\ shutdown' = "flagged"
    /\ UNCHANGED <<registry, task, launch, cancelling, sessions, stops, mine>>

\* launch_gate.write(), held until the end, and list().
ShutdownGate ==
    /\ shutdown = "flagged"
    /\ gate_readers = {}
    /\ shutdown' = "cancelling"
    /\ stops' = entries
    /\ UNCHANGED <<registry, task, launch, cancelling, sessions, mine>>

ShutdownCancels(t) ==
    /\ shutdown = "cancelling" /\ t \in stops
    /\ token' = [token EXCEPT ![t] = t \in entries \/ @]
    /\ state' = transition(t, "Cancelled")
    /\ stops' = stops \ {t}
    /\ UNCHANGED <<entries, slot, task, launch, cancelling, sessions, shutdown, mine>>

\* mem::take of the session map; one closer for each session.
ShutdownTakesSessions ==
    /\ shutdown = "cancelling" /\ stops = {}
    /\ shutdown' = "closing"
    /\ mine' = registered
    /\ registered' = {}
    /\ closing' = [s \in SessionIds |-> IF s \in registered THEN "removed" ELSE closing[s]]
    /\ UNCHANGED <<registry, task, launch, cancelling, sess, calls, marking, todo, joins,
                   outcome, stops>>

ShutdownReturns ==
    /\ shutdown = "closing"
    /\ \A s \in mine : closing[s] = "closed"
    /\ shutdown' = "done"
    /\ UNCHANGED <<registry, task, launch, cancelling, sessions, stops, mine>>

-----------------------------------------------------------------------------
Launcher(t) == Admit(t) \/ Register(t) \/ Spawn(t) \/ Publish(t)

Task(t) ==
    \/ TaskRuns(t) \/ TaskProgresses(t) \/ TaskEnds(t) \/ TaskCancelled(t)
    \/ TaskLosesConnection(t) \/ TaskMarks(t) \/ TaskReturns(t)

Marker(s) == MarkDone(s) \/ \E t \in TransferIds : MarkEntry(s, t)

Closer(s) ==
    \/ CloseFailed(s) \/ CloseBegins(s) \/ CloseClient(s)
    \/ \E t \in TransferIds : CloseEntry(s, t) \/ JoinTask(s, t)

Shutdown ==
    \/ ShutdownGate \/ ShutdownTakesSessions \/ ShutdownReturns
    \/ \E t \in TransferIds : ShutdownCancels(t)

Next ==
    \/ \E t \in TransferIds :
        \/ Start(t) \/ Launcher(t) \/ Task(t)
        \/ CancelTransfer(t) \/ CancelTransition(t)
    \/ \E s \in SessionIds :
        \/ Connect(s) \/ Disconnect(s) \/ Closer(s)
        \/ BridgeMarks(s) \/ Call(s) \/ CallReturns(s) \/ CallMarks(s) \/ Marker(s)
    \/ ListTransfers \/ ShutdownFlag \/ Shutdown

Spec == Init /\ [][Next]_vars

(***************************************************************************)
(* Launchers, closers, markers and shutdown run no unbounded wait of their *)
(* own: they take locks held for short critical sections and wait at most  *)
(* SESSION_CLOSE_DEADLINE for a task.  A background task may hang.         *)
(***************************************************************************)
FairSpec ==
    /\ Spec
    /\ \A t \in TransferIds : WF_vars(Launcher(t)) /\ WF_vars(CancelTransition(t))
    /\ \A s \in SessionIds : WF_vars(Closer(s)) /\ WF_vars(Marker(s))
    /\ WF_vars(Shutdown)

-----------------------------------------------------------------------------
(***************************************************************************)
(* Correctness.                                                            *)
(***************************************************************************)

\* Every variable holds a value the code's enums and maps allow.
TypeOK ==
    /\ RegistryTypeOK
    /\ launch \in [TransferIds -> {"idle", "looked", "admitted", "registered", "spawned",
                                    "returned"}]
    /\ cancelling \subseteq TransferIds
    /\ registered \subseteq SessionIds
    /\ sess \in [SessionIds -> {"none", "Ready", "Disconnecting", "Failed"}]
    /\ calls \subseteq SessionIds
    /\ marking \in [SessionIds -> {"no", "cancelling", "done"}]
    /\ closing \in [SessionIds -> {"no", "removed", "cancelling", "closed"}]
    /\ todo \in [SessionIds -> SUBSET TransferIds]
    /\ joins \in [SessionIds -> SUBSET TransferIds]
    /\ outcome \in [SessionIds -> {"open", "quit", "borrowed", "dropped"}]
    /\ shutdown \in {"open", "flagged", "cancelling", "closing", "done"}
    /\ stops \subseteq TransferIds
    /\ mine \subseteq SessionIds

\* What get_transfer and list_transfers show of each transfer.
Visible == [t \in TransferIds |->
               IF t \in entries THEN state[t]
               ELSE IF state[t] = "none" THEN "none" ELSE "gone"]

Readers == INSTANCE OneWayTransfer WITH visible <- Visible

\* Readers of the registry see each transfer move one way only, whatever late
\* progress, results and cancels arrive (transfer.rs transition: "a terminal
\* state is never overwritten"), and lose sight of it only once it has ended.
OneWay == Readers!Spec

\* Somebody can still wait for the task: its launcher is about to publish the
\* handle, a registered slot has it, or a closer has taken it.
Owned(t) ==
    \/ launch[t] = "spawned"
    \/ t \in entries /\ slot[t] = "Published"
    \/ \E s \in SessionIds : t \in joins[s]

\* While a session is Ready the history never drops the handle of a task of its
\* that still runs, cancelled or not (reap_locked, P0-5).
HandleOwned == \A t \in TransferIds : Live(t) /\ sess[SessionOf[t]] = "Ready" => Owned(t)

\* A task that is over has a terminal snapshot, or a canceller is about to give
\* it one: a batch that saw the token counts on it.
EndedTaskSettles ==
    \A t \in entries : task[t] = "done" => state[t] \in Terminal \/ t \in cancelling

\* After shutdown() returned, a single transfer that still runs has been told to
\* stop and its snapshot says so, however it raced the launch gate, a
\* disconnect or a lost connection.
NobodyLeftRunning ==
    shutdown = "done" =>
        \A t \in TransferIds \ Batches : Live(t) => token[t] /\ state[t] \in Terminal

\* shutdown() joined every single transfer of the sessions it closed itself,
\* unless it found the session Failed.
ShutdownJoins ==
    shutdown = "done" =>
        \A t \in TransferIds \ Batches :
            SessionOf[t] \in mine /\ sess[SessionOf[t]] # "Failed" => ~Live(t)

\* What shutdown() promises of the single transfers once it returned: those of
\* the sessions it closed are joined, any other was told to stop.
ShutdownComplete == NobodyLeftRunning /\ ShutdownJoins

\* QUIT is the last use of a client: afterwards no task or request has it and no
\* launcher can get hold of it again.
QuitIsFinal ==
    \A s \in SessionIds : outcome[s] = "quit" =>
        /\ s \notin calls
        /\ \A t \in TransferIds : SessionOf[t] = s => ~Live(t) /\ ~launching(t)

\* shutdown() returns although tasks, requests and the phone may hang.
ShutdownEnds == (shutdown = "flagged") ~> (shutdown = "done")

\* disconnect() returns, too.
DisconnectEnds == \A s \in SessionIds : (closing[s] = "removed") ~> (closing[s] = "closed")

\* Teardown never hangs: shutdown() and disconnect() both return, whatever the
\* tasks they wait for do (close_session's deadline and abort).
TeardownEnds == ShutdownEnds /\ DisconnectEnds

-----------------------------------------------------------------------------
(***************************************************************************)
(* The inductive invariant behind the properties above.                    *)
(***************************************************************************)
Over == {"Failed", "Disconnecting"}

\* How far a launch got, in terms of what it has created.
LaunchInv ==
    \A t \in TransferIds :
        /\ launch[t] \in {"idle", "looked", "admitted"} => state[t] = "none"
        /\ launch[t] \in {"registered", "spawned"} => state[t] # "none"
        /\ state[t] = "none" => /\ t \notin entries /\ ~token[t] /\ task[t] = "none"
                                /\ slot[t] = "Reserved"
        /\ launch[t] = "registered" => task[t] = "none"
        /\ launch[t] = "spawned" => task[t] # "none"
        /\ task[t] # "none" => launch[t] \in {"spawned", "returned"}
        /\ Live(t) /\ slot[t] = "Reserved" => launch[t] = "spawned"
        /\ slot[t] = "Published" => task[t] # "none"

\* What a slot says, and what made an entry leave the history.
SlotInv ==
    \A t \in TransferIds :
        /\ slot[t] = "Taken" => token[t] /\ sess[SessionOf[t]] \in Over
        /\ slot[t] = "Finished" => task[t] = "done"
        /\ state[t] # "none" /\ t \notin entries =>
               /\ state[t] \in Terminal
               /\ task[t] = "done" \/ (token[t] /\ sess[SessionOf[t]] \in Over)

\* A cancelled or ended transfer has been settled, or its canceller is about to.
SettleInv ==
    \A t \in entries :
        token[t] \/ task[t] \in {"losing", "marking", "done"} =>
            state[t] \in Terminal \/ t \in cancelling

\* The one cancel_for_session of a session, and the handles of its closer.
CancelInv ==
    \A s \in SessionIds :
        /\ \A t \in todo[s] : SessionOf[t] = s /\ state[t] # "none"
        /\ marking[s] = "cancelling" => sess[s] = "Failed"
        /\ s \in registered => closing[s] = "no" /\ sess[s] # "none"
        /\ closing[s] # "no" => sess[s] # "none"
        /\ closing[s] = "cancelling" => sess[s] = "Disconnecting"
        /\ \A t \in joins[s] : /\ SessionOf[t] = s /\ sess[s] = "Disconnecting"
                               /\ token[t] /\ task[t] # "none"
        /\ outcome[s] = "quit" => s \notin registered /\ sess[s] = "Disconnecting"

\* The handle of t is where the closer of its session finds it.
InReach(t) ==
    LET s == SessionOf[t] IN
    \/ closing[s] = "removed"
    \/ sess[s] = "Failed"
    \/ /\ closing[s] = "cancelling"
       /\ t \in joins[s] \/ (t \in todo[s] /\ t \in entries /\ slot[t] = "Published")

\* Past the gate no single transfer is being launched, those that were listed
\* are cancelled, and those of the sessions taken are in reach of a closer.
StopInv ==
    /\ shutdown \in {"cancelling", "closing", "done"} =>
           \A t \in TransferIds \ Batches :
               /\ ~launching(t)
               /\ t \in entries => t \in stops \/ (token[t] /\ state[t] \in Terminal)
    /\ shutdown \in {"closing", "done"} =>
           /\ stops = {} /\ registered = {}
           /\ \A t \in TransferIds \ Batches :
                  SessionOf[t] \in mine /\ Live(t) => InReach(t)
    /\ shutdown = "done" => \A s \in mine : closing[s] = "closed"

IndInv ==
    /\ TypeOK /\ LaunchInv /\ SlotInv /\ SettleInv /\ CancelInv /\ QuitIsFinal /\ StopInv
=============================================================================
