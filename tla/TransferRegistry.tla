-------------------------- MODULE TransferRegistry --------------------------
(***************************************************************************)
(* The transfer registry of handshaker-application (transfer.rs): the      *)
(* bounded history of transfers, the public state of each, its cancel      *)
(* token and the slot that owns the JoinHandle of its background task.     *)
(*                                                                         *)
(* Every operation below runs under the registry mutex (and the entry's),  *)
(* so it is one step.  The operators give the new value of the state they  *)
(* change; RuntimeSessions calls them.  Progress throttling, byte counters *)
(* and the texts of a snapshot are left out.                               *)
(***************************************************************************)
EXTENDS Naturals, FiniteSets

CONSTANTS
    TransferIds,        \* ids handed out by snapshot_for
    SessionIds,
    SessionOf,          \* the session each transfer belongs to
    HistoryCapacity     \* RuntimeConfig's transfer history capacity

ASSUME TransferRegistryAssumption ==
    /\ SessionOf \in [TransferIds -> SessionIds]
    /\ HistoryCapacity \in Nat \ {0}

VARIABLES
    entries,    \* ids in the registry's map
    state,      \* TransferSnapshot.state ("none" before register)
    token,      \* ActiveTransfer.cancel is cancelled
    slot,       \* ActiveTransfer.join: TaskPublication
    task        \* the background task

registry == <<entries, state, token, slot>>

States == {"none", "Queued", "Running", "Completed", "Failed", "Cancelled"}
Terminal == {"Completed", "Failed", "Cancelled"}
Slots == {"Reserved", "Published", "Finished", "Taken"}

\* "losing" is about to call mark_connection_lost, "marking" is inside it.
Tasks == {"none", "ready", "running", "losing", "marking", "done"}
Live(t) == task[t] \notin {"none", "done"}

RegistryInit ==
    /\ entries = {}
    /\ state = [t \in TransferIds |-> "none"]
    /\ token = [t \in TransferIds |-> FALSE]
    /\ slot = [t \in TransferIds |-> "Reserved"]
    /\ task = [t \in TransferIds |-> "none"]

\* The entries cancel_for_session visits: all of the session, terminal or not.
OfSession(s) == {t \in entries : SessionOf[t] = s}

\* Mutant of can_evict: a terminal snapshot is enough.
can_evict_terminal(t) == state[t] \in Terminal

\* reap_locked: the snapshot is terminal and the slot proves, or assumes, that
\* the task is over.
can_evict(t) ==
    /\ state[t] \in Terminal
    /\ \/ slot[t] \in {"Finished", "Taken"}
       \/ slot[t] = "Published" /\ task[t] = "done"

\* What reap_locked may leave of a set of entries: the time to live may expire
\* any evictable entry, and the capacity is enforced as far as it can be.
reap_locked(all) ==
    LET evictable == {t \in all : can_evict(t)}
    IN  {all \ gone : gone \in {E \in SUBSET evictable :
            Cardinality(all \ E) <= HistoryCapacity \/ E = evictable}}

\* register: a new entry is Queued and Reserved, then the history is reaped.
register(t) ==
    /\ state' = [state EXCEPT ![t] = "Queued"]
    /\ slot' = [slot EXCEPT ![t] = "Reserved"]
    /\ entries' \in reap_locked(entries \cup {t})
    /\ UNCHANGED <<token, task>>

\* transition: a terminal state is never overwritten, an evicted id is ignored.
transition(t, next) ==
    IF t \in entries /\ state[t] \notin Terminal
    THEN [state EXCEPT ![t] = next]
    ELSE state

\* Mutant of set_progress: the terminal check is missing.
set_progress_late(t) == IF t \in entries THEN [state EXCEPT ![t] = "Running"] ELSE state

\* set_progress and set_batch_items: a late callback never revives a transfer.
set_progress(t) ==
    IF t \in entries /\ state[t] \notin Terminal
    THEN [state EXCEPT ![t] = "Running"]
    ELSE state

\* One entry of cancel_for_session: token, transition, and the slot is taken
\* whatever it holds.
cancel_entry(t) ==
    /\ token' = [token EXCEPT ![t] = TRUE]
    /\ state' = transition(t, "Cancelled")
    /\ slot' = IF t \in entries THEN [slot EXCEPT ![t] = "Taken"] ELSE slot
    /\ UNCHANGED entries

\* The handle cancel_for_session gets for the entry, if it has one.
taken_handle(t) == IF t \in entries /\ slot[t] = "Published" THEN {t} ELSE {}

\* reap, called by list_transfers: finished tasks are detached.
reap ==
    /\ slot' = [t \in TransferIds |->
                   IF t \in entries /\ slot[t] = "Published" /\ task[t] = "done"
                   THEN "Finished" ELSE slot[t]]
    /\ UNCHANGED <<entries, state, token, task>>

\* An entry of the map has a snapshot.
RegistryTypeOK ==
    /\ entries \subseteq TransferIds
    /\ \A t \in entries : state[t] # "none"
    /\ state \in [TransferIds -> States]
    /\ token \in [TransferIds -> BOOLEAN]
    /\ slot \in [TransferIds -> Slots]
    /\ task \in [TransferIds -> Tasks]
=============================================================================
