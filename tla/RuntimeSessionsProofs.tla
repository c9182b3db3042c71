----------------------- MODULE RuntimeSessionsProofs -----------------------
(***************************************************************************)
(* Machine-checked proofs about RuntimeSessions, for every set of          *)
(* transfers and sessions, every assignment of one to the other, every     *)
(* history capacity, and any choice of batches and of losable connections. *)
(***************************************************************************)
EXTENDS RuntimeSessions, TLAPS

USE TransferRegistryAssumption, RuntimeSessionsAssumption

-----------------------------------------------------------------------------
(***************************************************************************)
(* Facts about the registry's operations.                                  *)
(***************************************************************************)

\* Registering a transfer adds nothing else, and drops evictable entries only.
LEMMA RegisterEvicts ==
    ASSUME NEW t \in TransferIds, register(t)
    PROVE  /\ entries' \subseteq entries \cup {t}
           /\ \A u \in (entries \cup {t}) \ entries' : can_evict(u)
  <1> DEFINE all == entries \cup {t}
             evictable == {u \in all : can_evict(u)}
  <1>1. PICK gone \in SUBSET evictable : entries' = all \ gone
    <2> HIDE DEF evictable
    <2>1. entries' \in {all \ g : g \in {E \in SUBSET evictable :
                            Cardinality(all \ E) <= HistoryCapacity \/ E = evictable}}
      BY DEF register, reap_locked, evictable
    <2> QED
      BY <2>1
  <1> QED
    BY <1>1

\* A transition that is allowed to happen at all is one the readers may see.
LEMMA TransitionOneWay ==
    ASSUME TypeOK, NEW t \in TransferIds, NEW next \in {"Running"} \cup Terminal,
           state' = transition(t, next), entries' = entries
    PROVE  [Readers!Next]_Visible
  <1>1. CASE t \in entries /\ state[t] \notin Terminal
    <2>1. state' = [state EXCEPT ![t] = next]
      BY <1>1 DEF transition
    <2>2. Visible' = [Visible EXCEPT ![t] = next]
      BY <1>1, <2>1 DEF Visible, TypeOK, RegistryTypeOK, Terminal
    <2>3. Visible[t] \in {"Queued", "Running"}
      BY <1>1 DEF Visible, TypeOK, RegistryTypeOK, States, Terminal
    <2>4. CASE next = "Running" /\ Visible[t] = "Queued"
      BY <2>2, <2>4 DEF Readers!Next, Readers!Run
    <2>5. CASE next = "Running" /\ Visible[t] = "Running"
      <3>1. Visible' = Visible
        BY <2>2, <2>5 DEF Visible
      <3> QED
        BY <3>1
    <2>6. CASE next \in Terminal
      BY <2>2, <2>3, <2>6 DEF Readers!Next, Readers!End, Readers!Ended, Terminal
    <2> QED
      BY <2>3, <2>4, <2>5, <2>6
  <1>2. CASE ~(t \in entries /\ state[t] \notin Terminal)
    <2>1. state' = state
      BY <1>2 DEF transition
    <2> QED
      BY <2>1 DEF Visible
  <1> QED
    BY <1>1, <1>2

-----------------------------------------------------------------------------
(***************************************************************************)
(* The inductive invariant, one conjunct at a time.                        *)
(***************************************************************************)

\* Before the first connection nothing is registered, launched or closing.
LEMMA InitInv == Init => IndInv
  <1> SUFFICES ASSUME Init PROVE IndInv
    OBVIOUS
  <1>1. TypeOK
    BY DEF Init, RegistryInit, TypeOK, RegistryTypeOK, States, Slots, Tasks
  <1>2. LaunchInv /\ SlotInv /\ SettleInv
    BY DEF Init, RegistryInit, LaunchInv, SlotInv, SettleInv, Live
  <1>3. CancelInv /\ QuitIsFinal /\ StopInv
    BY DEF Init, RegistryInit, CancelInv, QuitIsFinal, StopInv
  <1> QED
    BY <1>1, <1>2, <1>3 DEF IndInv

\* Every step keeps every variable in its type.
LEMMA TypeStep == TypeOK /\ LaunchInv /\ [Next]_vars => TypeOK'
  <1> SUFFICES ASSUME TypeOK /\ LaunchInv, [Next]_vars PROVE TypeOK'
    OBVIOUS
  <1>1. ASSUME NEW t \in TransferIds, Start(t) PROVE TypeOK'
    BY <1>1 DEF Start, registry, sessions, stopping, TypeOK, LaunchInv, RegistryTypeOK,
       States, Terminal, Slots, Tasks
  <1>2. ASSUME NEW t \in TransferIds, Admit(t) PROVE TypeOK'
    BY <1>2 DEF Admit, registry, sessions, stopping, TypeOK, LaunchInv, RegistryTypeOK,
       States, Terminal, Slots, Tasks
  <1>3. ASSUME NEW t \in TransferIds, Register(t) PROVE TypeOK'
    <2>1. register(t)
      BY <1>3 DEF Register
    <2>2. /\ entries' \subseteq entries \cup {t}
          /\ \A u \in (entries \cup {t}) \ entries' : can_evict(u)
      BY <2>1, RegisterEvicts
    <2> QED
      BY <1>3, <2>2 DEF Register, register, can_evict, registry, sessions, stopping,
         TypeOK, LaunchInv, RegistryTypeOK, States, Terminal, Slots, Tasks
  <1>4. ASSUME NEW t \in TransferIds, Spawn(t) PROVE TypeOK'
    BY <1>4 DEF Spawn, registry, sessions, stopping, TypeOK, LaunchInv, RegistryTypeOK,
       States, Terminal, Slots, Tasks
  <1>5. ASSUME NEW t \in TransferIds, Publish(t) PROVE TypeOK'
    BY <1>5 DEF Publish, registry, sessions, stopping, TypeOK, LaunchInv, RegistryTypeOK,
       States, Terminal, Slots, Tasks
  <1>6. ASSUME NEW t \in TransferIds, TaskRuns(t) PROVE TypeOK'
    BY <1>6 DEF TaskRuns, TaskStep, transition, registry, sessions, stopping, TypeOK,
       LaunchInv, RegistryTypeOK, States, Terminal, Slots, Tasks
  <1>7. ASSUME NEW t \in TransferIds, TaskProgresses(t) PROVE TypeOK'
    BY <1>7 DEF TaskProgresses, TaskStep, set_progress, registry, sessions, stopping,
       TypeOK, LaunchInv, RegistryTypeOK, States, Terminal, Slots, Tasks
  <1>8. ASSUME NEW t \in TransferIds, TaskEnds(t) PROVE TypeOK'
    BY <1>8 DEF TaskEnds, TaskStep, transition, registry, sessions, stopping, TypeOK,
       LaunchInv, RegistryTypeOK, States, Terminal, Slots, Tasks
  <1>9. ASSUME NEW t \in TransferIds, TaskCancelled(t) PROVE TypeOK'
    BY <1>9 DEF TaskCancelled, TaskStep, transition, registry, sessions, stopping, TypeOK,
       LaunchInv, RegistryTypeOK, States, Terminal, Slots, Tasks
  <1>10. ASSUME NEW t \in TransferIds, TaskLosesConnection(t) PROVE TypeOK'
    BY <1>10 DEF TaskLosesConnection, TaskStep, transition, registry, sessions, stopping,
       TypeOK, LaunchInv, RegistryTypeOK, States, Terminal, Slots, Tasks
  <1>11. ASSUME NEW t \in TransferIds, TaskMarks(t) PROVE TypeOK'
    BY <1>11 DEF TaskMarks, MarkFailed, OfSession, registry, sessions, stopping, TypeOK,
       LaunchInv, RegistryTypeOK, States, Terminal, Slots, Tasks
  <1>12. ASSUME NEW t \in TransferIds, TaskReturns(t) PROVE TypeOK'
    BY <1>12 DEF TaskReturns, CannotMark, registry, sessions, stopping, TypeOK, LaunchInv,
       RegistryTypeOK, States, Terminal, Slots, Tasks
  <1>13. ASSUME NEW t \in TransferIds, CancelTransfer(t) PROVE TypeOK'
    BY <1>13 DEF CancelTransfer, registry, sessions, stopping, TypeOK, LaunchInv,
       RegistryTypeOK, States, Terminal, Slots, Tasks
  <1>14. ASSUME NEW t \in TransferIds, CancelTransition(t) PROVE TypeOK'
    BY <1>14 DEF CancelTransition, transition, registry, sessions, stopping, TypeOK,
       LaunchInv, RegistryTypeOK, States, Terminal, Slots, Tasks
  <1>15. ASSUME NEW t \in TransferIds, ShutdownCancels(t) PROVE TypeOK'
    BY <1>15 DEF ShutdownCancels, transition, registry, sessions, stopping, TypeOK,
       LaunchInv, RegistryTypeOK, States, Terminal, Slots, Tasks
  <1>16. ASSUME NEW s \in SessionIds, Connect(s) PROVE TypeOK'
    BY <1>16 DEF Connect, registry, sessions, stopping, TypeOK, LaunchInv, RegistryTypeOK,
       States, Terminal, Slots, Tasks
  <1>17. ASSUME NEW s \in SessionIds, Disconnect(s) PROVE TypeOK'
    BY <1>17 DEF Disconnect, registry, sessions, stopping, TypeOK, LaunchInv,
       RegistryTypeOK, States, Terminal, Slots, Tasks
  <1>18. ASSUME NEW s \in SessionIds, CloseFailed(s) PROVE TypeOK'
    BY <1>18 DEF CloseFailed, registry, sessions, stopping, TypeOK, LaunchInv,
       RegistryTypeOK, States, Terminal, Slots, Tasks
  <1>19. ASSUME NEW s \in SessionIds, CloseBegins(s) PROVE TypeOK'
    BY <1>19 DEF CloseBegins, OfSession, registry, sessions, stopping, TypeOK, LaunchInv,
       RegistryTypeOK, States, Terminal, Slots, Tasks
  <1>20. ASSUME NEW s \in SessionIds, CloseClient(s) PROVE TypeOK'
    BY <1>20 DEF CloseClient, session_borrowed, client_borrowed, registry, sessions,
       stopping, TypeOK, LaunchInv, RegistryTypeOK, States, Terminal, Slots, Tasks
  <1>21. ASSUME NEW s \in SessionIds, BridgeMarks(s) PROVE TypeOK'
    BY <1>21 DEF BridgeMarks, MarkFailed, OfSession, registry, sessions, stopping, TypeOK,
       LaunchInv, RegistryTypeOK, States, Terminal, Slots, Tasks
  <1>22. ASSUME NEW s \in SessionIds, Call(s) PROVE TypeOK'
    BY <1>22 DEF Call, registry, sessions, stopping, TypeOK, LaunchInv, RegistryTypeOK,
       States, Terminal, Slots, Tasks
  <1>23. ASSUME NEW s \in SessionIds, CallReturns(s) PROVE TypeOK'
    BY <1>23 DEF CallReturns, registry, sessions, stopping, TypeOK, LaunchInv,
       RegistryTypeOK, States, Terminal, Slots, Tasks
  <1>24. ASSUME NEW s \in SessionIds, CallMarks(s) PROVE TypeOK'
    BY <1>24 DEF CallMarks, MarkFailed, OfSession, registry, sessions, stopping, TypeOK,
       LaunchInv, RegistryTypeOK, States, Terminal, Slots, Tasks
  <1>25. ASSUME NEW s \in SessionIds, MarkDone(s) PROVE TypeOK'
    BY <1>25 DEF MarkDone, registry, sessions, stopping, TypeOK, LaunchInv, RegistryTypeOK,
       States, Terminal, Slots, Tasks
  <1>26. ASSUME NEW s \in SessionIds, NEW t \in TransferIds, MarkEntry(s, t) PROVE TypeOK'
    BY <1>26 DEF MarkEntry, cancel_entry, transition, registry, sessions, stopping, TypeOK,
       LaunchInv, RegistryTypeOK, States, Terminal, Slots, Tasks
  <1>27. ASSUME NEW s \in SessionIds, NEW t \in TransferIds, CloseEntry(s, t) PROVE TypeOK'
    BY <1>27 DEF CloseEntry, cancel_entry, transition, taken_handle, registry, sessions,
       stopping, TypeOK, LaunchInv, RegistryTypeOK, States, Terminal, Slots, Tasks
  <1>28. ASSUME NEW s \in SessionIds, NEW t \in TransferIds, JoinTask(s, t) PROVE TypeOK'
    BY <1>28 DEF JoinTask, registry, sessions, stopping, TypeOK, LaunchInv, RegistryTypeOK,
       States, Terminal, Slots, Tasks
  <1>29. ASSUME ListTransfers PROVE TypeOK'
    BY <1>29 DEF ListTransfers, reap, registry, sessions, stopping, TypeOK, LaunchInv,
       RegistryTypeOK, States, Terminal, Slots, Tasks
  <1>30. ASSUME ShutdownFlag PROVE TypeOK'
    BY <1>30 DEF ShutdownFlag, registry, sessions, stopping, TypeOK, LaunchInv,
       RegistryTypeOK, States, Terminal, Slots, Tasks
  <1>31. ASSUME ShutdownGate PROVE TypeOK'
    BY <1>31 DEF ShutdownGate, gate_readers, registry, sessions, stopping, TypeOK,
       LaunchInv, RegistryTypeOK, States, Terminal, Slots, Tasks
  <1>32. ASSUME ShutdownTakesSessions PROVE TypeOK'
    BY <1>32 DEF ShutdownTakesSessions, registry, sessions, stopping, TypeOK, LaunchInv,
       RegistryTypeOK, States, Terminal, Slots, Tasks
  <1>33. ASSUME ShutdownReturns PROVE TypeOK'
    BY <1>33 DEF ShutdownReturns, registry, sessions, stopping, TypeOK, LaunchInv,
       RegistryTypeOK, States, Terminal, Slots, Tasks
  <1>34. CASE UNCHANGED vars
    BY <1>34 DEF vars, registry, sessions, stopping, TypeOK, LaunchInv, RegistryTypeOK,
       States, Terminal, Slots, Tasks
  <1> QED
    BY <1>1, <1>2, <1>3, <1>4, <1>5, <1>6, <1>7, <1>8, <1>9, <1>10, <1>11, <1>12, <1>13,
       <1>14, <1>15, <1>16, <1>17, <1>18, <1>19, <1>20, <1>21, <1>22, <1>23, <1>24, <1>25,
       <1>26, <1>27, <1>28, <1>29, <1>30, <1>31, <1>32, <1>33, <1>34
    DEF Next, Launcher, Task, Marker, Closer, Shutdown

\* Every step keeps the stages of a launch apart.
LEMMA LaunchStep == TypeOK /\ CancelInv /\ LaunchInv /\ [Next]_vars => LaunchInv'
  <1> SUFFICES ASSUME TypeOK /\ CancelInv /\ LaunchInv, [Next]_vars PROVE LaunchInv'
    OBVIOUS
  <1>1. ASSUME NEW t \in TransferIds, Start(t) PROVE LaunchInv'
    BY <1>1 DEF Start, registry, sessions, stopping, TypeOK, RegistryTypeOK, LaunchInv,
       CancelInv, Live, Terminal, Slots, Tasks
  <1>2. ASSUME NEW t \in TransferIds, Admit(t) PROVE LaunchInv'
    BY <1>2 DEF Admit, registry, sessions, stopping, TypeOK, RegistryTypeOK, LaunchInv,
       CancelInv, Live, Terminal, Slots, Tasks
  <1>3. ASSUME NEW t \in TransferIds, Register(t) PROVE LaunchInv'
    <2>1. register(t)
      BY <1>3 DEF Register
    <2>2. /\ entries' \subseteq entries \cup {t}
          /\ \A u \in (entries \cup {t}) \ entries' : can_evict(u)
      BY <2>1, RegisterEvicts
    <2> QED
      BY <1>3, <2>2 DEF Register, register, can_evict, registry, sessions, stopping,
         TypeOK, RegistryTypeOK, LaunchInv, CancelInv, Live, Terminal, Slots, Tasks
  <1>4. ASSUME NEW t \in TransferIds, Spawn(t) PROVE LaunchInv'
    BY <1>4 DEF Spawn, registry, sessions, stopping, TypeOK, RegistryTypeOK, LaunchInv,
       CancelInv, Live, Terminal, Slots, Tasks
  <1>5. ASSUME NEW t \in TransferIds, Publish(t) PROVE LaunchInv'
    BY <1>5 DEF Publish, registry, sessions, stopping, TypeOK, RegistryTypeOK, LaunchInv,
       CancelInv, Live, Terminal, Slots, Tasks
  <1>6. ASSUME NEW t \in TransferIds, TaskRuns(t) PROVE LaunchInv'
    BY <1>6 DEF TaskRuns, TaskStep, transition, registry, sessions, stopping, TypeOK,
       RegistryTypeOK, LaunchInv, CancelInv, Live, Terminal, Slots, Tasks
  <1>7. ASSUME NEW t \in TransferIds, TaskProgresses(t) PROVE LaunchInv'
    BY <1>7 DEF TaskProgresses, TaskStep, set_progress, registry, sessions, stopping,
       TypeOK, RegistryTypeOK, LaunchInv, CancelInv, Live, Terminal, Slots, Tasks
  <1>8. ASSUME NEW t \in TransferIds, TaskEnds(t) PROVE LaunchInv'
    BY <1>8 DEF TaskEnds, TaskStep, transition, registry, sessions, stopping, TypeOK,
       RegistryTypeOK, LaunchInv, CancelInv, Live, Terminal, Slots, Tasks
  <1>9. ASSUME NEW t \in TransferIds, TaskCancelled(t) PROVE LaunchInv'
    BY <1>9 DEF TaskCancelled, TaskStep, transition, registry, sessions, stopping, TypeOK,
       RegistryTypeOK, LaunchInv, CancelInv, Live, Terminal, Slots, Tasks
  <1>10. ASSUME NEW t \in TransferIds, TaskLosesConnection(t) PROVE LaunchInv'
    BY <1>10 DEF TaskLosesConnection, TaskStep, transition, registry, sessions, stopping,
       TypeOK, RegistryTypeOK, LaunchInv, CancelInv, Live, Terminal, Slots, Tasks
  <1>11. ASSUME NEW t \in TransferIds, TaskMarks(t) PROVE LaunchInv'
    BY <1>11 DEF TaskMarks, MarkFailed, OfSession, registry, sessions, stopping, TypeOK,
       RegistryTypeOK, LaunchInv, CancelInv, Live, Terminal, Slots, Tasks
  <1>12. ASSUME NEW t \in TransferIds, TaskReturns(t) PROVE LaunchInv'
    BY <1>12 DEF TaskReturns, CannotMark, registry, sessions, stopping, TypeOK,
       RegistryTypeOK, LaunchInv, CancelInv, Live, Terminal, Slots, Tasks
  <1>13. ASSUME NEW t \in TransferIds, CancelTransfer(t) PROVE LaunchInv'
    BY <1>13 DEF CancelTransfer, registry, sessions, stopping, TypeOK, RegistryTypeOK,
       LaunchInv, CancelInv, Live, Terminal, Slots, Tasks
  <1>14. ASSUME NEW t \in TransferIds, CancelTransition(t) PROVE LaunchInv'
    BY <1>14 DEF CancelTransition, transition, registry, sessions, stopping, TypeOK,
       RegistryTypeOK, LaunchInv, CancelInv, Live, Terminal, Slots, Tasks
  <1>15. ASSUME NEW t \in TransferIds, ShutdownCancels(t) PROVE LaunchInv'
    BY <1>15 DEF ShutdownCancels, transition, registry, sessions, stopping, TypeOK,
       RegistryTypeOK, LaunchInv, CancelInv, Live, Terminal, Slots, Tasks
  <1>16. ASSUME NEW s \in SessionIds, Connect(s) PROVE LaunchInv'
    BY <1>16 DEF Connect, registry, sessions, stopping, TypeOK, RegistryTypeOK, LaunchInv,
       CancelInv, Live, Terminal, Slots, Tasks
  <1>17. ASSUME NEW s \in SessionIds, Disconnect(s) PROVE LaunchInv'
    BY <1>17 DEF Disconnect, registry, sessions, stopping, TypeOK, RegistryTypeOK,
       LaunchInv, CancelInv, Live, Terminal, Slots, Tasks
  <1>18. ASSUME NEW s \in SessionIds, CloseFailed(s) PROVE LaunchInv'
    BY <1>18 DEF CloseFailed, registry, sessions, stopping, TypeOK, RegistryTypeOK,
       LaunchInv, CancelInv, Live, Terminal, Slots, Tasks
  <1>19. ASSUME NEW s \in SessionIds, CloseBegins(s) PROVE LaunchInv'
    BY <1>19 DEF CloseBegins, OfSession, registry, sessions, stopping, TypeOK,
       RegistryTypeOK, LaunchInv, CancelInv, Live, Terminal, Slots, Tasks
  <1>20. ASSUME NEW s \in SessionIds, CloseClient(s) PROVE LaunchInv'
    BY <1>20 DEF CloseClient, session_borrowed, client_borrowed, registry, sessions,
       stopping, TypeOK, RegistryTypeOK, LaunchInv, CancelInv, Live, Terminal, Slots, Tasks
  <1>21. ASSUME NEW s \in SessionIds, BridgeMarks(s) PROVE LaunchInv'
    BY <1>21 DEF BridgeMarks, MarkFailed, OfSession, registry, sessions, stopping, TypeOK,
       RegistryTypeOK, LaunchInv, CancelInv, Live, Terminal, Slots, Tasks
  <1>22. ASSUME NEW s \in SessionIds, Call(s) PROVE LaunchInv'
    BY <1>22 DEF Call, registry, sessions, stopping, TypeOK, RegistryTypeOK, LaunchInv,
       CancelInv, Live, Terminal, Slots, Tasks
  <1>23. ASSUME NEW s \in SessionIds, CallReturns(s) PROVE LaunchInv'
    BY <1>23 DEF CallReturns, registry, sessions, stopping, TypeOK, RegistryTypeOK,
       LaunchInv, CancelInv, Live, Terminal, Slots, Tasks
  <1>24. ASSUME NEW s \in SessionIds, CallMarks(s) PROVE LaunchInv'
    BY <1>24 DEF CallMarks, MarkFailed, OfSession, registry, sessions, stopping, TypeOK,
       RegistryTypeOK, LaunchInv, CancelInv, Live, Terminal, Slots, Tasks
  <1>25. ASSUME NEW s \in SessionIds, MarkDone(s) PROVE LaunchInv'
    BY <1>25 DEF MarkDone, registry, sessions, stopping, TypeOK, RegistryTypeOK, LaunchInv,
       CancelInv, Live, Terminal, Slots, Tasks
  <1>26. ASSUME NEW s \in SessionIds, NEW t \in TransferIds, MarkEntry(s, t) PROVE LaunchInv'
    BY <1>26 DEF MarkEntry, cancel_entry, transition, registry, sessions, stopping, TypeOK,
       RegistryTypeOK, LaunchInv, CancelInv, Live, Terminal, Slots, Tasks
  <1>27. ASSUME NEW s \in SessionIds, NEW t \in TransferIds, CloseEntry(s, t) PROVE LaunchInv'
    BY <1>27 DEF CloseEntry, cancel_entry, transition, taken_handle, registry, sessions,
       stopping, TypeOK, RegistryTypeOK, LaunchInv, CancelInv, Live, Terminal, Slots, Tasks
  <1>28. ASSUME NEW s \in SessionIds, NEW t \in TransferIds, JoinTask(s, t) PROVE LaunchInv'
    BY <1>28 DEF JoinTask, registry, sessions, stopping, TypeOK, RegistryTypeOK, LaunchInv,
       CancelInv, Live, Terminal, Slots, Tasks
  <1>29. ASSUME ListTransfers PROVE LaunchInv'
    BY <1>29 DEF ListTransfers, reap, registry, sessions, stopping, TypeOK, RegistryTypeOK,
       LaunchInv, CancelInv, Live, Terminal, Slots, Tasks
  <1>30. ASSUME ShutdownFlag PROVE LaunchInv'
    BY <1>30 DEF ShutdownFlag, registry, sessions, stopping, TypeOK, RegistryTypeOK,
       LaunchInv, CancelInv, Live, Terminal, Slots, Tasks
  <1>31. ASSUME ShutdownGate PROVE LaunchInv'
    BY <1>31 DEF ShutdownGate, gate_readers, registry, sessions, stopping, TypeOK,
       RegistryTypeOK, LaunchInv, CancelInv, Live, Terminal, Slots, Tasks
  <1>32. ASSUME ShutdownTakesSessions PROVE LaunchInv'
    BY <1>32 DEF ShutdownTakesSessions, registry, sessions, stopping, TypeOK,
       RegistryTypeOK, LaunchInv, CancelInv, Live, Terminal, Slots, Tasks
  <1>33. ASSUME ShutdownReturns PROVE LaunchInv'
    BY <1>33 DEF ShutdownReturns, registry, sessions, stopping, TypeOK, RegistryTypeOK,
       LaunchInv, CancelInv, Live, Terminal, Slots, Tasks
  <1>34. CASE UNCHANGED vars
    BY <1>34 DEF vars, registry, sessions, stopping, TypeOK, RegistryTypeOK, LaunchInv,
       CancelInv, Live, Terminal, Slots, Tasks
  <1> QED
    BY <1>1, <1>2, <1>3, <1>4, <1>5, <1>6, <1>7, <1>8, <1>9, <1>10, <1>11, <1>12, <1>13,
       <1>14, <1>15, <1>16, <1>17, <1>18, <1>19, <1>20, <1>21, <1>22, <1>23, <1>24, <1>25,
       <1>26, <1>27, <1>28, <1>29, <1>30, <1>31, <1>32, <1>33, <1>34
    DEF Next, Launcher, Task, Marker, Closer, Shutdown

\* Every step keeps the meaning of a slot: Taken was cancelled, Finished is over, and
\* an evicted transfer has ended.
LEMMA SlotStep == TypeOK /\ LaunchInv /\ CancelInv /\ SlotInv /\ [Next]_vars => SlotInv'
  <1> SUFFICES ASSUME TypeOK /\ LaunchInv /\ CancelInv /\ SlotInv, [Next]_vars PROVE SlotInv'
    OBVIOUS
  <1>1. ASSUME NEW t \in TransferIds, Start(t) PROVE SlotInv'
    BY <1>1 DEF Start, registry, sessions, stopping, TypeOK, RegistryTypeOK, LaunchInv,
       SlotInv, CancelInv, Over, Terminal
  <1>2. ASSUME NEW t \in TransferIds, Admit(t) PROVE SlotInv'
    BY <1>2 DEF Admit, registry, sessions, stopping, TypeOK, RegistryTypeOK, LaunchInv,
       SlotInv, CancelInv, Over, Terminal
  <1>3. ASSUME NEW t \in TransferIds, Register(t) PROVE SlotInv'
    <2>1. register(t)
      BY <1>3 DEF Register
    <2>2. /\ entries' \subseteq entries \cup {t}
          /\ \A u \in (entries \cup {t}) \ entries' : can_evict(u)
      BY <2>1, RegisterEvicts
    <2> QED
      BY <1>3, <2>2 DEF Register, register, can_evict, registry, sessions, stopping,
         TypeOK, RegistryTypeOK, LaunchInv, SlotInv, CancelInv, Over, Terminal
  <1>4. ASSUME NEW t \in TransferIds, Spawn(t) PROVE SlotInv'
    BY <1>4 DEF Spawn, registry, sessions, stopping, TypeOK, RegistryTypeOK, LaunchInv,
       SlotInv, CancelInv, Over, Terminal
  <1>5. ASSUME NEW t \in TransferIds, Publish(t) PROVE SlotInv'
    BY <1>5 DEF Publish, registry, sessions, stopping, TypeOK, RegistryTypeOK, LaunchInv,
       SlotInv, CancelInv, Over, Terminal
  <1>6. ASSUME NEW t \in TransferIds, TaskRuns(t) PROVE SlotInv'
    BY <1>6 DEF TaskRuns, TaskStep, transition, registry, sessions, stopping, TypeOK,
       RegistryTypeOK, LaunchInv, SlotInv, CancelInv, Over, Terminal
  <1>7. ASSUME NEW t \in TransferIds, TaskProgresses(t) PROVE SlotInv'
    BY <1>7 DEF TaskProgresses, TaskStep, set_progress, registry, sessions, stopping,
       TypeOK, RegistryTypeOK, LaunchInv, SlotInv, CancelInv, Over, Terminal
  <1>8. ASSUME NEW t \in TransferIds, TaskEnds(t) PROVE SlotInv'
    BY <1>8 DEF TaskEnds, TaskStep, transition, registry, sessions, stopping, TypeOK,
       RegistryTypeOK, LaunchInv, SlotInv, CancelInv, Over, Terminal
  <1>9. ASSUME NEW t \in TransferIds, TaskCancelled(t) PROVE SlotInv'
    BY <1>9 DEF TaskCancelled, TaskStep, transition, registry, sessions, stopping, TypeOK,
       RegistryTypeOK, LaunchInv, SlotInv, CancelInv, Over, Terminal
  <1>10. ASSUME NEW t \in TransferIds, TaskLosesConnection(t) PROVE SlotInv'
    BY <1>10 DEF TaskLosesConnection, TaskStep, transition, registry, sessions, stopping,
       TypeOK, RegistryTypeOK, LaunchInv, SlotInv, CancelInv, Over, Terminal
  <1>11. ASSUME NEW t \in TransferIds, TaskMarks(t) PROVE SlotInv'
    BY <1>11 DEF TaskMarks, MarkFailed, OfSession, registry, sessions, stopping, TypeOK,
       RegistryTypeOK, LaunchInv, SlotInv, CancelInv, Over, Terminal
  <1>12. ASSUME NEW t \in TransferIds, TaskReturns(t) PROVE SlotInv'
    BY <1>12 DEF TaskReturns, CannotMark, registry, sessions, stopping, TypeOK,
       RegistryTypeOK, LaunchInv, SlotInv, CancelInv, Over, Terminal
  <1>13. ASSUME NEW t \in TransferIds, CancelTransfer(t) PROVE SlotInv'
    BY <1>13 DEF CancelTransfer, registry, sessions, stopping, TypeOK, RegistryTypeOK,
       LaunchInv, SlotInv, CancelInv, Over, Terminal
  <1>14. ASSUME NEW t \in TransferIds, CancelTransition(t) PROVE SlotInv'
    BY <1>14 DEF CancelTransition, transition, registry, sessions, stopping, TypeOK,
       RegistryTypeOK, LaunchInv, SlotInv, CancelInv, Over, Terminal
  <1>15. ASSUME NEW t \in TransferIds, ShutdownCancels(t) PROVE SlotInv'
    BY <1>15 DEF ShutdownCancels, transition, registry, sessions, stopping, TypeOK,
       RegistryTypeOK, LaunchInv, SlotInv, CancelInv, Over, Terminal
  <1>16. ASSUME NEW s \in SessionIds, Connect(s) PROVE SlotInv'
    BY <1>16 DEF Connect, registry, sessions, stopping, TypeOK, RegistryTypeOK, LaunchInv,
       SlotInv, CancelInv, Over, Terminal
  <1>17. ASSUME NEW s \in SessionIds, Disconnect(s) PROVE SlotInv'
    BY <1>17 DEF Disconnect, registry, sessions, stopping, TypeOK, RegistryTypeOK,
       LaunchInv, SlotInv, CancelInv, Over, Terminal
  <1>18. ASSUME NEW s \in SessionIds, CloseFailed(s) PROVE SlotInv'
    BY <1>18 DEF CloseFailed, registry, sessions, stopping, TypeOK, RegistryTypeOK,
       LaunchInv, SlotInv, CancelInv, Over, Terminal
  <1>19. ASSUME NEW s \in SessionIds, CloseBegins(s) PROVE SlotInv'
    BY <1>19 DEF CloseBegins, OfSession, registry, sessions, stopping, TypeOK,
       RegistryTypeOK, LaunchInv, SlotInv, CancelInv, Over, Terminal
  <1>20. ASSUME NEW s \in SessionIds, CloseClient(s) PROVE SlotInv'
    BY <1>20 DEF CloseClient, session_borrowed, client_borrowed, registry, sessions,
       stopping, TypeOK, RegistryTypeOK, LaunchInv, SlotInv, CancelInv, Over, Terminal
  <1>21. ASSUME NEW s \in SessionIds, BridgeMarks(s) PROVE SlotInv'
    BY <1>21 DEF BridgeMarks, MarkFailed, OfSession, registry, sessions, stopping, TypeOK,
       RegistryTypeOK, LaunchInv, SlotInv, CancelInv, Over, Terminal
  <1>22. ASSUME NEW s \in SessionIds, Call(s) PROVE SlotInv'
    BY <1>22 DEF Call, registry, sessions, stopping, TypeOK, RegistryTypeOK, LaunchInv,
       SlotInv, CancelInv, Over, Terminal
  <1>23. ASSUME NEW s \in SessionIds, CallReturns(s) PROVE SlotInv'
    BY <1>23 DEF CallReturns, registry, sessions, stopping, TypeOK, RegistryTypeOK,
       LaunchInv, SlotInv, CancelInv, Over, Terminal
  <1>24. ASSUME NEW s \in SessionIds, CallMarks(s) PROVE SlotInv'
    BY <1>24 DEF CallMarks, MarkFailed, OfSession, registry, sessions, stopping, TypeOK,
       RegistryTypeOK, LaunchInv, SlotInv, CancelInv, Over, Terminal
  <1>25. ASSUME NEW s \in SessionIds, MarkDone(s) PROVE SlotInv'
    BY <1>25 DEF MarkDone, registry, sessions, stopping, TypeOK, RegistryTypeOK, LaunchInv,
       SlotInv, CancelInv, Over, Terminal
  <1>26. ASSUME NEW s \in SessionIds, NEW t \in TransferIds, MarkEntry(s, t) PROVE SlotInv'
    BY <1>26 DEF MarkEntry, cancel_entry, transition, registry, sessions, stopping, TypeOK,
       RegistryTypeOK, LaunchInv, SlotInv, CancelInv, Over, Terminal
  <1>27. ASSUME NEW s \in SessionIds, NEW t \in TransferIds, CloseEntry(s, t) PROVE SlotInv'
    BY <1>27 DEF CloseEntry, cancel_entry, transition, taken_handle, registry, sessions,
       stopping, TypeOK, RegistryTypeOK, LaunchInv, SlotInv, CancelInv, Over, Terminal
  <1>28. ASSUME NEW s \in SessionIds, NEW t \in TransferIds, JoinTask(s, t) PROVE SlotInv'
    BY <1>28 DEF JoinTask, registry, sessions, stopping, TypeOK, RegistryTypeOK, LaunchInv,
       SlotInv, CancelInv, Over, Terminal
  <1>29. ASSUME ListTransfers PROVE SlotInv'
    BY <1>29 DEF ListTransfers, reap, registry, sessions, stopping, TypeOK, RegistryTypeOK,
       LaunchInv, SlotInv, CancelInv, Over, Terminal
  <1>30. ASSUME ShutdownFlag PROVE SlotInv'
    BY <1>30 DEF ShutdownFlag, registry, sessions, stopping, TypeOK, RegistryTypeOK,
       LaunchInv, SlotInv, CancelInv, Over, Terminal
  <1>31. ASSUME ShutdownGate PROVE SlotInv'
    BY <1>31 DEF ShutdownGate, gate_readers, registry, sessions, stopping, TypeOK,
       RegistryTypeOK, LaunchInv, SlotInv, CancelInv, Over, Terminal
  <1>32. ASSUME ShutdownTakesSessions PROVE SlotInv'
    BY <1>32 DEF ShutdownTakesSessions, registry, sessions, stopping, TypeOK,
       RegistryTypeOK, LaunchInv, SlotInv, CancelInv, Over, Terminal
  <1>33. ASSUME ShutdownReturns PROVE SlotInv'
    BY <1>33 DEF ShutdownReturns, registry, sessions, stopping, TypeOK, RegistryTypeOK,
       LaunchInv, SlotInv, CancelInv, Over, Terminal
  <1>34. CASE UNCHANGED vars
    BY <1>34 DEF vars, registry, sessions, stopping, TypeOK, RegistryTypeOK, LaunchInv,
       SlotInv, CancelInv, Over, Terminal
  <1> QED
    BY <1>1, <1>2, <1>3, <1>4, <1>5, <1>6, <1>7, <1>8, <1>9, <1>10, <1>11, <1>12, <1>13,
       <1>14, <1>15, <1>16, <1>17, <1>18, <1>19, <1>20, <1>21, <1>22, <1>23, <1>24, <1>25,
       <1>26, <1>27, <1>28, <1>29, <1>30, <1>31, <1>32, <1>33, <1>34
    DEF Next, Launcher, Task, Marker, Closer, Shutdown

\* Every step settles the transfer it cancels or ends, or leaves a canceller to it.
LEMMA SettleStep == TypeOK /\ LaunchInv /\ CancelInv /\ SettleInv /\ [Next]_vars => SettleInv'
  <1> SUFFICES ASSUME TypeOK /\ LaunchInv /\ CancelInv /\ SettleInv, [Next]_vars PROVE SettleInv'
    OBVIOUS
  <1>1. ASSUME NEW t \in TransferIds, Start(t) PROVE SettleInv'
    BY <1>1 DEF Start, registry, sessions, stopping, TypeOK, RegistryTypeOK, LaunchInv,
       SettleInv, CancelInv, Terminal
  <1>2. ASSUME NEW t \in TransferIds, Admit(t) PROVE SettleInv'
    BY <1>2 DEF Admit, registry, sessions, stopping, TypeOK, RegistryTypeOK, LaunchInv,
       SettleInv, CancelInv, Terminal
  <1>3. ASSUME NEW t \in TransferIds, Register(t) PROVE SettleInv'
    <2>1. register(t)
      BY <1>3 DEF Register
    <2>2. /\ entries' \subseteq entries \cup {t}
          /\ \A u \in (entries \cup {t}) \ entries' : can_evict(u)
      BY <2>1, RegisterEvicts
    <2> QED
      BY <1>3, <2>2 DEF Register, register, can_evict, registry, sessions, stopping,
         TypeOK, RegistryTypeOK, LaunchInv, SettleInv, CancelInv, Terminal
  <1>4. ASSUME NEW t \in TransferIds, Spawn(t) PROVE SettleInv'
    BY <1>4 DEF Spawn, registry, sessions, stopping, TypeOK, RegistryTypeOK, LaunchInv,
       SettleInv, CancelInv, Terminal
  <1>5. ASSUME NEW t \in TransferIds, Publish(t) PROVE SettleInv'
    BY <1>5 DEF Publish, registry, sessions, stopping, TypeOK, RegistryTypeOK, LaunchInv,
       SettleInv, CancelInv, Terminal
  <1>6. ASSUME NEW t \in TransferIds, TaskRuns(t) PROVE SettleInv'
    BY <1>6 DEF TaskRuns, TaskStep, transition, registry, sessions, stopping, TypeOK,
       RegistryTypeOK, LaunchInv, SettleInv, CancelInv, Terminal
  <1>7. ASSUME NEW t \in TransferIds, TaskProgresses(t) PROVE SettleInv'
    BY <1>7 DEF TaskProgresses, TaskStep, set_progress, registry, sessions, stopping,
       TypeOK, RegistryTypeOK, LaunchInv, SettleInv, CancelInv, Terminal
  <1>8. ASSUME NEW t \in TransferIds, TaskEnds(t) PROVE SettleInv'
    BY <1>8 DEF TaskEnds, TaskStep, transition, registry, sessions, stopping, TypeOK,
       RegistryTypeOK, LaunchInv, SettleInv, CancelInv, Terminal
  <1>9. ASSUME NEW t \in TransferIds, TaskCancelled(t) PROVE SettleInv'
    BY <1>9 DEF TaskCancelled, TaskStep, transition, registry, sessions, stopping, TypeOK,
       RegistryTypeOK, LaunchInv, SettleInv, CancelInv, Terminal
  <1>10. ASSUME NEW t \in TransferIds, TaskLosesConnection(t) PROVE SettleInv'
    BY <1>10 DEF TaskLosesConnection, TaskStep, transition, registry, sessions, stopping,
       TypeOK, RegistryTypeOK, LaunchInv, SettleInv, CancelInv, Terminal
  <1>11. ASSUME NEW t \in TransferIds, TaskMarks(t) PROVE SettleInv'
    BY <1>11 DEF TaskMarks, MarkFailed, OfSession, registry, sessions, stopping, TypeOK,
       RegistryTypeOK, LaunchInv, SettleInv, CancelInv, Terminal
  <1>12. ASSUME NEW t \in TransferIds, TaskReturns(t) PROVE SettleInv'
    BY <1>12 DEF TaskReturns, CannotMark, registry, sessions, stopping, TypeOK,
       RegistryTypeOK, LaunchInv, SettleInv, CancelInv, Terminal
  <1>13. ASSUME NEW t \in TransferIds, CancelTransfer(t) PROVE SettleInv'
    BY <1>13 DEF CancelTransfer, registry, sessions, stopping, TypeOK, RegistryTypeOK,
       LaunchInv, SettleInv, CancelInv, Terminal
  <1>14. ASSUME NEW t \in TransferIds, CancelTransition(t) PROVE SettleInv'
    BY <1>14 DEF CancelTransition, transition, registry, sessions, stopping, TypeOK,
       RegistryTypeOK, LaunchInv, SettleInv, CancelInv, Terminal
  <1>15. ASSUME NEW t \in TransferIds, ShutdownCancels(t) PROVE SettleInv'
    BY <1>15 DEF ShutdownCancels, transition, registry, sessions, stopping, TypeOK,
       RegistryTypeOK, LaunchInv, SettleInv, CancelInv, Terminal
  <1>16. ASSUME NEW s \in SessionIds, Connect(s) PROVE SettleInv'
    BY <1>16 DEF Connect, registry, sessions, stopping, TypeOK, RegistryTypeOK, LaunchInv,
       SettleInv, CancelInv, Terminal
  <1>17. ASSUME NEW s \in SessionIds, Disconnect(s) PROVE SettleInv'
    BY <1>17 DEF Disconnect, registry, sessions, stopping, TypeOK, RegistryTypeOK,
       LaunchInv, SettleInv, CancelInv, Terminal
  <1>18. ASSUME NEW s \in SessionIds, CloseFailed(s) PROVE SettleInv'
    BY <1>18 DEF CloseFailed, registry, sessions, stopping, TypeOK, RegistryTypeOK,
       LaunchInv, SettleInv, CancelInv, Terminal
  <1>19. ASSUME NEW s \in SessionIds, CloseBegins(s) PROVE SettleInv'
    BY <1>19 DEF CloseBegins, OfSession, registry, sessions, stopping, TypeOK,
       RegistryTypeOK, LaunchInv, SettleInv, CancelInv, Terminal
  <1>20. ASSUME NEW s \in SessionIds, CloseClient(s) PROVE SettleInv'
    BY <1>20 DEF CloseClient, session_borrowed, client_borrowed, registry, sessions,
       stopping, TypeOK, RegistryTypeOK, LaunchInv, SettleInv, CancelInv, Terminal
  <1>21. ASSUME NEW s \in SessionIds, BridgeMarks(s) PROVE SettleInv'
    BY <1>21 DEF BridgeMarks, MarkFailed, OfSession, registry, sessions, stopping, TypeOK,
       RegistryTypeOK, LaunchInv, SettleInv, CancelInv, Terminal
  <1>22. ASSUME NEW s \in SessionIds, Call(s) PROVE SettleInv'
    BY <1>22 DEF Call, registry, sessions, stopping, TypeOK, RegistryTypeOK, LaunchInv,
       SettleInv, CancelInv, Terminal
  <1>23. ASSUME NEW s \in SessionIds, CallReturns(s) PROVE SettleInv'
    BY <1>23 DEF CallReturns, registry, sessions, stopping, TypeOK, RegistryTypeOK,
       LaunchInv, SettleInv, CancelInv, Terminal
  <1>24. ASSUME NEW s \in SessionIds, CallMarks(s) PROVE SettleInv'
    BY <1>24 DEF CallMarks, MarkFailed, OfSession, registry, sessions, stopping, TypeOK,
       RegistryTypeOK, LaunchInv, SettleInv, CancelInv, Terminal
  <1>25. ASSUME NEW s \in SessionIds, MarkDone(s) PROVE SettleInv'
    BY <1>25 DEF MarkDone, registry, sessions, stopping, TypeOK, RegistryTypeOK, LaunchInv,
       SettleInv, CancelInv, Terminal
  <1>26. ASSUME NEW s \in SessionIds, NEW t \in TransferIds, MarkEntry(s, t) PROVE SettleInv'
    BY <1>26 DEF MarkEntry, cancel_entry, transition, registry, sessions, stopping, TypeOK,
       RegistryTypeOK, LaunchInv, SettleInv, CancelInv, Terminal
  <1>27. ASSUME NEW s \in SessionIds, NEW t \in TransferIds, CloseEntry(s, t) PROVE SettleInv'
    BY <1>27 DEF CloseEntry, cancel_entry, transition, taken_handle, registry, sessions,
       stopping, TypeOK, RegistryTypeOK, LaunchInv, SettleInv, CancelInv, Terminal
  <1>28. ASSUME NEW s \in SessionIds, NEW t \in TransferIds, JoinTask(s, t) PROVE SettleInv'
    BY <1>28 DEF JoinTask, registry, sessions, stopping, TypeOK, RegistryTypeOK, LaunchInv,
       SettleInv, CancelInv, Terminal
  <1>29. ASSUME ListTransfers PROVE SettleInv'
    BY <1>29 DEF ListTransfers, reap, registry, sessions, stopping, TypeOK, RegistryTypeOK,
       LaunchInv, SettleInv, CancelInv, Terminal
  <1>30. ASSUME ShutdownFlag PROVE SettleInv'
    BY <1>30 DEF ShutdownFlag, registry, sessions, stopping, TypeOK, RegistryTypeOK,
       LaunchInv, SettleInv, CancelInv, Terminal
  <1>31. ASSUME ShutdownGate PROVE SettleInv'
    BY <1>31 DEF ShutdownGate, gate_readers, registry, sessions, stopping, TypeOK,
       RegistryTypeOK, LaunchInv, SettleInv, CancelInv, Terminal
  <1>32. ASSUME ShutdownTakesSessions PROVE SettleInv'
    BY <1>32 DEF ShutdownTakesSessions, registry, sessions, stopping, TypeOK,
       RegistryTypeOK, LaunchInv, SettleInv, CancelInv, Terminal
  <1>33. ASSUME ShutdownReturns PROVE SettleInv'
    BY <1>33 DEF ShutdownReturns, registry, sessions, stopping, TypeOK, RegistryTypeOK,
       LaunchInv, SettleInv, CancelInv, Terminal
  <1>34. CASE UNCHANGED vars
    BY <1>34 DEF vars, registry, sessions, stopping, TypeOK, RegistryTypeOK, LaunchInv,
       SettleInv, CancelInv, Terminal
  <1> QED
    BY <1>1, <1>2, <1>3, <1>4, <1>5, <1>6, <1>7, <1>8, <1>9, <1>10, <1>11, <1>12, <1>13,
       <1>14, <1>15, <1>16, <1>17, <1>18, <1>19, <1>20, <1>21, <1>22, <1>23, <1>24, <1>25,
       <1>26, <1>27, <1>28, <1>29, <1>30, <1>31, <1>32, <1>33, <1>34
    DEF Next, Launcher, Task, Marker, Closer, Shutdown

\* Closer and marker of a session exclude each other, and a closer only holds handles
\* of tasks of its own session that were cancelled.
LEMMA CancelStep == TypeOK /\ LaunchInv /\ CancelInv /\ [Next]_vars => CancelInv'
  <1> SUFFICES ASSUME TypeOK /\ LaunchInv /\ CancelInv, [Next]_vars PROVE CancelInv'
    OBVIOUS
  <1>1. ASSUME NEW t \in TransferIds, Start(t) PROVE CancelInv'
    BY <1>1 DEF Start, registry, sessions, stopping, TypeOK, RegistryTypeOK, LaunchInv,
       CancelInv, Terminal, shutting_down
  <1>2. ASSUME NEW t \in TransferIds, Admit(t) PROVE CancelInv'
    BY <1>2 DEF Admit, registry, sessions, stopping, TypeOK, RegistryTypeOK, LaunchInv,
       CancelInv, Terminal, shutting_down
  <1>3. ASSUME NEW t \in TransferIds, Register(t) PROVE CancelInv'
    <2>1. register(t)
      BY <1>3 DEF Register
    <2>2. /\ entries' \subseteq entries \cup {t}
          /\ \A u \in (entries \cup {t}) \ entries' : can_evict(u)
      BY <2>1, RegisterEvicts
    <2> QED
      BY <1>3, <2>2 DEF Register, register, can_evict, registry, sessions, stopping,
         TypeOK, RegistryTypeOK, LaunchInv, CancelInv, Terminal, shutting_down
  <1>4. ASSUME NEW t \in TransferIds, Spawn(t) PROVE CancelInv'
    BY <1>4 DEF Spawn, registry, sessions, stopping, TypeOK, RegistryTypeOK, LaunchInv,
       CancelInv, Terminal, shutting_down
  <1>5. ASSUME NEW t \in TransferIds, Publish(t) PROVE CancelInv'
    BY <1>5 DEF Publish, registry, sessions, stopping, TypeOK, RegistryTypeOK, LaunchInv,
       CancelInv, Terminal, shutting_down
  <1>6. ASSUME NEW t \in TransferIds, TaskRuns(t) PROVE CancelInv'
    BY <1>6 DEF TaskRuns, TaskStep, transition, registry, sessions, stopping, TypeOK,
       RegistryTypeOK, LaunchInv, CancelInv, Terminal, shutting_down
  <1>7. ASSUME NEW t \in TransferIds, TaskProgresses(t) PROVE CancelInv'
    BY <1>7 DEF TaskProgresses, TaskStep, set_progress, registry, sessions, stopping,
       TypeOK, RegistryTypeOK, LaunchInv, CancelInv, Terminal, shutting_down
  <1>8. ASSUME NEW t \in TransferIds, TaskEnds(t) PROVE CancelInv'
    BY <1>8 DEF TaskEnds, TaskStep, transition, registry, sessions, stopping, TypeOK,
       RegistryTypeOK, LaunchInv, CancelInv, Terminal, shutting_down
  <1>9. ASSUME NEW t \in TransferIds, TaskCancelled(t) PROVE CancelInv'
    BY <1>9 DEF TaskCancelled, TaskStep, transition, registry, sessions, stopping, TypeOK,
       RegistryTypeOK, LaunchInv, CancelInv, Terminal, shutting_down
  <1>10. ASSUME NEW t \in TransferIds, TaskLosesConnection(t) PROVE CancelInv'
    BY <1>10 DEF TaskLosesConnection, TaskStep, transition, registry, sessions, stopping,
       TypeOK, RegistryTypeOK, LaunchInv, CancelInv, Terminal, shutting_down
  <1>11. ASSUME NEW t \in TransferIds, TaskMarks(t) PROVE CancelInv'
    BY <1>11 DEF TaskMarks, MarkFailed, OfSession, registry, sessions, stopping, TypeOK,
       RegistryTypeOK, LaunchInv, CancelInv, Terminal, shutting_down
  <1>12. ASSUME NEW t \in TransferIds, TaskReturns(t) PROVE CancelInv'
    BY <1>12 DEF TaskReturns, CannotMark, registry, sessions, stopping, TypeOK,
       RegistryTypeOK, LaunchInv, CancelInv, Terminal, shutting_down
  <1>13. ASSUME NEW t \in TransferIds, CancelTransfer(t) PROVE CancelInv'
    BY <1>13 DEF CancelTransfer, registry, sessions, stopping, TypeOK, RegistryTypeOK,
       LaunchInv, CancelInv, Terminal, shutting_down
  <1>14. ASSUME NEW t \in TransferIds, CancelTransition(t) PROVE CancelInv'
    BY <1>14 DEF CancelTransition, transition, registry, sessions, stopping, TypeOK,
       RegistryTypeOK, LaunchInv, CancelInv, Terminal, shutting_down
  <1>15. ASSUME NEW t \in TransferIds, ShutdownCancels(t) PROVE CancelInv'
    BY <1>15 DEF ShutdownCancels, transition, registry, sessions, stopping, TypeOK,
       RegistryTypeOK, LaunchInv, CancelInv, Terminal, shutting_down
  <1>16. ASSUME NEW s \in SessionIds, Connect(s) PROVE CancelInv'
    BY <1>16 DEF Connect, registry, sessions, stopping, TypeOK, RegistryTypeOK, LaunchInv,
       CancelInv, Terminal, shutting_down
  <1>17. ASSUME NEW s \in SessionIds, Disconnect(s) PROVE CancelInv'
    BY <1>17 DEF Disconnect, registry, sessions, stopping, TypeOK, RegistryTypeOK,
       LaunchInv, CancelInv, Terminal, shutting_down
  <1>18. ASSUME NEW s \in SessionIds, CloseFailed(s) PROVE CancelInv'
    BY <1>18 DEF CloseFailed, registry, sessions, stopping, TypeOK, RegistryTypeOK,
       LaunchInv, CancelInv, Terminal, shutting_down
  <1>19. ASSUME NEW s \in SessionIds, CloseBegins(s) PROVE CancelInv'
    BY <1>19 DEF CloseBegins, OfSession, registry, sessions, stopping, TypeOK,
       RegistryTypeOK, LaunchInv, CancelInv, Terminal, shutting_down
  <1>20. ASSUME NEW s \in SessionIds, CloseClient(s) PROVE CancelInv'
    BY <1>20 DEF CloseClient, session_borrowed, client_borrowed, registry, sessions,
       stopping, TypeOK, RegistryTypeOK, LaunchInv, CancelInv, Terminal, shutting_down
  <1>21. ASSUME NEW s \in SessionIds, BridgeMarks(s) PROVE CancelInv'
    BY <1>21 DEF BridgeMarks, MarkFailed, OfSession, registry, sessions, stopping, TypeOK,
       RegistryTypeOK, LaunchInv, CancelInv, Terminal, shutting_down
  <1>22. ASSUME NEW s \in SessionIds, Call(s) PROVE CancelInv'
    BY <1>22 DEF Call, registry, sessions, stopping, TypeOK, RegistryTypeOK, LaunchInv,
       CancelInv, Terminal, shutting_down
  <1>23. ASSUME NEW s \in SessionIds, CallReturns(s) PROVE CancelInv'
    BY <1>23 DEF CallReturns, registry, sessions, stopping, TypeOK, RegistryTypeOK,
       LaunchInv, CancelInv, Terminal, shutting_down
  <1>24. ASSUME NEW s \in SessionIds, CallMarks(s) PROVE CancelInv'
    BY <1>24 DEF CallMarks, MarkFailed, OfSession, registry, sessions, stopping, TypeOK,
       RegistryTypeOK, LaunchInv, CancelInv, Terminal, shutting_down
  <1>25. ASSUME NEW s \in SessionIds, MarkDone(s) PROVE CancelInv'
    BY <1>25 DEF MarkDone, registry, sessions, stopping, TypeOK, RegistryTypeOK, LaunchInv,
       CancelInv, Terminal, shutting_down
  <1>26. ASSUME NEW s \in SessionIds, NEW t \in TransferIds, MarkEntry(s, t) PROVE CancelInv'
    BY <1>26 DEF MarkEntry, cancel_entry, transition, registry, sessions, stopping, TypeOK,
       RegistryTypeOK, LaunchInv, CancelInv, Terminal, shutting_down
  <1>27. ASSUME NEW s \in SessionIds, NEW t \in TransferIds, CloseEntry(s, t) PROVE CancelInv'
    BY <1>27 DEF CloseEntry, cancel_entry, transition, taken_handle, registry, sessions,
       stopping, TypeOK, RegistryTypeOK, LaunchInv, CancelInv, Terminal, shutting_down
  <1>28. ASSUME NEW s \in SessionIds, NEW t \in TransferIds, JoinTask(s, t) PROVE CancelInv'
    BY <1>28 DEF JoinTask, registry, sessions, stopping, TypeOK, RegistryTypeOK, LaunchInv,
       CancelInv, Terminal, shutting_down
  <1>29. ASSUME ListTransfers PROVE CancelInv'
    BY <1>29 DEF ListTransfers, reap, registry, sessions, stopping, TypeOK, RegistryTypeOK,
       LaunchInv, CancelInv, Terminal, shutting_down
  <1>30. ASSUME ShutdownFlag PROVE CancelInv'
    BY <1>30 DEF ShutdownFlag, registry, sessions, stopping, TypeOK, RegistryTypeOK,
       LaunchInv, CancelInv, Terminal, shutting_down
  <1>31. ASSUME ShutdownGate PROVE CancelInv'
    BY <1>31 DEF ShutdownGate, gate_readers, registry, sessions, stopping, TypeOK,
       RegistryTypeOK, LaunchInv, CancelInv, Terminal, shutting_down
  <1>32. ASSUME ShutdownTakesSessions PROVE CancelInv'
    BY <1>32 DEF ShutdownTakesSessions, registry, sessions, stopping, TypeOK,
       RegistryTypeOK, LaunchInv, CancelInv, Terminal, shutting_down
  <1>33. ASSUME ShutdownReturns PROVE CancelInv'
    BY <1>33 DEF ShutdownReturns, registry, sessions, stopping, TypeOK, RegistryTypeOK,
       LaunchInv, CancelInv, Terminal, shutting_down
  <1>34. CASE UNCHANGED vars
    BY <1>34 DEF vars, registry, sessions, stopping, TypeOK, RegistryTypeOK, LaunchInv,
       CancelInv, Terminal, shutting_down
  <1> QED
    BY <1>1, <1>2, <1>3, <1>4, <1>5, <1>6, <1>7, <1>8, <1>9, <1>10, <1>11, <1>12, <1>13,
       <1>14, <1>15, <1>16, <1>17, <1>18, <1>19, <1>20, <1>21, <1>22, <1>23, <1>24, <1>25,
       <1>26, <1>27, <1>28, <1>29, <1>30, <1>31, <1>32, <1>33, <1>34
    DEF Next, Launcher, Task, Marker, Closer, Shutdown

\* Nothing gets hold of a client that has been quit.
LEMMA QuitStep == TypeOK /\ LaunchInv /\ CancelInv /\ QuitIsFinal /\ [Next]_vars => QuitIsFinal'
  <1> SUFFICES ASSUME TypeOK /\ LaunchInv /\ CancelInv /\ QuitIsFinal, [Next]_vars PROVE QuitIsFinal'
    OBVIOUS
  <1>1. ASSUME NEW t \in TransferIds, Start(t) PROVE QuitIsFinal'
    BY <1>1 DEF Start, registry, sessions, stopping, TypeOK, RegistryTypeOK, LaunchInv,
       QuitIsFinal, CancelInv, launching, Live
  <1>2. ASSUME NEW t \in TransferIds, Admit(t) PROVE QuitIsFinal'
    BY <1>2 DEF Admit, registry, sessions, stopping, TypeOK, RegistryTypeOK, LaunchInv,
       QuitIsFinal, CancelInv, launching, Live
  <1>3. ASSUME NEW t \in TransferIds, Register(t) PROVE QuitIsFinal'
    <2>1. register(t)
      BY <1>3 DEF Register
    <2>2. /\ entries' \subseteq entries \cup {t}
          /\ \A u \in (entries \cup {t}) \ entries' : can_evict(u)
      BY <2>1, RegisterEvicts
    <2> QED
      BY <1>3, <2>2 DEF Register, register, can_evict, registry, sessions, stopping,
         TypeOK, RegistryTypeOK, LaunchInv, QuitIsFinal, CancelInv, launching, Live
  <1>4. ASSUME NEW t \in TransferIds, Spawn(t) PROVE QuitIsFinal'
    BY <1>4 DEF Spawn, registry, sessions, stopping, TypeOK, RegistryTypeOK, LaunchInv,
       QuitIsFinal, CancelInv, launching, Live
  <1>5. ASSUME NEW t \in TransferIds, Publish(t) PROVE QuitIsFinal'
    BY <1>5 DEF Publish, registry, sessions, stopping, TypeOK, RegistryTypeOK, LaunchInv,
       QuitIsFinal, CancelInv, launching, Live
  <1>6. ASSUME NEW t \in TransferIds, TaskRuns(t) PROVE QuitIsFinal'
    BY <1>6 DEF TaskRuns, TaskStep, transition, registry, sessions, stopping, TypeOK,
       RegistryTypeOK, LaunchInv, QuitIsFinal, CancelInv, launching, Live
  <1>7. ASSUME NEW t \in TransferIds, TaskProgresses(t) PROVE QuitIsFinal'
    BY <1>7 DEF TaskProgresses, TaskStep, set_progress, registry, sessions, stopping,
       TypeOK, RegistryTypeOK, LaunchInv, QuitIsFinal, CancelInv, launching, Live
  <1>8. ASSUME NEW t \in TransferIds, TaskEnds(t) PROVE QuitIsFinal'
    BY <1>8 DEF TaskEnds, TaskStep, transition, registry, sessions, stopping, TypeOK,
       RegistryTypeOK, LaunchInv, QuitIsFinal, CancelInv, launching, Live
  <1>9. ASSUME NEW t \in TransferIds, TaskCancelled(t) PROVE QuitIsFinal'
    BY <1>9 DEF TaskCancelled, TaskStep, transition, registry, sessions, stopping, TypeOK,
       RegistryTypeOK, LaunchInv, QuitIsFinal, CancelInv, launching, Live
  <1>10. ASSUME NEW t \in TransferIds, TaskLosesConnection(t) PROVE QuitIsFinal'
    BY <1>10 DEF TaskLosesConnection, TaskStep, transition, registry, sessions, stopping,
       TypeOK, RegistryTypeOK, LaunchInv, QuitIsFinal, CancelInv, launching, Live
  <1>11. ASSUME NEW t \in TransferIds, TaskMarks(t) PROVE QuitIsFinal'
    BY <1>11 DEF TaskMarks, MarkFailed, OfSession, registry, sessions, stopping, TypeOK,
       RegistryTypeOK, LaunchInv, QuitIsFinal, CancelInv, launching, Live
  <1>12. ASSUME NEW t \in TransferIds, TaskReturns(t) PROVE QuitIsFinal'
    BY <1>12 DEF TaskReturns, CannotMark, registry, sessions, stopping, TypeOK,
       RegistryTypeOK, LaunchInv, QuitIsFinal, CancelInv, launching, Live
  <1>13. ASSUME NEW t \in TransferIds, CancelTransfer(t) PROVE QuitIsFinal'
    BY <1>13 DEF CancelTransfer, registry, sessions, stopping, TypeOK, RegistryTypeOK,
       LaunchInv, QuitIsFinal, CancelInv, launching, Live
  <1>14. ASSUME NEW t \in TransferIds, CancelTransition(t) PROVE QuitIsFinal'
    BY <1>14 DEF CancelTransition, transition, registry, sessions, stopping, TypeOK,
       RegistryTypeOK, LaunchInv, QuitIsFinal, CancelInv, launching, Live
  <1>15. ASSUME NEW t \in TransferIds, ShutdownCancels(t) PROVE QuitIsFinal'
    BY <1>15 DEF ShutdownCancels, transition, registry, sessions, stopping, TypeOK,
       RegistryTypeOK, LaunchInv, QuitIsFinal, CancelInv, launching, Live
  <1>16. ASSUME NEW s \in SessionIds, Connect(s) PROVE QuitIsFinal'
    BY <1>16 DEF Connect, registry, sessions, stopping, TypeOK, RegistryTypeOK, LaunchInv,
       QuitIsFinal, CancelInv, launching, Live
  <1>17. ASSUME NEW s \in SessionIds, Disconnect(s) PROVE QuitIsFinal'
    BY <1>17 DEF Disconnect, registry, sessions, stopping, TypeOK, RegistryTypeOK,
       LaunchInv, QuitIsFinal, CancelInv, launching, Live
  <1>18. ASSUME NEW s \in SessionIds, CloseFailed(s) PROVE QuitIsFinal'
    BY <1>18 DEF CloseFailed, registry, sessions, stopping, TypeOK, RegistryTypeOK,
       LaunchInv, QuitIsFinal, CancelInv, launching, Live
  <1>19. ASSUME NEW s \in SessionIds, CloseBegins(s) PROVE QuitIsFinal'
    BY <1>19 DEF CloseBegins, OfSession, registry, sessions, stopping, TypeOK,
       RegistryTypeOK, LaunchInv, QuitIsFinal, CancelInv, launching, Live
  <1>20. ASSUME NEW s \in SessionIds, CloseClient(s) PROVE QuitIsFinal'
    BY <1>20 DEF CloseClient, session_borrowed, client_borrowed, registry, sessions,
       stopping, TypeOK, RegistryTypeOK, LaunchInv, QuitIsFinal, CancelInv, launching, Live
  <1>21. ASSUME NEW s \in SessionIds, BridgeMarks(s) PROVE QuitIsFinal'
    BY <1>21 DEF BridgeMarks, MarkFailed, OfSession, registry, sessions, stopping, TypeOK,
       RegistryTypeOK, LaunchInv, QuitIsFinal, CancelInv, launching, Live
  <1>22. ASSUME NEW s \in SessionIds, Call(s) PROVE QuitIsFinal'
    BY <1>22 DEF Call, registry, sessions, stopping, TypeOK, RegistryTypeOK, LaunchInv,
       QuitIsFinal, CancelInv, launching, Live
  <1>23. ASSUME NEW s \in SessionIds, CallReturns(s) PROVE QuitIsFinal'
    BY <1>23 DEF CallReturns, registry, sessions, stopping, TypeOK, RegistryTypeOK,
       LaunchInv, QuitIsFinal, CancelInv, launching, Live
  <1>24. ASSUME NEW s \in SessionIds, CallMarks(s) PROVE QuitIsFinal'
    BY <1>24 DEF CallMarks, MarkFailed, OfSession, registry, sessions, stopping, TypeOK,
       RegistryTypeOK, LaunchInv, QuitIsFinal, CancelInv, launching, Live
  <1>25. ASSUME NEW s \in SessionIds, MarkDone(s) PROVE QuitIsFinal'
    BY <1>25 DEF MarkDone, registry, sessions, stopping, TypeOK, RegistryTypeOK, LaunchInv,
       QuitIsFinal, CancelInv, launching, Live
  <1>26. ASSUME NEW s \in SessionIds, NEW t \in TransferIds, MarkEntry(s, t) PROVE QuitIsFinal'
    BY <1>26 DEF MarkEntry, cancel_entry, transition, registry, sessions, stopping, TypeOK,
       RegistryTypeOK, LaunchInv, QuitIsFinal, CancelInv, launching, Live
  <1>27. ASSUME NEW s \in SessionIds, NEW t \in TransferIds, CloseEntry(s, t) PROVE QuitIsFinal'
    BY <1>27 DEF CloseEntry, cancel_entry, transition, taken_handle, registry, sessions,
       stopping, TypeOK, RegistryTypeOK, LaunchInv, QuitIsFinal, CancelInv, launching, Live
  <1>28. ASSUME NEW s \in SessionIds, NEW t \in TransferIds, JoinTask(s, t) PROVE QuitIsFinal'
    BY <1>28 DEF JoinTask, registry, sessions, stopping, TypeOK, RegistryTypeOK, LaunchInv,
       QuitIsFinal, CancelInv, launching, Live
  <1>29. ASSUME ListTransfers PROVE QuitIsFinal'
    BY <1>29 DEF ListTransfers, reap, registry, sessions, stopping, TypeOK, RegistryTypeOK,
       LaunchInv, QuitIsFinal, CancelInv, launching, Live
  <1>30. ASSUME ShutdownFlag PROVE QuitIsFinal'
    BY <1>30 DEF ShutdownFlag, registry, sessions, stopping, TypeOK, RegistryTypeOK,
       LaunchInv, QuitIsFinal, CancelInv, launching, Live
  <1>31. ASSUME ShutdownGate PROVE QuitIsFinal'
    BY <1>31 DEF ShutdownGate, gate_readers, registry, sessions, stopping, TypeOK,
       RegistryTypeOK, LaunchInv, QuitIsFinal, CancelInv, launching, Live
  <1>32. ASSUME ShutdownTakesSessions PROVE QuitIsFinal'
    BY <1>32 DEF ShutdownTakesSessions, registry, sessions, stopping, TypeOK,
       RegistryTypeOK, LaunchInv, QuitIsFinal, CancelInv, launching, Live
  <1>33. ASSUME ShutdownReturns PROVE QuitIsFinal'
    BY <1>33 DEF ShutdownReturns, registry, sessions, stopping, TypeOK, RegistryTypeOK,
       LaunchInv, QuitIsFinal, CancelInv, launching, Live
  <1>34. CASE UNCHANGED vars
    BY <1>34 DEF vars, registry, sessions, stopping, TypeOK, RegistryTypeOK, LaunchInv,
       QuitIsFinal, CancelInv, launching, Live
  <1> QED
    BY <1>1, <1>2, <1>3, <1>4, <1>5, <1>6, <1>7, <1>8, <1>9, <1>10, <1>11, <1>12, <1>13,
       <1>14, <1>15, <1>16, <1>17, <1>18, <1>19, <1>20, <1>21, <1>22, <1>23, <1>24, <1>25,
       <1>26, <1>27, <1>28, <1>29, <1>30, <1>31, <1>32, <1>33, <1>34
    DEF Next, Launcher, Task, Marker, Closer, Shutdown

\* A live task of a Ready session has its handle in a registered slot once its
\* launcher is gone.
LEMMA HandlesHeld ==
    ASSUME TypeOK, LaunchInv, SlotInv, NEW t \in TransferIds,
           Live(t), sess[SessionOf[t]] = "Ready"
    PROVE  launch[t] = "spawned" \/ (t \in entries /\ slot[t] = "Published")
  BY DEF TypeOK, RegistryTypeOK, Slots, LaunchInv, SlotInv, Live, Over

\* Shutdown's promise survives whatever the others do.
LEMMA StopStep == IndInv /\ [Next]_vars => StopInv'
  <1> SUFFICES ASSUME IndInv, [Next]_vars PROVE StopInv'
    OBVIOUS
  <1>1. ASSUME NEW t \in TransferIds, Start(t) PROVE StopInv'
    BY <1>1 DEF Start, registry, sessions, stopping, TypeOK, RegistryTypeOK, IndInv,
       LaunchInv, SlotInv, CancelInv, StopInv, InReach, Over, launching, Live, Terminal,
       shutting_down
  <1>2. ASSUME NEW t \in TransferIds, Admit(t) PROVE StopInv'
    BY <1>2 DEF Admit, registry, sessions, stopping, TypeOK, RegistryTypeOK, IndInv,
       LaunchInv, SlotInv, CancelInv, StopInv, InReach, Over, launching, Live, Terminal,
       shutting_down
  <1>3. ASSUME NEW t \in TransferIds, Register(t) PROVE StopInv'
    <2>1. register(t)
      BY <1>3 DEF Register
    <2>2. /\ entries' \subseteq entries \cup {t}
          /\ \A u \in (entries \cup {t}) \ entries' : can_evict(u)
      BY <2>1, RegisterEvicts
    <2> QED
      BY <1>3, <2>2 DEF Register, register, can_evict, registry, sessions, stopping,
         TypeOK, RegistryTypeOK, IndInv, LaunchInv, SlotInv, CancelInv, StopInv, InReach,
         Over, launching, Live, Terminal, shutting_down
  <1>4. ASSUME NEW t \in TransferIds, Spawn(t) PROVE StopInv'
    BY <1>4 DEF Spawn, registry, sessions, stopping, TypeOK, RegistryTypeOK, IndInv,
       LaunchInv, SlotInv, CancelInv, StopInv, InReach, Over, launching, Live, Terminal,
       shutting_down
  <1>5. ASSUME NEW t \in TransferIds, Publish(t) PROVE StopInv'
    BY <1>5 DEF Publish, registry, sessions, stopping, TypeOK, RegistryTypeOK, IndInv,
       LaunchInv, SlotInv, CancelInv, StopInv, InReach, Over, launching, Live, Terminal,
       shutting_down
  <1>6. ASSUME NEW t \in TransferIds, TaskRuns(t) PROVE StopInv'
    BY <1>6 DEF TaskRuns, TaskStep, transition, registry, sessions, stopping, TypeOK,
       RegistryTypeOK, IndInv, LaunchInv, SlotInv, CancelInv, StopInv, InReach, Over,
       launching, Live, Terminal, shutting_down
  <1>7. ASSUME NEW t \in TransferIds, TaskProgresses(t) PROVE StopInv'
    BY <1>7 DEF TaskProgresses, TaskStep, set_progress, registry, sessions, stopping,
       TypeOK, RegistryTypeOK, IndInv, LaunchInv, SlotInv, CancelInv, StopInv, InReach,
       Over, launching, Live, Terminal, shutting_down
  <1>8. ASSUME NEW t \in TransferIds, TaskEnds(t) PROVE StopInv'
    BY <1>8 DEF TaskEnds, TaskStep, transition, registry, sessions, stopping, TypeOK,
       RegistryTypeOK, IndInv, LaunchInv, SlotInv, CancelInv, StopInv, InReach, Over,
       launching, Live, Terminal, shutting_down
  <1>9. ASSUME NEW t \in TransferIds, TaskCancelled(t) PROVE StopInv'
    BY <1>9 DEF TaskCancelled, TaskStep, transition, registry, sessions, stopping, TypeOK,
       RegistryTypeOK, IndInv, LaunchInv, SlotInv, CancelInv, StopInv, InReach, Over,
       launching, Live, Terminal, shutting_down
  <1>10. ASSUME NEW t \in TransferIds, TaskLosesConnection(t) PROVE StopInv'
    BY <1>10 DEF TaskLosesConnection, TaskStep, transition, registry, sessions, stopping,
       TypeOK, RegistryTypeOK, IndInv, LaunchInv, SlotInv, CancelInv, StopInv, InReach,
       Over, launching, Live, Terminal, shutting_down
  <1>11. ASSUME NEW t \in TransferIds, TaskMarks(t) PROVE StopInv'
    BY <1>11 DEF TaskMarks, MarkFailed, OfSession, registry, sessions, stopping, TypeOK,
       RegistryTypeOK, IndInv, LaunchInv, SlotInv, CancelInv, StopInv, InReach, Over,
       launching, Live, Terminal, shutting_down
  <1>12. ASSUME NEW t \in TransferIds, TaskReturns(t) PROVE StopInv'
    BY <1>12 DEF TaskReturns, CannotMark, registry, sessions, stopping, TypeOK,
       RegistryTypeOK, IndInv, LaunchInv, SlotInv, CancelInv, StopInv, InReach, Over,
       launching, Live, Terminal, shutting_down
  <1>13. ASSUME NEW t \in TransferIds, CancelTransfer(t) PROVE StopInv'
    BY <1>13 DEF CancelTransfer, registry, sessions, stopping, TypeOK, RegistryTypeOK,
       IndInv, LaunchInv, SlotInv, CancelInv, StopInv, InReach, Over, launching, Live,
       Terminal, shutting_down
  <1>14. ASSUME NEW t \in TransferIds, CancelTransition(t) PROVE StopInv'
    BY <1>14 DEF CancelTransition, transition, registry, sessions, stopping, TypeOK,
       RegistryTypeOK, IndInv, LaunchInv, SlotInv, CancelInv, StopInv, InReach, Over,
       launching, Live, Terminal, shutting_down
  <1>15. ASSUME NEW t \in TransferIds, ShutdownCancels(t) PROVE StopInv'
    <2>1. /\ shutdown = "cancelling" /\ shutdown' = "cancelling"
          /\ UNCHANGED <<entries, launch>>
          /\ stops' = stops \ {t}
      BY <1>15 DEF ShutdownCancels
    <2>2. \A u \in TransferIds \ Batches : ~launching(u)'
      BY <2>1 DEF IndInv, StopInv, launching
    <2>3. ASSUME NEW u \in TransferIds \ Batches, u \in entries
          PROVE  u \in stops' \/ (token'[u] /\ state'[u] \in Terminal)
      <3>1. CASE u = t
        BY <1>15, <2>3, <3>1 DEF ShutdownCancels, transition, IndInv, TypeOK,
           RegistryTypeOK, Terminal
      <3>2. CASE u # t
        BY <1>15, <2>1, <2>3, <3>2
           DEF ShutdownCancels, transition, IndInv, TypeOK, RegistryTypeOK, StopInv
      <3> QED
        BY <3>1, <3>2
    <2> QED
      BY <2>1, <2>2, <2>3 DEF StopInv
  <1>16. ASSUME NEW s \in SessionIds, Connect(s) PROVE StopInv'
    BY <1>16 DEF Connect, registry, sessions, stopping, TypeOK, RegistryTypeOK, IndInv,
       LaunchInv, SlotInv, CancelInv, StopInv, InReach, Over, launching, Live, Terminal,
       shutting_down
  <1>17. ASSUME NEW s \in SessionIds, Disconnect(s) PROVE StopInv'
    BY <1>17 DEF Disconnect, registry, sessions, stopping, TypeOK, RegistryTypeOK, IndInv,
       LaunchInv, SlotInv, CancelInv, StopInv, InReach, Over, launching, Live, Terminal,
       shutting_down
  <1>18. ASSUME NEW s \in SessionIds, CloseFailed(s) PROVE StopInv'
    BY <1>18 DEF CloseFailed, registry, sessions, stopping, TypeOK, RegistryTypeOK, IndInv,
       LaunchInv, SlotInv, CancelInv, StopInv, InReach, Over, launching, Live, Terminal,
       shutting_down
  <1>19. ASSUME NEW s \in SessionIds, CloseBegins(s) PROVE StopInv'
    <2> USE DEF IndInv
    <2>1. /\ UNCHANGED <<registry, task, launch, registered, joins, stopping>>
          /\ closing' = [closing EXCEPT ![s] = "cancelling"]
          /\ sess[s] = "Ready" /\ sess' = [sess EXCEPT ![s] = "Disconnecting"]
          /\ todo' = [todo EXCEPT ![s] = OfSession(s)]
          /\ closing[s] = "removed"
      BY <1>19 DEF CloseBegins, stopping
    <2>2. ASSUME NEW t \in TransferIds \ Batches, shutdown \in {"closing", "done"},
                 SessionOf[t] \in mine, Live(t)
          PROVE  InReach(t)'
      <3>1. CASE SessionOf[t] = s
        <4>1. ~launching(t)
          BY <2>2 DEF StopInv
        <4>2. t \in entries /\ slot[t] = "Published"
          BY <2>1, <2>2, <3>1, <4>1, HandlesHeld DEF launching
        <4> QED
          BY <2>1, <3>1, <4>2 DEF InReach, OfSession, TypeOK, registry
      <3>2. CASE SessionOf[t] # s
        BY <2>1, <2>2, <3>2 DEF StopInv, InReach, TypeOK, registry
      <3> QED
        BY <3>1, <3>2
    <2>3. shutdown = "done" => s \notin mine
      BY <2>1 DEF StopInv
    <2> QED
      BY <2>1, <2>2, <2>3 DEF StopInv, launching, Live, TypeOK, registry, stopping
  <1>20. ASSUME NEW s \in SessionIds, CloseClient(s) PROVE StopInv'
    BY <1>20 DEF CloseClient, session_borrowed, client_borrowed, registry, sessions,
       stopping, TypeOK, RegistryTypeOK, IndInv, LaunchInv, SlotInv, CancelInv, StopInv,
       InReach, Over, launching, Live, Terminal, shutting_down
  <1>21. ASSUME NEW s \in SessionIds, BridgeMarks(s) PROVE StopInv'
    BY <1>21 DEF BridgeMarks, MarkFailed, OfSession, registry, sessions, stopping, TypeOK,
       RegistryTypeOK, IndInv, LaunchInv, SlotInv, CancelInv, StopInv, InReach, Over,
       launching, Live, Terminal, shutting_down
  <1>22. ASSUME NEW s \in SessionIds, Call(s) PROVE StopInv'
    BY <1>22 DEF Call, registry, sessions, stopping, TypeOK, RegistryTypeOK, IndInv,
       LaunchInv, SlotInv, CancelInv, StopInv, InReach, Over, launching, Live, Terminal,
       shutting_down
  <1>23. ASSUME NEW s \in SessionIds, CallReturns(s) PROVE StopInv'
    BY <1>23 DEF CallReturns, registry, sessions, stopping, TypeOK, RegistryTypeOK, IndInv,
       LaunchInv, SlotInv, CancelInv, StopInv, InReach, Over, launching, Live, Terminal,
       shutting_down
  <1>24. ASSUME NEW s \in SessionIds, CallMarks(s) PROVE StopInv'
    BY <1>24 DEF CallMarks, MarkFailed, OfSession, registry, sessions, stopping, TypeOK,
       RegistryTypeOK, IndInv, LaunchInv, SlotInv, CancelInv, StopInv, InReach, Over,
       launching, Live, Terminal, shutting_down
  <1>25. ASSUME NEW s \in SessionIds, MarkDone(s) PROVE StopInv'
    BY <1>25 DEF MarkDone, registry, sessions, stopping, TypeOK, RegistryTypeOK, IndInv,
       LaunchInv, SlotInv, CancelInv, StopInv, InReach, Over, launching, Live, Terminal,
       shutting_down
  <1>26. ASSUME NEW s \in SessionIds, NEW t \in TransferIds, MarkEntry(s, t) PROVE StopInv'
    BY <1>26 DEF MarkEntry, cancel_entry, transition, registry, sessions, stopping, TypeOK,
       RegistryTypeOK, IndInv, LaunchInv, SlotInv, CancelInv, StopInv, InReach, Over,
       launching, Live, Terminal, shutting_down
  <1>27. ASSUME NEW s \in SessionIds, NEW t \in TransferIds, CloseEntry(s, t) PROVE StopInv'
    BY <1>27 DEF CloseEntry, cancel_entry, transition, taken_handle, registry, sessions,
       stopping, TypeOK, RegistryTypeOK, IndInv, LaunchInv, SlotInv, CancelInv, StopInv,
       InReach, Over, launching, Live, Terminal, shutting_down
  <1>28. ASSUME NEW s \in SessionIds, NEW t \in TransferIds, JoinTask(s, t) PROVE StopInv'
    BY <1>28 DEF JoinTask, registry, sessions, stopping, TypeOK, RegistryTypeOK, IndInv,
       LaunchInv, SlotInv, CancelInv, StopInv, InReach, Over, launching, Live, Terminal,
       shutting_down
  <1>29. ASSUME ListTransfers PROVE StopInv'
    BY <1>29 DEF ListTransfers, reap, registry, sessions, stopping, TypeOK, RegistryTypeOK,
       IndInv, LaunchInv, SlotInv, CancelInv, StopInv, InReach, Over, launching, Live,
       Terminal, shutting_down
  <1>30. ASSUME ShutdownFlag PROVE StopInv'
    BY <1>30 DEF ShutdownFlag, registry, sessions, stopping, TypeOK, RegistryTypeOK, IndInv,
       LaunchInv, SlotInv, CancelInv, StopInv, InReach, Over, launching, Live, Terminal,
       shutting_down
  <1>31. ASSUME ShutdownGate PROVE StopInv'
    BY <1>31 DEF ShutdownGate, gate_readers, registry, sessions, stopping, TypeOK,
       RegistryTypeOK, IndInv, LaunchInv, SlotInv, CancelInv, StopInv, InReach, Over,
       launching, Live, Terminal, shutting_down
  <1>32. ASSUME ShutdownTakesSessions PROVE StopInv'
    BY <1>32 DEF ShutdownTakesSessions, registry, sessions, stopping, TypeOK,
       RegistryTypeOK, IndInv, LaunchInv, SlotInv, CancelInv, StopInv, InReach, Over,
       launching, Live, Terminal, shutting_down
  <1>33. ASSUME ShutdownReturns PROVE StopInv'
    BY <1>33 DEF ShutdownReturns, registry, sessions, stopping, TypeOK, RegistryTypeOK,
       IndInv, LaunchInv, SlotInv, CancelInv, StopInv, InReach, Over, launching, Live,
       Terminal, shutting_down
  <1>34. CASE UNCHANGED vars
    BY <1>34 DEF vars, registry, sessions, stopping, TypeOK, RegistryTypeOK, IndInv,
       LaunchInv, SlotInv, CancelInv, StopInv, InReach, Over, launching, Live, Terminal,
       shutting_down
  <1> QED
    BY <1>1, <1>2, <1>3, <1>4, <1>5, <1>6, <1>7, <1>8, <1>9, <1>10, <1>11, <1>12, <1>13,
       <1>14, <1>15, <1>16, <1>17, <1>18, <1>19, <1>20, <1>21, <1>22, <1>23, <1>24, <1>25,
       <1>26, <1>27, <1>28, <1>29, <1>30, <1>31, <1>32, <1>33, <1>34
    DEF Next, Launcher, Task, Marker, Closer, Shutdown

\* The invariant is inductive.
LEMMA InvStep == IndInv /\ [Next]_vars => IndInv'
  BY TypeStep, LaunchStep, SlotStep, SettleStep, CancelStep, QuitStep, StopStep DEF IndInv

\* The invariant holds in every reachable state.
LEMMA Invariance == Spec => []IndInv
  BY InitInv, InvStep, PTL DEF Spec

-----------------------------------------------------------------------------
(***************************************************************************)
(* The properties.                                                         *)
(***************************************************************************)

\* Every reachable state of runtime and registry is well typed.
THEOREM TypeCorrect == Spec => []TypeOK
  <1>1. IndInv => TypeOK
    BY DEF IndInv
  <1> QED
    BY <1>1, Invariance, PTL

\* The history never drops the handle of a running task of a Ready session
\* (reap_locked).
THEOREM HandleOwnedHolds == Spec => []HandleOwned
  <1>1. IndInv => HandleOwned
    BY HandlesHeld DEF IndInv, HandleOwned, Owned
  <1> QED
    BY <1>1, Invariance, PTL

\* A task that is over leaves a terminal snapshot, or a canceller that is about
\* to write one (transition, cancel, cancel_for_session).
THEOREM EndedTaskSettlesHolds == Spec => []EndedTaskSettles
  <1>1. IndInv => EndedTaskSettles
    BY DEF IndInv, SettleInv, EndedTaskSettles
  <1> QED
    BY <1>1, Invariance, PTL

\* After shutdown() every single transfer that still runs was told to stop
\* (the launch gate and shutdown's cancel loop).
THEOREM NobodyLeftRunningHolds == Spec => []NobodyLeftRunning
  <1>1. IndInv => NobodyLeftRunning
    <2> SUFFICES ASSUME IndInv, shutdown = "done", NEW t \in TransferIds \ Batches, Live(t)
                 PROVE  token[t] /\ state[t] \in Terminal
      BY DEF NobodyLeftRunning
    <2>1. CASE t \in entries
      BY <2>1 DEF IndInv, StopInv
    <2>2. CASE t \notin entries
      BY <2>2 DEF IndInv, LaunchInv, SlotInv, Live
    <2> QED
      BY <2>1, <2>2
  <1> QED
    BY <1>1, Invariance, PTL

\* shutdown() joined every single transfer of the sessions it closed itself
\* and did not find Failed (close_session).
THEOREM ShutdownJoinsHolds == Spec => []ShutdownJoins
  <1>1. IndInv => ShutdownJoins
    BY DEF IndInv, StopInv, InReach, ShutdownJoins
  <1> QED
    BY <1>1, Invariance, PTL

\* What shutdown() promises of single transfers once it returned.
THEOREM ShutdownCompleteHolds == Spec => []ShutdownComplete
  <1>1. NobodyLeftRunning /\ ShutdownJoins => ShutdownComplete
    BY DEF ShutdownComplete
  <1> QED
    BY <1>1, NobodyLeftRunningHolds, ShutdownJoinsHolds, PTL

\* A client that was quit is never used again (close_session, session_handle).
THEOREM QuitIsFinalHolds == Spec => []QuitIsFinal
  <1>1. IndInv => QuitIsFinal
    BY DEF IndInv
  <1> QED
    BY <1>1, Invariance, PTL

-----------------------------------------------------------------------------
(***************************************************************************)
(* The registry implements OneWayTransfer.                                 *)
(***************************************************************************)

\* Registering shows a new transfer and hides ended ones only.
LEMMA RegisterOneWay ==
    ASSUME TypeOK, LaunchInv, NEW t \in TransferIds, Register(t)
    PROVE  Readers!Next
  <1> DEFINE gone == (entries \cup {t}) \ entries'
  <1>1. register(t) /\ launch[t] = "admitted"
    BY DEF Register
  <1>2. entries' \subseteq entries \cup {t} /\ \A u \in gone : can_evict(u)
    BY <1>1, RegisterEvicts
  <1>3. state[t] = "none" /\ t \notin entries
    BY <1>1 DEF LaunchInv
  <1>4. t \in entries' /\ gone \in SUBSET {u \in TransferIds : Visible[u] \in Readers!Ended}
    BY <1>2, <1>3 DEF can_evict, Visible, Terminal, Readers!Ended, TypeOK, RegistryTypeOK
  <1>5. Visible[t] = "none"
    BY <1>3 DEF Visible
  <1>6. state' = [state EXCEPT ![t] = "Queued"]
    BY <1>1 DEF register
  <1>7. Visible' = [u \in TransferIds |->
                        IF u = t THEN "Queued" ELSE IF u \in gone THEN "gone" ELSE Visible[u]]
    <2>1. ASSUME NEW u \in TransferIds
          PROVE  Visible'[u] = IF u = t THEN "Queued"
                               ELSE IF u \in gone THEN "gone" ELSE Visible[u]
      BY <1>2, <1>3, <1>4, <1>6 DEF Visible, can_evict, Terminal, TypeOK, RegistryTypeOK
    <2>2. Visible' = [u \in TransferIds |-> Visible'[u]]
      BY DEF Visible
    <2> QED
      BY <2>1, <2>2
  <1> HIDE DEF gone
  <1> QED
    BY <1>4, <1>5, <1>7 DEF Readers!Next, Readers!QueueAndForget

\* Every step of the runtime is one readers may see, or shows them nothing.
LEMMA StepOneWay == IndInv /\ [Next]_vars => [Readers!Next]_Visible
  <1> SUFFICES ASSUME TypeOK, LaunchInv, [Next]_vars PROVE [Readers!Next]_Visible
    BY DEF IndInv
  <1>1. ASSUME NEW t \in TransferIds, Register(t) PROVE [Readers!Next]_Visible
    BY <1>1, RegisterOneWay
  <1>2. ASSUME NEW t \in TransferIds,
               \/ TaskRuns(t) \/ TaskProgresses(t) \/ TaskEnds(t) \/ TaskCancelled(t)
               \/ TaskLosesConnection(t) \/ CancelTransition(t) \/ ShutdownCancels(t)
        PROVE  [Readers!Next]_Visible
    <2>1. /\ entries' = entries
          /\ \/ state' = state
             \/ \E next \in {"Running"} \cup Terminal : state' = transition(t, next)
      BY <1>2 DEF TaskRuns, TaskProgresses, TaskEnds, TaskCancelled, TaskLosesConnection,
                  CancelTransition, ShutdownCancels, TaskStep, set_progress, transition, Terminal
    <2> QED
      BY <2>1, TransitionOneWay DEF Visible
  <1>3. ASSUME NEW s \in SessionIds, NEW t \in TransferIds, MarkEntry(s, t) \/ CloseEntry(s, t)
        PROVE  [Readers!Next]_Visible
    <2>1. entries' = entries /\ state' = transition(t, "Cancelled")
      BY <1>3 DEF MarkEntry, CloseEntry, cancel_entry
    <2> QED
      BY <2>1, TransitionOneWay DEF Terminal
  <1>4. CASE UNCHANGED <<entries, state>>
    BY <1>4 DEF Visible
  <1>5. ASSUME NEW t \in TransferIds,
               \/ Start(t) \/ Admit(t) \/ Spawn(t) \/ Publish(t) \/ TaskMarks(t) \/ TaskReturns(t)
               \/ CancelTransfer(t)
        PROVE  UNCHANGED <<entries, state>>
    BY <1>5 DEF Start, Admit, Spawn, Publish, TaskMarks, TaskReturns, CancelTransfer, registry
  <1>6. ASSUME NEW s \in SessionIds,
               \/ Connect(s) \/ Disconnect(s) \/ CloseFailed(s) \/ CloseBegins(s) \/ CloseClient(s)
               \/ BridgeMarks(s) \/ Call(s) \/ CallReturns(s) \/ CallMarks(s) \/ MarkDone(s)
               \/ \E t \in TransferIds : JoinTask(s, t)
        PROVE  UNCHANGED <<entries, state>>
    BY <1>6 DEF Connect, Disconnect, CloseFailed, CloseBegins, CloseClient, BridgeMarks, Call,
                CallReturns, CallMarks, MarkDone, JoinTask, registry
  <1>7. ASSUME \/ ListTransfers \/ ShutdownFlag \/ ShutdownGate \/ ShutdownTakesSessions
               \/ ShutdownReturns \/ UNCHANGED vars
        PROVE  UNCHANGED <<entries, state>>
    BY <1>7 DEF ListTransfers, reap, ShutdownFlag, ShutdownGate, ShutdownTakesSessions,
                ShutdownReturns, vars, registry
  <1> QED
    BY <1>1, <1>2, <1>3, <1>4, <1>5, <1>6, <1>7
    DEF Next, Launcher, Task, Marker, Closer, Shutdown

\* The registry implements the abstract specification: readers see one-way
\* transfers (transition, set_progress, reap_locked).
THEOREM OneWayHolds == Spec => OneWay
  <1>1. Init => Readers!Init
    BY DEF Init, RegistryInit, Readers!Init, Visible
  <1> QED
    BY <1>1, StepOneWay, Invariance, PTL DEF Spec, OneWay, Readers!Spec
=============================================================================
