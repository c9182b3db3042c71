-------------------------- MODULE PhotoSyncProofs --------------------------
(***************************************************************************)
(* Machine-checked proofs about PhotoSync, for every set of paths,         *)
(* contents, names and every value of the bounds.                          *)
(***************************************************************************)
EXTENDS PhotoSync, TLAPS

USE SyncPlanAssumption, NoRowAssumption, PhotoSyncAssumption, NoActionAssumption

-----------------------------------------------------------------------------
(***************************************************************************)
(* Facts about the records the engine builds.                              *)
(***************************************************************************)

\* The phone's checksum of a reported file is a checksum value.
LEMMA ChecksumType == \A file \in RemoteFile : checksum(file) \in Sums /\ file.meta \in Metas
  BY DEF RemoteFile, checksum

\* A metadata update of a record is a record, of the same local bytes.
LEMMA WithMetadata ==
    \A row \in Row, file \in RemoteFile :
        /\ with_metadata(row, file) \in Row
        /\ with_metadata(row, file).local_sha256 = row.local_sha256
  BY ChecksumType DEF Row, with_metadata

\* A reported file that is not a directory has bytes.
LEMMA FileBytes == \A file \in RemoteFile : ~is_directory(file) => file.content \in Contents
  BY DEF RemoteFile, is_directory

-----------------------------------------------------------------------------
(***************************************************************************)
(* Type correctness.                                                       *)
(***************************************************************************)

\* Before the first run nothing is on disk and the engine is idle.
LEMMA InitType == Init => TypeOK
  <1> SUFFICES ASSUME Init PROVE TypeOK
    OBVIOUS
  <1>1. /\ local \in [Paths -> LocalFile]
        /\ part \in [PartNames -> Contents \cup {Absent}]
        /\ trash \in [TrashNames -> LocalFile]
    BY DEF Init, LocalFile
  <1>2. ledger \in Snapshot /\ snap \in Snapshot /\ listing \in Listing /\ phone \in Listing
    BY DEF Init, Snapshot, Listing
  <1>3. owner \in [Paths -> {"user", "sync"}] /\ budget \in [Kinds -> Nat]
    BY DEF Init
  <1>4. events \in Seq(FileChange) /\ batch \in Seq(FileChange)
    BY DEF Init
  <1> QED
    BY <1>1, <1>2, <1>3, <1>4 DEF Init, TypeOK, Pcs

\* What a run keeps in memory is well typed when it is dropped.
LEMMA NoWorkType ==
    NoWork => /\ snap' \in Snapshot /\ listing' \in Listing
              /\ adds' \subseteq Paths /\ dels' \subseteq Paths /\ infos' \subseteq Paths
              /\ batch' \in Seq(FileChange)
              /\ held' \in PendingSyncAction \cup {NoAction}
  BY DEF NoWork, Snapshot, Listing

\* A bounded event leaves the budget in its type.
LEMMA SpendType ==
    ASSUME NEW kind \in Kinds, TypeOK, Spend(kind)
    PROVE  budget' \in [Kinds -> Nat]
  BY DEF TypeOK, Spend

\* Taking an item off the plan or the batch keeps both in their types.
LEMMA ConsumeType ==
    ASSUME NEW p \in Paths, TypeOK, Consume(p), mode = "watch" => batch # <<>>
    PROVE  /\ adds' \subseteq Paths /\ dels' \subseteq Paths
           /\ batch' \in Seq(FileChange) /\ exposed' \subseteq Paths
  <1>1. CASE mode = "run"
    BY <1>1 DEF TypeOK, Consume
  <1>2. CASE mode # "run"
    <2>1. batch' = Tail(batch) /\ exposed' = exposed \ {p} /\ UNCHANGED <<adds, dels>>
      BY <1>2 DEF Consume
    <2>2. batch \in Seq(FileChange) /\ batch # <<>>
      BY <1>2 DEF TypeOK
    <2>3. Tail(batch) \in Seq(FileChange)
      BY <2>2
    <2> QED
      BY <2>1, <2>3 DEF TypeOK
  <1> QED
    BY <1>1, <1>2

\* Delivering a FILE_CHANGE event keeps the channel in its type.
LEMMA NotifyType ==
    ASSUME TypeOK, NEW status \in {"added", "modified", "info", "deleted"},
           NEW p \in Paths, NEW file \in RemoteFile, Notify(status, p, file)
    PROVE  events' \in Seq(FileChange) /\ watching' \in BOOLEAN /\ lagged' \in BOOLEAN
  <1> DEFINE change == [status |-> status, path |-> p, file |-> file]
  <1>1. change \in FileChange
    BY DEF FileChange
  <1>2. Append(events, change) \in Seq(FileChange)
    BY <1>1 DEF TypeOK
  <1> QED
    BY <1>2 DEF Notify, TypeOK, channel

\* Every action keeps every variable in its type.
LEMMA TypeStep == IndInv /\ [Next]_vars => TypeOK'
  <1> SUFFICES ASSUME IndInv, [Next]_vars PROVE TypeOK'
    OBVIOUS
  <1> USE DEF disk, channel, work, engine, observer, vars, IndInv, TypeOK
  <1>1. ASSUME StartRun PROVE TypeOK'
    BY <1>1 DEF StartRun, Pcs
  <1>2. ASSUME StartWatch PROVE TypeOK'
    BY <1>2 DEF StartWatch
  <1>3. ASSUME StartBatch PROVE TypeOK'
    BY <1>3 DEF StartBatch, Pcs
  <1>4. ASSUME StopWatch PROVE TypeOK'
    <2>1. events' \in Seq(FileChange)
      BY <1>4 DEF StopWatch
    <2> QED
      BY <1>4, <2>1 DEF StopWatch
  <1>5. ASSUME RecoverNothing PROVE TypeOK'
    BY <1>5 DEF RecoverNothing, Pcs
  <1>6. ASSUME RecoverRename PROVE TypeOK'
    <2>1. journal \in Download
      BY <1>6 DEF RecoverRename, Pending, PendingSyncAction, Delete
    <2> QED
      BY <1>6, <2>1 DEF RecoverRename, Download, Snapshot, LocalFile, Pcs
  <1>7. ASSUME RecoverRecord PROVE TypeOK'
    <2>1. journal \in Download
      BY <1>7 DEF RecoverRecord, Pending, PendingSyncAction, Delete
    <2> QED
      BY <1>7, <2>1 DEF RecoverRecord, Download, Snapshot, LocalFile, Pcs
  <1>8. ASSUME RecoverAbandon PROVE TypeOK'
    BY <1>8 DEF RecoverAbandon, Pcs
  <1>9. ASSUME RecoverKeep PROVE TypeOK'
    BY <1>9 DEF RecoverKeep, LocalFile, Pcs
  <1>10. ASSUME RecoverRemoveTrash PROVE TypeOK'
    BY <1>10 DEF RecoverRemoveTrash, LocalFile, Pcs
  <1>11. ASSUME RecoverDrop PROVE TypeOK'
    BY <1>11 DEF RecoverDrop, Snapshot, Pcs
  <1>12. ASSUME RecoverClear PROVE TypeOK'
    BY <1>12 DEF RecoverClear, Pcs
  <1>13. ASSUME Plan PROVE TypeOK'
    <2>1. /\ adds' \subseteq Paths /\ dels' \subseteq Paths /\ infos' \subseteq Paths
          /\ exposed' \subseteq Paths
      BY <1>13 DEF Plan, added, deleted, info_modified, Files
    <2> QED
      BY <1>13, <2>1 DEF Plan, Pcs
  <1>14. ASSUME NEW p \in Paths, NEW n \in PartNames, Stage(p, n) PROVE TypeOK'
    <2>1. PICK file \in RemoteFile : Stage(p, n)!(file)
      BY <1>14 DEF Stage
    <2>2. phone[p] \in RemoteFile /\ phone[p].content \in Contents
      BY <2>1, FileBytes DEF Downloadable, Listing
    <2>3. held' \in Download
      BY <2>1, <2>2, ChecksumType DEF Download, Row
    <2>4. /\ adds' \subseteq Paths /\ dels' \subseteq Paths
          /\ batch' \in Seq(FileChange) /\ exposed' \subseteq Paths
      BY <2>1, ConsumeType DEF NextDownload, Change
    <2> QED
      BY <2>1, <2>2, <2>3, <2>4 DEF PendingSyncAction, Pcs
  <1>15. ASSUME NEW p \in Paths, StageFails(p) PROVE TypeOK'
    <2>1. /\ adds' \subseteq Paths /\ dels' \subseteq Paths
          /\ batch' \in Seq(FileChange) /\ exposed' \subseteq Paths
      BY <1>15, ConsumeType DEF StageFails, ItemEnds, NextDownload, Change
    <2>2. budget' \in [Kinds -> Nat]
      BY <1>15, SpendType DEF StageFails, Kinds
    <2> QED
      BY <1>15, <2>1, <2>2 DEF StageFails, ItemEnds
  <1>16. ASSUME NEW p \in Paths, DeleteMissing(p) PROVE TypeOK'
    <2>1. /\ adds' \subseteq Paths /\ dels' \subseteq Paths
          /\ batch' \in Seq(FileChange) /\ exposed' \subseteq Paths
      BY <1>16, ConsumeType DEF DeleteMissing, NextDelete, Change
    <2> QED
      BY <1>16, <2>1 DEF DeleteMissing, Snapshot
  <1>17. ASSUME NEW p \in Paths, DeleteDirectory(p) PROVE TypeOK'
    <2>1. /\ adds' \subseteq Paths /\ dels' \subseteq Paths
          /\ batch' \in Seq(FileChange) /\ exposed' \subseteq Paths
      BY <1>17, ConsumeType DEF DeleteDirectory, ItemEnds, NextDelete, Change
    <2> QED
      BY <1>17, <2>1 DEF DeleteDirectory, ItemEnds
  <1>18. ASSUME NEW p \in Paths, NEW n \in TrashNames, JournalDelete(p, n) PROVE TypeOK'
    <2>1. /\ adds' \subseteq Paths /\ dels' \subseteq Paths
          /\ batch' \in Seq(FileChange) /\ exposed' \subseteq Paths
      BY <1>18, ConsumeType DEF JournalDelete, NextDelete, Change
    <2>2. held' \in Delete /\ journal' = held'
      BY <1>18 DEF JournalDelete, Delete
    <2> QED
      BY <1>18, <2>1, <2>2 DEF JournalDelete, PendingSyncAction, Pcs
  <1>19. ASSUME WriteJournal PROVE TypeOK'
    BY <1>19 DEF WriteJournal, Pcs
  <1>20. ASSUME RenameStaged PROVE TypeOK'
    <2>1. held \in Download
      BY <1>20 DEF RenameStaged, HeldInv, PendingSyncAction, Delete
    <2> QED
      BY <1>20, <2>1 DEF RenameStaged, Download, Pcs, LocalFile, Snapshot
  <1>21. ASSUME RenameToTrash PROVE TypeOK'
    <2>1. held \in Delete
      BY <1>21 DEF RenameToTrash, HeldInv, PendingSyncAction, Download
    <2> QED
      BY <1>21, <2>1 DEF RenameToTrash, Delete, Pcs, LocalFile, Snapshot
  <1>22. ASSUME RenameFails PROVE TypeOK'
    <2>1. budget' \in [Kinds -> Nat]
      BY <1>22, SpendType DEF RenameFails, Kinds
    <2> QED
      BY <1>22, <2>1 DEF RenameFails, Pcs
  <1>23. ASSUME SaveLedger PROVE TypeOK'
    BY <1>23 DEF SaveLedger, Pcs
  <1>24. ASSUME RemoveTrash PROVE TypeOK'
    BY <1>24 DEF RemoveTrash, LocalFile, Pcs
  <1>25. ASSUME ClearJournal PROVE TypeOK'
    BY <1>25 DEF ClearJournal, Pcs
  <1>26. ASSUME SkipChange PROVE TypeOK'
    <2>1. batch' \in Seq(FileChange)
      BY <1>26 DEF SkipChange
    <2> QED
      BY <1>26, <2>1 DEF SkipChange
  <1>27. ASSUME ApplyInfo PROVE TypeOK'
    <2>1. batch' \in Seq(FileChange) /\ Head(batch) \in FileChange
      BY <1>27 DEF ApplyInfo
    <2>2. snap' \in Snapshot
      BY <1>27, <2>1, WithMetadata DEF ApplyInfo, Snapshot, FileChange
    <2> QED
      BY <1>27, <2>1, <2>2 DEF ApplyInfo
  <1>28. ASSUME Finish PROVE TypeOK'
    <2>1. ledger' \in Snapshot
      BY <1>28, WithMetadata DEF Finish, Snapshot, HeldInv
    <2> QED
      BY <1>28, <2>1, NoWorkType DEF Finish, Pcs
  <1>29. ASSUME JournalFails PROVE TypeOK'
    <2>1. budget' \in [Kinds -> Nat] /\ events' \in Seq(FileChange)
      BY <1>29, SpendType DEF JournalFails, Kinds
    <2> QED
      BY <1>29, <2>1, NoWorkType DEF JournalFails, Pcs
  <1>30. ASSUME Abort PROVE TypeOK'
    <2>1. budget' \in [Kinds -> Nat] /\ events' \in Seq(FileChange)
      BY <1>30, SpendType DEF Abort, Kinds
    <2> QED
      BY <1>30, <2>1, NoWorkType DEF Abort, Pcs
  <1>31. ASSUME NEW p \in Paths, NEW file \in RemoteFile, PhonePut(p, file) PROVE TypeOK'
    <2>1. budget' \in [Kinds -> Nat]
      BY <1>31, SpendType DEF PhonePut, Kinds
    <2>2. events' \in Seq(FileChange) /\ watching' \in BOOLEAN /\ lagged' \in BOOLEAN
      BY <1>31, NotifyType DEF PhonePut
    <2> QED
      BY <1>31, <2>1, <2>2 DEF PhonePut, Listing
  <1>32. ASSUME NEW p \in Paths, PhoneRemove(p) PROVE TypeOK'
    <2>1. budget' \in [Kinds -> Nat]
      BY <1>32, SpendType DEF PhoneRemove, Kinds
    <2>2. phone[p] \in RemoteFile
      BY <1>32 DEF PhoneRemove, Listing
    <2>3. events' \in Seq(FileChange) /\ watching' \in BOOLEAN /\ lagged' \in BOOLEAN
      BY <1>32, <2>2, NotifyType DEF PhoneRemove
    <2> QED
      BY <1>32, <2>1, <2>3 DEF PhoneRemove, Listing
  <1>33. ASSUME NEW p \in Paths, NEW c \in UserContents \cup {Absent}, UserEdit(p, c) PROVE TypeOK'
    <2>1. budget' \in [Kinds -> Nat]
      BY <1>33, SpendType, SMTT(40) DEF UserEdit, Kinds
    <2> QED
      BY <1>33, <2>1 DEF UserEdit, LocalFile
  <1>34. ASSUME UNCHANGED vars PROVE TypeOK'
    BY <1>34
  <1> QED
    BY <1>1, <1>2, <1>3, <1>4, <1>5, <1>6, <1>7, <1>8, <1>9, <1>10, <1>11, <1>12, <1>13,
       <1>14, <1>15, <1>16, <1>17, <1>18, <1>19, <1>20, <1>21, <1>22, <1>23, <1>24, <1>25,
       <1>26, <1>27, <1>28, <1>29, <1>30, <1>31, <1>32, <1>33, <1>34 DEF Next, Recover,
       Engine, Items, Environment

\* The action in hand and the journal follow the program counter.
LEMMA HeldStep == IndInv /\ [Next]_vars => HeldInv'
  <1> SUFFICES ASSUME IndInv, [Next]_vars PROVE HeldInv'
    OBVIOUS
  <1> USE DEF disk, channel, work, engine, observer, vars, IndInv, HeldInv, TypeOK,
     PendingSyncAction, Download, Delete
  <1>1. ASSUME StartRun PROVE HeldInv'
    BY <1>1 DEF StartRun
  <1>2. ASSUME StartWatch PROVE HeldInv'
    BY <1>2 DEF StartWatch
  <1>3. ASSUME StartBatch PROVE HeldInv'
    BY <1>3 DEF StartBatch
  <1>4. ASSUME StopWatch PROVE HeldInv'
    BY <1>4 DEF StopWatch
  <1>5. ASSUME RecoverNothing PROVE HeldInv'
    BY <1>5 DEF RecoverNothing
  <1>6. ASSUME RecoverRename PROVE HeldInv'
    BY <1>6 DEF RecoverRename, Pending
  <1>7. ASSUME RecoverRecord PROVE HeldInv'
    BY <1>7 DEF RecoverRecord, Pending
  <1>8. ASSUME RecoverAbandon PROVE HeldInv'
    BY <1>8 DEF RecoverAbandon, Pending
  <1>9. ASSUME RecoverKeep PROVE HeldInv'
    BY <1>9 DEF RecoverKeep, Pending
  <1>10. ASSUME RecoverRemoveTrash PROVE HeldInv'
    BY <1>10 DEF RecoverRemoveTrash, Pending
  <1>11. ASSUME RecoverDrop PROVE HeldInv'
    BY <1>11 DEF RecoverDrop, Pending
  <1>12. ASSUME RecoverClear PROVE HeldInv'
    BY <1>12 DEF RecoverClear
  <1>13. ASSUME Plan PROVE HeldInv'
    <2>1. \A p \in infos' : listing'[p] \in RemoteFile
      BY <1>13 DEF Plan, info_modified, Files, TypeOK, Listing
    <2> QED
      BY <1>13, <2>1 DEF Plan
  <1>14. ASSUME NEW p \in Paths, NEW n \in PartNames, Stage(p, n) PROVE HeldInv'
    <2>1. PICK file \in RemoteFile : Stage(p, n)!(file)
      BY <1>14 DEF Stage
    <2>2. phone[p].content \in Contents
      BY <2>1, FileBytes DEF Downloadable, TypeOK, Listing
    <2>3. held' \in Download
      BY <2>1, <2>2, ChecksumType DEF Row
    <2> QED
      BY <2>1, <2>3
  <1>15. ASSUME NEW p \in Paths, StageFails(p) PROVE HeldInv'
    BY <1>15 DEF StageFails, NextDownload, Change, ItemEnds, Consume
  <1>16. ASSUME NEW p \in Paths, DeleteMissing(p) PROVE HeldInv'
    BY <1>16 DEF DeleteMissing, NextDelete, Change, Consume
  <1>17. ASSUME NEW p \in Paths, DeleteDirectory(p) PROVE HeldInv'
    BY <1>17 DEF DeleteDirectory, NextDelete, Change, ItemEnds, Consume
  <1>18. ASSUME NEW p \in Paths, NEW n \in TrashNames, JournalDelete(p, n) PROVE HeldInv'
    BY <1>18 DEF JournalDelete, NextDelete, Change, Consume
  <1>19. ASSUME WriteJournal PROVE HeldInv'
    BY <1>19 DEF WriteJournal
  <1>20. ASSUME RenameStaged PROVE HeldInv'
    BY <1>20 DEF RenameStaged
  <1>21. ASSUME RenameToTrash PROVE HeldInv'
    BY <1>21 DEF RenameToTrash
  <1>22. ASSUME RenameFails PROVE HeldInv'
    BY <1>22 DEF RenameFails
  <1>23. ASSUME SaveLedger PROVE HeldInv'
    BY <1>23 DEF SaveLedger
  <1>24. ASSUME RemoveTrash PROVE HeldInv'
    BY <1>24 DEF RemoveTrash
  <1>25. ASSUME ClearJournal PROVE HeldInv'
    BY <1>25 DEF ClearJournal
  <1>26. ASSUME SkipChange PROVE HeldInv'
    BY <1>26 DEF SkipChange
  <1>27. ASSUME ApplyInfo PROVE HeldInv'
    BY <1>27 DEF ApplyInfo
  <1>28. ASSUME Finish PROVE HeldInv'
    BY <1>28 DEF Finish, NoWork
  <1>29. ASSUME JournalFails PROVE HeldInv'
    BY <1>29 DEF JournalFails, NoWork
  <1>30. ASSUME Abort PROVE HeldInv'
    BY <1>30 DEF Abort, NoWork
  <1>31. ASSUME NEW p \in Paths, NEW file \in RemoteFile, PhonePut(p, file) PROVE HeldInv'
    BY <1>31 DEF PhonePut, Notify
  <1>32. ASSUME NEW p \in Paths, PhoneRemove(p) PROVE HeldInv'
    BY <1>32 DEF PhoneRemove, Notify
  <1>33. ASSUME NEW p \in Paths, NEW c \in UserContents \cup {Absent}, UserEdit(p, c) PROVE HeldInv'
    BY <1>33 DEF UserEdit
  <1>34. ASSUME UNCHANGED vars PROVE HeldInv'
    BY <1>34
  <1> QED
    BY <1>1, <1>2, <1>3, <1>4, <1>5, <1>6, <1>7, <1>8, <1>9, <1>10, <1>11, <1>12, <1>13,
       <1>14, <1>15, <1>16, <1>17, <1>18, <1>19, <1>20, <1>21, <1>22, <1>23, <1>24, <1>25,
       <1>26, <1>27, <1>28, <1>29, <1>30, <1>31, <1>32, <1>33, <1>34 DEF Next, Recover,
       Engine, Items, Environment

\* A trash file appears with its journaled deletion and goes before the journal
\* is cleared or replaced.
LEMMA TrashStep == IndInv /\ [Next]_vars => TrashInv'
  <1> SUFFICES ASSUME IndInv, [Next]_vars PROVE TrashInv'
    OBVIOUS
  <1> USE DEF disk, channel, work, engine, observer, vars, IndInv, TrashInv,
     TrashIsJournaled, HeldInv, TypeOK, PendingSyncAction, Download, Delete
  <1>1. ASSUME StartRun PROVE TrashInv'
    BY <1>1 DEF StartRun
  <1>2. ASSUME StartWatch PROVE TrashInv'
    BY <1>2 DEF StartWatch
  <1>3. ASSUME StartBatch PROVE TrashInv'
    BY <1>3 DEF StartBatch
  <1>4. ASSUME StopWatch PROVE TrashInv'
    BY <1>4 DEF StopWatch
  <1>5. ASSUME RecoverNothing PROVE TrashInv'
    BY <1>5 DEF RecoverNothing
  <1>6. ASSUME RecoverRename PROVE TrashInv'
    BY <1>6 DEF RecoverRename, Pending
  <1>7. ASSUME RecoverRecord PROVE TrashInv'
    BY <1>7 DEF RecoverRecord, Pending
  <1>8. ASSUME RecoverAbandon PROVE TrashInv'
    BY <1>8 DEF RecoverAbandon, Pending
  <1>9. ASSUME RecoverKeep PROVE TrashInv'
    BY <1>9 DEF RecoverKeep, Pending
  <1>10. ASSUME RecoverRemoveTrash PROVE TrashInv'
    BY <1>10 DEF RecoverRemoveTrash, Pending
  <1>11. ASSUME RecoverDrop PROVE TrashInv'
    BY <1>11 DEF RecoverDrop, Pending
  <1>12. ASSUME RecoverClear PROVE TrashInv'
    BY <1>12 DEF RecoverClear
  <1>13. ASSUME Plan PROVE TrashInv'
    BY <1>13 DEF Plan
  <1>14. ASSUME NEW p \in Paths, NEW n \in PartNames, Stage(p, n) PROVE TrashInv'
    BY <1>14 DEF Stage, NextDownload, Change, Consume, Downloadable, FreePart
  <1>15. ASSUME NEW p \in Paths, StageFails(p) PROVE TrashInv'
    BY <1>15 DEF StageFails, NextDownload, Change, ItemEnds, Consume
  <1>16. ASSUME NEW p \in Paths, DeleteMissing(p) PROVE TrashInv'
    BY <1>16 DEF DeleteMissing, NextDelete, Change, Consume
  <1>17. ASSUME NEW p \in Paths, DeleteDirectory(p) PROVE TrashInv'
    BY <1>17 DEF DeleteDirectory, NextDelete, Change, ItemEnds, Consume
  <1>18. ASSUME NEW p \in Paths, NEW n \in TrashNames, JournalDelete(p, n) PROVE TrashInv'
    BY <1>18 DEF JournalDelete, NextDelete, Change, Consume
  <1>19. ASSUME WriteJournal PROVE TrashInv'
    BY <1>19 DEF WriteJournal
  <1>20. ASSUME RenameStaged PROVE TrashInv'
    BY <1>20 DEF RenameStaged
  <1>21. ASSUME RenameToTrash PROVE TrashInv'
    BY <1>21 DEF RenameToTrash
  <1>22. ASSUME RenameFails PROVE TrashInv'
    BY <1>22 DEF RenameFails
  <1>23. ASSUME SaveLedger PROVE TrashInv'
    BY <1>23 DEF SaveLedger
  <1>24. ASSUME RemoveTrash PROVE TrashInv'
    BY <1>24 DEF RemoveTrash
  <1>25. ASSUME ClearJournal PROVE TrashInv'
    BY <1>25 DEF ClearJournal
  <1>26. ASSUME SkipChange PROVE TrashInv'
    BY <1>26 DEF SkipChange
  <1>27. ASSUME ApplyInfo PROVE TrashInv'
    BY <1>27 DEF ApplyInfo
  <1>28. ASSUME Finish PROVE TrashInv'
    BY <1>28 DEF Finish, NoWork
  <1>29. ASSUME JournalFails PROVE TrashInv'
    BY <1>29 DEF JournalFails, NoWork
  <1>30. ASSUME Abort PROVE TrashInv'
    BY <1>30 DEF Abort, NoWork
  <1>31. ASSUME NEW p \in Paths, NEW file \in RemoteFile, PhonePut(p, file) PROVE TrashInv'
    BY <1>31 DEF PhonePut, Notify
  <1>32. ASSUME NEW p \in Paths, PhoneRemove(p) PROVE TrashInv'
    BY <1>32 DEF PhoneRemove, Notify
  <1>33. ASSUME NEW p \in Paths, NEW c \in UserContents \cup {Absent}, UserEdit(p, c) PROVE TrashInv'
    BY <1>33 DEF UserEdit
  <1>34. ASSUME UNCHANGED vars PROVE TrashInv'
    BY <1>34, ZenonT(60)
  <1> QED
    BY <1>1, <1>2, <1>3, <1>4, <1>5, <1>6, <1>7, <1>8, <1>9, <1>10, <1>11, <1>12, <1>13,
       <1>14, <1>15, <1>16, <1>17, <1>18, <1>19, <1>20, <1>21, <1>22, <1>23, <1>24, <1>25,
       <1>26, <1>27, <1>28, <1>29, <1>30, <1>31, <1>32, <1>33, <1>34 DEF Next, Recover,
       Engine, Items, Environment

\* A staged file keeps the bytes its action will record until it is renamed.
LEMMA PartStep == IndInv /\ [Next]_vars => PartInv'
  <1> SUFFICES ASSUME IndInv, [Next]_vars PROVE PartInv'
    OBVIOUS
  <1> USE DEF disk, channel, work, engine, observer, vars, IndInv, PartInv, StagedBytes,
     HeldInv, TypeOK, Row, PendingSyncAction, Download, Delete
  <1>1. ASSUME StartRun PROVE PartInv'
    BY <1>1 DEF StartRun
  <1>2. ASSUME StartWatch PROVE PartInv'
    BY <1>2 DEF StartWatch
  <1>3. ASSUME StartBatch PROVE PartInv'
    BY <1>3 DEF StartBatch
  <1>4. ASSUME StopWatch PROVE PartInv'
    BY <1>4 DEF StopWatch
  <1>5. ASSUME RecoverNothing PROVE PartInv'
    BY <1>5 DEF RecoverNothing
  <1>6. ASSUME RecoverRename PROVE PartInv'
    BY <1>6 DEF RecoverRename, Pending
  <1>7. ASSUME RecoverRecord PROVE PartInv'
    BY <1>7 DEF RecoverRecord, Pending
  <1>8. ASSUME RecoverAbandon PROVE PartInv'
    BY <1>8 DEF RecoverAbandon, Pending
  <1>9. ASSUME RecoverKeep PROVE PartInv'
    BY <1>9 DEF RecoverKeep, Pending
  <1>10. ASSUME RecoverRemoveTrash PROVE PartInv'
    BY <1>10 DEF RecoverRemoveTrash, Pending
  <1>11. ASSUME RecoverDrop PROVE PartInv'
    BY <1>11 DEF RecoverDrop, Pending
  <1>12. ASSUME RecoverClear PROVE PartInv'
    BY <1>12 DEF RecoverClear
  <1>13. ASSUME Plan PROVE PartInv'
    BY <1>13 DEF Plan
  <1>14. ASSUME NEW p \in Paths, NEW n \in PartNames, Stage(p, n) PROVE PartInv'
    BY <1>14 DEF Stage, NextDownload, Change, Consume, Downloadable, FreePart
  <1>15. ASSUME NEW p \in Paths, StageFails(p) PROVE PartInv'
    BY <1>15 DEF StageFails, NextDownload, Change, ItemEnds, Consume
  <1>16. ASSUME NEW p \in Paths, DeleteMissing(p) PROVE PartInv'
    BY <1>16 DEF DeleteMissing, NextDelete, Change, Consume
  <1>17. ASSUME NEW p \in Paths, DeleteDirectory(p) PROVE PartInv'
    BY <1>17 DEF DeleteDirectory, NextDelete, Change, ItemEnds, Consume
  <1>18. ASSUME NEW p \in Paths, NEW n \in TrashNames, JournalDelete(p, n) PROVE PartInv'
    BY <1>18 DEF JournalDelete, NextDelete, Change, Consume
  <1>19. ASSUME WriteJournal PROVE PartInv'
    BY <1>19 DEF WriteJournal
  <1>20. ASSUME RenameStaged PROVE PartInv'
    BY <1>20 DEF RenameStaged
  <1>21. ASSUME RenameToTrash PROVE PartInv'
    BY <1>21 DEF RenameToTrash
  <1>22. ASSUME RenameFails PROVE PartInv'
    BY <1>22 DEF RenameFails
  <1>23. ASSUME SaveLedger PROVE PartInv'
    BY <1>23 DEF SaveLedger
  <1>24. ASSUME RemoveTrash PROVE PartInv'
    BY <1>24 DEF RemoveTrash
  <1>25. ASSUME ClearJournal PROVE PartInv'
    BY <1>25 DEF ClearJournal
  <1>26. ASSUME SkipChange PROVE PartInv'
    BY <1>26 DEF SkipChange
  <1>27. ASSUME ApplyInfo PROVE PartInv'
    BY <1>27 DEF ApplyInfo
  <1>28. ASSUME Finish PROVE PartInv'
    BY <1>28 DEF Finish, NoWork
  <1>29. ASSUME JournalFails PROVE PartInv'
    BY <1>29 DEF JournalFails, NoWork
  <1>30. ASSUME Abort PROVE PartInv'
    BY <1>30 DEF Abort, NoWork
  <1>31. ASSUME NEW p \in Paths, NEW file \in RemoteFile, PhonePut(p, file) PROVE PartInv'
    BY <1>31 DEF PhonePut, Notify
  <1>32. ASSUME NEW p \in Paths, PhoneRemove(p) PROVE PartInv'
    BY <1>32 DEF PhoneRemove, Notify
  <1>33. ASSUME NEW p \in Paths, NEW c \in UserContents \cup {Absent}, UserEdit(p, c) PROVE PartInv'
    BY <1>33 DEF UserEdit
  <1>34. ASSUME UNCHANGED vars PROVE PartInv'
    BY <1>34, ZenonT(60)
  <1> QED
    BY <1>1, <1>2, <1>3, <1>4, <1>5, <1>6, <1>7, <1>8, <1>9, <1>10, <1>11, <1>12, <1>13,
       <1>14, <1>15, <1>16, <1>17, <1>18, <1>19, <1>20, <1>21, <1>22, <1>23, <1>24, <1>25,
       <1>26, <1>27, <1>28, <1>29, <1>30, <1>31, <1>32, <1>33, <1>34 DEF Next, Recover,
       Engine, Items, Environment

\* The ledger follows the in-memory snapshot item by item.
LEMMA SnapStep == IndInv /\ [Next]_vars => SnapInv'
  <1> SUFFICES ASSUME IndInv, [Next]_vars PROVE SnapInv'
    OBVIOUS
  <1> USE DEF disk, channel, work, engine, observer, vars, IndInv, SnapInv, SameFiles,
     HeldInv, TypeOK, Snapshot, PendingSyncAction, Download, Delete
  <1>1. ASSUME StartRun PROVE SnapInv'
    BY <1>1 DEF StartRun
  <1>2. ASSUME StartWatch PROVE SnapInv'
    BY <1>2 DEF StartWatch
  <1>3. ASSUME StartBatch PROVE SnapInv'
    BY <1>3 DEF StartBatch
  <1>4. ASSUME StopWatch PROVE SnapInv'
    BY <1>4 DEF StopWatch
  <1>5. ASSUME RecoverNothing PROVE SnapInv'
    BY <1>5 DEF RecoverNothing
  <1>6. ASSUME RecoverRename PROVE SnapInv'
    BY <1>6 DEF RecoverRename, Pending
  <1>7. ASSUME RecoverRecord PROVE SnapInv'
    BY <1>7 DEF RecoverRecord, Pending
  <1>8. ASSUME RecoverAbandon PROVE SnapInv'
    BY <1>8 DEF RecoverAbandon, Pending
  <1>9. ASSUME RecoverKeep PROVE SnapInv'
    BY <1>9 DEF RecoverKeep, Pending
  <1>10. ASSUME RecoverRemoveTrash PROVE SnapInv'
    BY <1>10 DEF RecoverRemoveTrash, Pending
  <1>11. ASSUME RecoverDrop PROVE SnapInv'
    BY <1>11 DEF RecoverDrop, Pending
  <1>12. ASSUME RecoverClear PROVE SnapInv'
    BY <1>12 DEF RecoverClear
  <1>13. ASSUME Plan PROVE SnapInv'
    BY <1>13 DEF Plan
  <1>14. ASSUME NEW p \in Paths, NEW n \in PartNames, Stage(p, n) PROVE SnapInv'
    BY <1>14 DEF Stage, NextDownload, Change, Consume, Downloadable, FreePart
  <1>15. ASSUME NEW p \in Paths, StageFails(p) PROVE SnapInv'
    BY <1>15 DEF StageFails, NextDownload, Change, ItemEnds, Consume
  <1>16. ASSUME NEW p \in Paths, DeleteMissing(p) PROVE SnapInv'
    BY <1>16 DEF DeleteMissing, NextDelete, Change, Consume
  <1>17. ASSUME NEW p \in Paths, DeleteDirectory(p) PROVE SnapInv'
    BY <1>17 DEF DeleteDirectory, NextDelete, Change, ItemEnds, Consume
  <1>18. ASSUME NEW p \in Paths, NEW n \in TrashNames, JournalDelete(p, n) PROVE SnapInv'
    BY <1>18 DEF JournalDelete, NextDelete, Change, Consume
  <1>19. ASSUME WriteJournal PROVE SnapInv'
    BY <1>19 DEF WriteJournal
  <1>20. ASSUME RenameStaged PROVE SnapInv'
    BY <1>20 DEF RenameStaged
  <1>21. ASSUME RenameToTrash PROVE SnapInv'
    BY <1>21 DEF RenameToTrash
  <1>22. ASSUME RenameFails PROVE SnapInv'
    BY <1>22 DEF RenameFails
  <1>23. ASSUME SaveLedger PROVE SnapInv'
    BY <1>23 DEF SaveLedger
  <1>24. ASSUME RemoveTrash PROVE SnapInv'
    BY <1>24 DEF RemoveTrash
  <1>25. ASSUME ClearJournal PROVE SnapInv'
    BY <1>25 DEF ClearJournal
  <1>26. ASSUME SkipChange PROVE SnapInv'
    BY <1>26 DEF SkipChange
  <1>27. ASSUME ApplyInfo PROVE SnapInv'
    <2>1. Head(batch) \in FileChange
      BY <1>27 DEF ApplyInfo
    <2>2. with_metadata(snap[Head(batch).path], Head(batch).file) \in Row
          /\ with_metadata(snap[Head(batch).path], Head(batch).file).local_sha256
               = snap[Head(batch).path].local_sha256
      BY <1>27, <2>1, WithMetadata, SMTT(40) DEF ApplyInfo, FileChange
    <2> QED
      BY <1>27, <2>2 DEF ApplyInfo
  <1>28. ASSUME Finish PROVE SnapInv'
    BY <1>28 DEF Finish, NoWork
  <1>29. ASSUME JournalFails PROVE SnapInv'
    BY <1>29 DEF JournalFails, NoWork
  <1>30. ASSUME Abort PROVE SnapInv'
    BY <1>30 DEF Abort, NoWork
  <1>31. ASSUME NEW p \in Paths, NEW file \in RemoteFile, PhonePut(p, file) PROVE SnapInv'
    BY <1>31 DEF PhonePut, Notify
  <1>32. ASSUME NEW p \in Paths, PhoneRemove(p) PROVE SnapInv'
    BY <1>32 DEF PhoneRemove, Notify
  <1>33. ASSUME NEW p \in Paths, NEW c \in UserContents \cup {Absent}, UserEdit(p, c) PROVE SnapInv'
    BY <1>33 DEF UserEdit
  <1>34. ASSUME UNCHANGED vars PROVE SnapInv'
    BY <1>34, ZenonT(60)
  <1> QED
    BY <1>1, <1>2, <1>3, <1>4, <1>5, <1>6, <1>7, <1>8, <1>9, <1>10, <1>11, <1>12, <1>13,
       <1>14, <1>15, <1>16, <1>17, <1>18, <1>19, <1>20, <1>21, <1>22, <1>23, <1>24, <1>25,
       <1>26, <1>27, <1>28, <1>29, <1>30, <1>31, <1>32, <1>33, <1>34 DEF Next, Recover,
       Engine, Items, Environment

\* No step leaves a side effect that neither the ledger nor the journal knows.
LEMMA FileStep == IndInv /\ [Next]_vars => FileInv'
  <1> SUFFICES ASSUME IndInv, [Next]_vars PROVE FileInv'
    OBVIOUS
  <1> USE DEF disk, channel, work, engine, observer, vars, IndInv, FileInv, NothingHalfDone,
     Done, Strays, StrandedIn, Recorded, Journaled, HeldInv, PartInv, StagedBytes, SnapInv,
     SameFiles, TypeOK, Row, Snapshot, PendingSyncAction, Download, Delete
  <1>1. ASSUME StartRun PROVE FileInv'
    BY <1>1 DEF StartRun
  <1>2. ASSUME StartWatch PROVE FileInv'
    BY <1>2 DEF StartWatch
  <1>3. ASSUME StartBatch PROVE FileInv'
    BY <1>3 DEF StartBatch
  <1>4. ASSUME StopWatch PROVE FileInv'
    BY <1>4 DEF StopWatch
  <1>5. ASSUME RecoverNothing PROVE FileInv'
    BY <1>5 DEF RecoverNothing
  <1>6. ASSUME RecoverRename PROVE FileInv'
    BY <1>6 DEF RecoverRename, Pending
  <1>7. ASSUME RecoverRecord PROVE FileInv'
    BY <1>7 DEF RecoverRecord, Pending
  <1>8. ASSUME RecoverAbandon PROVE FileInv'
    BY <1>8 DEF RecoverAbandon, Pending
  <1>9. ASSUME RecoverKeep PROVE FileInv'
    BY <1>9 DEF RecoverKeep, Pending
  <1>10. ASSUME RecoverRemoveTrash PROVE FileInv'
    BY <1>10 DEF RecoverRemoveTrash, Pending
  <1>11. ASSUME RecoverDrop PROVE FileInv'
    BY <1>11 DEF RecoverDrop, Pending
  <1>12. ASSUME RecoverClear PROVE FileInv'
    BY <1>12 DEF RecoverClear
  <1>13. ASSUME Plan PROVE FileInv'
    BY <1>13 DEF Plan
  <1>14. ASSUME NEW p \in Paths, NEW n \in PartNames, Stage(p, n) PROVE FileInv'
    <2>1. PICK file \in RemoteFile : Stage(p, n)!(file)
      BY <1>14 DEF Stage
    <2>2. part[n] = Absent /\ journal' = journal /\ held = NoAction /\ held'.name = n
      BY <2>1 DEF FreePart, NextDownload
    <2>3. \A q \in Paths : Done(q, Strays) => Done(q, Strays)'
      BY <2>1, <2>2
    <2> QED
      <3> HIDE DEF Done, Strays
      <3>1. pc = "items" /\ pc' = "staged" /\ UNCHANGED <<local, owner, ledger>>
        BY <2>1 DEF NextDownload
      <3>2. \A q \in Paths : Done(q, Strays)'
        BY <2>3, <3>1
      <3>3. journal \in Download => journal.name # n /\ part'[journal.name] = part[journal.name]
        BY <2>1 DEF FreePart
      <3> QED
        BY <2>2, <3>1, <3>2, <3>3
  <1>15. ASSUME NEW p \in Paths, StageFails(p) PROVE FileInv'
    BY <1>15 DEF StageFails, NextDownload, Change, ItemEnds, Consume
  <1>16. ASSUME NEW p \in Paths, DeleteMissing(p) PROVE FileInv'
    BY <1>16 DEF DeleteMissing, NextDelete, Change, Consume
  <1>17. ASSUME NEW p \in Paths, DeleteDirectory(p) PROVE FileInv'
    BY <1>17 DEF DeleteDirectory, NextDelete, Change, ItemEnds, Consume
  <1>18. ASSUME NEW p \in Paths, NEW n \in TrashNames, JournalDelete(p, n) PROVE FileInv'
    BY <1>18 DEF JournalDelete, NextDelete, Change, Consume
  <1>19. ASSUME WriteJournal PROVE FileInv'
    BY <1>19 DEF WriteJournal
  <1>20. ASSUME RenameStaged PROVE FileInv'
    BY <1>20 DEF RenameStaged
  <1>21. ASSUME RenameToTrash PROVE FileInv'
    BY <1>21 DEF RenameToTrash
  <1>22. ASSUME RenameFails PROVE FileInv'
    BY <1>22 DEF RenameFails
  <1>23. ASSUME SaveLedger PROVE FileInv'
    BY <1>23 DEF SaveLedger
  <1>24. ASSUME RemoveTrash PROVE FileInv'
    BY <1>24 DEF RemoveTrash
  <1>25. ASSUME ClearJournal PROVE FileInv'
    BY <1>25 DEF ClearJournal
  <1>26. ASSUME SkipChange PROVE FileInv'
    BY <1>26 DEF SkipChange
  <1>27. ASSUME ApplyInfo PROVE FileInv'
    BY <1>27 DEF ApplyInfo
  <1>28. ASSUME Finish PROVE FileInv'
    <2>1. SameFiles(ledger', snap) /\ SameFiles(snap, ledger)
      BY <1>28, WithMetadata DEF Finish
    <2>2. \A q \in Paths : /\ ledger'[q] = NoRow <=> ledger[q] = NoRow
                           /\ ledger[q] # NoRow =>
                                  ledger'[q].local_sha256 = ledger[q].local_sha256
      BY <2>1
    <2>3. /\ held = NoAction /\ held' = NoAction /\ Strays' = Strays
          /\ pc = "items" /\ pc' = "idle"
          /\ UNCHANGED <<local, part, journal, owner>>
      BY <1>28 DEF Finish, NoWork
    <2> HIDE <1>28
    <2>4. \A q \in Paths : Done(q, Strays) => Done(q, Strays)'
      <3> HIDE DEF Strays, IndInv
      <3> QED
        BY <2>2, <2>3
    <2> QED
      <3> HIDE DEF Strays, Done
      <3>1. \A q \in Paths : Done(q, Strays)'
        BY <2>3, <2>4
      <3> QED
        BY <2>3, <3>1
  <1>29. ASSUME JournalFails PROVE FileInv'
    BY <1>29 DEF JournalFails, NoWork
  <1>30. ASSUME Abort PROVE FileInv'
    BY <1>30 DEF Abort, NoWork
  <1>31. ASSUME NEW p \in Paths, NEW file \in RemoteFile, PhonePut(p, file) PROVE FileInv'
    BY <1>31 DEF PhonePut, Notify
  <1>32. ASSUME NEW p \in Paths, PhoneRemove(p) PROVE FileInv'
    BY <1>32 DEF PhoneRemove, Notify
  <1>33. ASSUME NEW p \in Paths, NEW c \in UserContents \cup {Absent}, UserEdit(p, c) PROVE FileInv'
    BY <1>33 DEF UserEdit
  <1>34. ASSUME UNCHANGED vars PROVE FileInv'
    BY <1>34, SMTT(40)
  <1> QED
    BY <1>1, <1>2, <1>3, <1>4, <1>5, <1>6, <1>7, <1>8, <1>9, <1>10, <1>11, <1>12, <1>13,
       <1>14, <1>15, <1>16, <1>17, <1>18, <1>19, <1>20, <1>21, <1>22, <1>23, <1>24, <1>25,
       <1>26, <1>27, <1>28, <1>29, <1>30, <1>31, <1>32, <1>33, <1>34 DEF Next, Recover,
       Engine, Items, Environment

\* What a plan will touch stays checked until it is touched.
LEMMA CheckedStep == IndInv /\ [Next]_vars => CheckedInv'
  <1> SUFFICES ASSUME IndInv, [Next]_vars PROVE CheckedInv'
    OBVIOUS
  <1> USE DEF disk, channel, work, engine, observer, vars, IndInv, CheckedInv, Checked,
     HeldInv, SnapInv, SameFiles, TypeOK, Snapshot, PendingSyncAction, Download, Delete
  <1>1. ASSUME StartRun PROVE CheckedInv'
    BY <1>1 DEF StartRun
  <1>2. ASSUME StartWatch PROVE CheckedInv'
    BY <1>2 DEF StartWatch
  <1>3. ASSUME StartBatch PROVE CheckedInv'
    BY <1>3 DEF StartBatch
  <1>4. ASSUME StopWatch PROVE CheckedInv'
    BY <1>4 DEF StopWatch
  <1>5. ASSUME RecoverNothing PROVE CheckedInv'
    BY <1>5 DEF RecoverNothing
  <1>6. ASSUME RecoverRename PROVE CheckedInv'
    BY <1>6 DEF RecoverRename, Pending
  <1>7. ASSUME RecoverRecord PROVE CheckedInv'
    BY <1>7 DEF RecoverRecord, Pending
  <1>8. ASSUME RecoverAbandon PROVE CheckedInv'
    BY <1>8 DEF RecoverAbandon, Pending
  <1>9. ASSUME RecoverKeep PROVE CheckedInv'
    BY <1>9 DEF RecoverKeep, Pending
  <1>10. ASSUME RecoverRemoveTrash PROVE CheckedInv'
    BY <1>10 DEF RecoverRemoveTrash, Pending
  <1>11. ASSUME RecoverDrop PROVE CheckedInv'
    BY <1>11 DEF RecoverDrop, Pending
  <1>12. ASSUME RecoverClear PROVE CheckedInv'
    BY <1>12 DEF RecoverClear
  <1>13. ASSUME Plan PROVE CheckedInv'
    BY <1>13 DEF Plan, check_conflicts
  <1>14. ASSUME NEW p \in Paths, NEW n \in PartNames, Stage(p, n) PROVE CheckedInv'
    <2>1. PICK file \in RemoteFile : Stage(p, n)!(file)
      BY <1>14 DEF Stage
    <2>2. CASE mode = "run"
      BY <2>1, <2>2 DEF NextDownload, Change, Consume
    <2>3. CASE mode = "watch"
      <3>1. check_conflicts({p}, snap, local) = {}
        BY <2>1, <2>3 DEF NextDownload, Change
      <3>2. Checked(p)'
        BY <2>1, <3>1 DEF check_conflicts
      <3> QED
        BY <2>1, <2>3, <3>2 DEF Consume
    <2> QED
      BY <2>2, <2>3
  <1>15. ASSUME NEW p \in Paths, StageFails(p) PROVE CheckedInv'
    BY <1>15 DEF StageFails, NextDownload, Change, ItemEnds, Consume
  <1>16. ASSUME NEW p \in Paths, DeleteMissing(p) PROVE CheckedInv'
    BY <1>16 DEF DeleteMissing, NextDelete, Change, Consume
  <1>17. ASSUME NEW p \in Paths, DeleteDirectory(p) PROVE CheckedInv'
    BY <1>17 DEF DeleteDirectory, NextDelete, Change, ItemEnds, Consume
  <1>18. ASSUME NEW p \in Paths, NEW n \in TrashNames, JournalDelete(p, n) PROVE CheckedInv'
    <2>1. CASE mode = "run"
      BY <1>18, <2>1 DEF JournalDelete, NextDelete, Change, Consume
    <2>2. CASE mode = "watch"
      <3>1. check_conflicts({p}, snap, local) = {}
        BY <1>18, <2>2 DEF JournalDelete, NextDelete, Change
      <3>2. Checked(p)'
        BY <1>18, <3>1 DEF JournalDelete, check_conflicts
      <3> QED
        BY <1>18, <2>2, <3>2 DEF JournalDelete, Consume
    <2> QED
      BY <2>1, <2>2
  <1>19. ASSUME WriteJournal PROVE CheckedInv'
    BY <1>19 DEF WriteJournal
  <1>20. ASSUME RenameStaged PROVE CheckedInv'
    BY <1>20 DEF RenameStaged, PartInv
  <1>21. ASSUME RenameToTrash PROVE CheckedInv'
    BY <1>21 DEF RenameToTrash
  <1>22. ASSUME RenameFails PROVE CheckedInv'
    BY <1>22 DEF RenameFails
  <1>23. ASSUME SaveLedger PROVE CheckedInv'
    BY <1>23 DEF SaveLedger
  <1>24. ASSUME RemoveTrash PROVE CheckedInv'
    BY <1>24 DEF RemoveTrash
  <1>25. ASSUME ClearJournal PROVE CheckedInv'
    BY <1>25 DEF ClearJournal
  <1>26. ASSUME SkipChange PROVE CheckedInv'
    BY <1>26 DEF SkipChange
  <1>27. ASSUME ApplyInfo PROVE CheckedInv'
    BY <1>27 DEF ApplyInfo
  <1>28. ASSUME Finish PROVE CheckedInv'
    BY <1>28 DEF Finish, NoWork
  <1>29. ASSUME JournalFails PROVE CheckedInv'
    BY <1>29 DEF JournalFails, NoWork
  <1>30. ASSUME Abort PROVE CheckedInv'
    BY <1>30 DEF Abort, NoWork
  <1>31. ASSUME NEW p \in Paths, NEW file \in RemoteFile, PhonePut(p, file) PROVE CheckedInv'
    BY <1>31 DEF PhonePut, Notify
  <1>32. ASSUME NEW p \in Paths, PhoneRemove(p) PROVE CheckedInv'
    BY <1>32 DEF PhoneRemove, Notify
  <1>33. ASSUME NEW p \in Paths, NEW c \in UserContents \cup {Absent}, UserEdit(p, c) PROVE CheckedInv'
    BY <1>33 DEF UserEdit
  <1>34. ASSUME UNCHANGED vars PROVE CheckedInv'
    BY <1>34
  <1> QED
    BY <1>1, <1>2, <1>3, <1>4, <1>5, <1>6, <1>7, <1>8, <1>9, <1>10, <1>11, <1>12, <1>13,
       <1>14, <1>15, <1>16, <1>17, <1>18, <1>19, <1>20, <1>21, <1>22, <1>23, <1>24, <1>25,
       <1>26, <1>27, <1>28, <1>29, <1>30, <1>31, <1>32, <1>33, <1>34 DEF Next, Recover,
       Engine, Items, Environment

-----------------------------------------------------------------------------
(***************************************************************************)
(* The invariants.                                                         *)
(***************************************************************************)

\* An empty folder with an empty ledger satisfies the inductive invariant.
LEMMA InitInv == Init => IndInv
  <1> SUFFICES ASSUME Init PROVE IndInv
    OBVIOUS
  <1>1. TypeOK
    BY InitType
  <1>2. HeldInv /\ TrashInv /\ PartInv
    BY DEF Init, HeldInv, TrashInv, TrashIsJournaled, PartInv, StagedBytes, PendingSyncAction
  <1>3. SnapInv /\ CheckedInv
    BY DEF Init, SnapInv, CheckedInv
  <1>4. FileInv
    BY DEF Init, FileInv, NothingHalfDone, Done, PendingSyncAction
  <1> QED
    BY <1>1, <1>2, <1>3, <1>4 DEF IndInv

\* IndInv is an invariant of the specification.
THEOREM Invariance == Spec => []IndInv
  <1>1. IndInv /\ [Next]_vars => IndInv'
    BY TypeStep, HeldStep, TrashStep, PartStep, SnapStep, FileStep, CheckedStep DEF IndInv
  <1> QED
    BY InitInv, <1>1, PTL DEF Spec

\* The sync engine keeps its disk and memory in their types.
THEOREM TypeCorrect == Spec => []TypeOK
  <1>1. IndInv => TypeOK
    BY DEF IndInv
  <1> QED
    BY Invariance, <1>1, PTL

\* However a run is cut short, every path sync owns agrees with the ledger, is
\* named by the journal, or has its recorded bytes in a stranded staged file.
THEOREM NothingHalfDoneHolds == Spec => []NothingHalfDone
  <1>1. IndInv => NothingHalfDone
    BY DEF IndInv, FileInv
  <1> QED
    BY Invariance, <1>1, PTL

\* A file renamed to the trash is always one the journal will remove.
THEOREM TrashIsJournaledHolds == Spec => []TrashIsJournaled
  <1>1. IndInv => TrashIsJournaled
    BY DEF IndInv, TrashInv
  <1> QED
    BY Invariance, <1>1, PTL

\* Neither a half-done path nor a photo in the trash is ever forgotten.
THEOREM NothingForgottenHolds == Spec => []NothingForgotten
  <1>1. NothingHalfDone /\ TrashIsJournaled => NothingForgotten
    BY DEF NothingForgotten
  <1> QED
    BY <1>1, NothingHalfDoneHolds, TrashIsJournaledHolds, PTL

\* When the journal's single slot is about to be reused nothing depends on it.
THEOREM CleanBeforeNextItemHolds == Spec => []CleanBeforeNextItem
  <1>1. IndInv => CleanBeforeNextItem
    BY DEF IndInv, FileInv, TrashInv, CleanBeforeNextItem
  <1> QED
    BY Invariance, <1>1, PTL

\* Sync replaces or removes a recorded file only if it passed its conflict check
\* and the user left it alone since.
THEOREM OnlyVerifiedFilesReplacedHolds == Spec => OnlyVerifiedFilesReplaced
  <1>1. IndInv /\ [Next]_vars => [VerifiedReplacement]_vars
    <2> SUFFICES ASSUME IndInv, [Next]_vars, NEW p \in Paths, ReplacedBySync(p)
                 PROVE  snap[p] = NoRow \/ local[p] = snap[p].local_sha256 \/ p \in exposed
      BY DEF VerifiedReplacement
    <2> USE DEF IndInv, ReplacedBySync, TypeOK
    <2>1. RenameStaged \/ RenameToTrash \/ UNCHANGED local
          \/ RecoverRename \/ \E q \in Paths, c \in UserContents \cup {Absent} : UserEdit(q, c)
      BY DEF Next, Engine, Items, Environment, Recover, vars, disk, StartRun, StartWatch,
             StartBatch, StopWatch, RecoverNothing, RecoverRecord, RecoverAbandon, RecoverKeep,
             RecoverRemoveTrash, RecoverDrop, RecoverClear, Plan, Stage, StageFails, ItemEnds,
             DeleteMissing, DeleteDirectory, JournalDelete, WriteJournal, RenameFails,
             SaveLedger, RemoveTrash, ClearJournal, SkipChange, ApplyInfo, Finish, JournalFails,
             Abort, PhonePut, PhoneRemove
    <2>2. CASE RenameStaged \/ RenameToTrash
      <3>1. p = held.path /\ pc = "journaled"
        BY <2>2 DEF RenameStaged, RenameToTrash
      <3> QED
        BY <3>1 DEF CheckedInv, Checked
    <2>3. CASE RecoverRename
      BY <2>3 DEF RecoverRename
    <2>4. ASSUME NEW q \in Paths, NEW c \in UserContents \cup {Absent}, UserEdit(q, c)
          PROVE  FALSE
      BY <2>4 DEF UserEdit
    <2> QED
      BY <2>1, <2>2, <2>3, <2>4
  <1> QED
    BY Invariance, <1>1, PTL DEF Spec, OnlyVerifiedFilesReplaced

-----------------------------------------------------------------------------
(***************************************************************************)
(* The ledger and photos that are not edited in place.                     *)
(***************************************************************************)

\* No photo on the phone changes its bytes: B gives the bytes of each path.
PhotosFixed(B) ==
    \A p \in Paths : Downloadable(p) => phone[p].content = B[p]

\* Then all that sync records of a path, or writes there, are these bytes.
BytesInv(B) ==
    /\ \A action \in {journal, held} :
        action \in Download => action.row.local_sha256 = B[action.path]
    /\ \A p \in Paths :
        /\ ledger[p] # NoRow => ledger[p].local_sha256 = B[p]
        /\ snap[p] # NoRow => snap[p].local_sha256 = B[p]
        /\ owner[p] = "sync" => local[p] \in {Absent, B[p]}

\* No step makes sync record or write other bytes.
LEMMA BytesStep ==
    ASSUME NEW B, IndInv, BytesInv(B), PhotosFixed(B), [Next]_vars
    PROVE  BytesInv(B)'
  <1> USE DEF disk, channel, work, engine, observer, vars, IndInv, TypeOK, BytesInv
  <1>1. ASSUME UNCHANGED <<journal, held, snap, ledger, local, owner>> PROVE BytesInv(B)'
    BY <1>1
  <1>2. ASSUME StartWatch \/ StopWatch \/ RecoverNothing \/ RecoverAbandon \/ RecoverKeep
               \/ RecoverRemoveTrash \/ Plan \/ RemoveTrash \/ SkipChange
        PROVE  BytesInv(B)'
    BY <1>1, <1>2 DEF StartWatch, StopWatch, RecoverNothing, RecoverAbandon, RecoverKeep,
                      RecoverRemoveTrash, Plan, RemoveTrash, SkipChange
  <1>3. ASSUME NEW p \in Paths, StageFails(p) \/ DeleteDirectory(p) \/ PhoneRemove(p)
        PROVE  BytesInv(B)'
    BY <1>1, <1>3 DEF StageFails, DeleteDirectory, ItemEnds, PhoneRemove
  <1>4. ASSUME NEW p \in Paths, NEW file \in RemoteFile, PhonePut(p, file) PROVE BytesInv(B)'
    BY <1>1, <1>4 DEF PhonePut
  <1>5. ASSUME StartRun \/ StartBatch PROVE BytesInv(B)'
    BY <1>5 DEF StartRun, StartBatch
  <1>6. ASSUME RecoverRename PROVE BytesInv(B)'
    <2>1. journal \in Download
      BY <1>6 DEF RecoverRename, Pending, PendingSyncAction, Delete
    <2>2. part[journal.name] = B[journal.path] /\ journal.path \in Paths
      BY <1>6, <2>1 DEF RecoverRename, PartInv, StagedBytes, Download
    <2> QED
      BY <1>6, <2>2 DEF RecoverRename
  <1>7. ASSUME RecoverRecord PROVE BytesInv(B)'
    <2>1. journal \in Download
      BY <1>7 DEF RecoverRecord, Pending, PendingSyncAction, Delete
    <2>2. journal.path \in Paths /\ journal.row.local_sha256 = B[journal.path]
      BY <2>1 DEF Download
    <2> QED
      BY <1>7, <2>2 DEF RecoverRecord, Snapshot
  <1>8. ASSUME RecoverDrop PROVE BytesInv(B)'
    BY <1>8 DEF RecoverDrop, Snapshot
  <1>9. ASSUME RecoverClear \/ ClearJournal \/ RenameFails PROVE BytesInv(B)'
    <2>1. NoAction \notin Download
      BY DEF PendingSyncAction
    <2> QED
      BY <1>9, <2>1 DEF RecoverClear, ClearJournal, RenameFails
  <1>10. ASSUME NEW p \in Paths, NEW n \in PartNames, Stage(p, n) PROVE BytesInv(B)'
    <2>1. held'.row.local_sha256 = phone[p].content /\ held'.path = p /\ Downloadable(p)
          /\ UNCHANGED <<journal, snap, ledger, local, owner>>
      BY <1>10 DEF Stage
    <2>2. held'.row.local_sha256 = B[held'.path]
      BY <2>1 DEF PhotosFixed
    <2> QED
      BY <2>1, <2>2
  <1>11. ASSUME NEW p \in Paths, DeleteMissing(p) PROVE BytesInv(B)'
    BY <1>11 DEF DeleteMissing, Snapshot
  <1>12. ASSUME NEW p \in Paths, NEW n \in TrashNames, JournalDelete(p, n) PROVE BytesInv(B)'
    <2>1. held' \notin Download /\ journal' \notin Download
          /\ UNCHANGED <<snap, ledger, local, owner>>
      BY <1>12 DEF JournalDelete, Download
    <2> QED
      BY <2>1
  <1>13. ASSUME WriteJournal PROVE BytesInv(B)'
    BY <1>13 DEF WriteJournal
  <1>14. ASSUME RenameStaged PROVE BytesInv(B)'
    <2>1. held \in Download
      BY <1>14 DEF RenameStaged, HeldInv, PendingSyncAction, Delete
    <2>2. part[held.name] = B[held.path] /\ held.path \in Paths
          /\ held.row.local_sha256 = B[held.path]
      BY <1>14, <2>1 DEF RenameStaged, PartInv, Download
    <2> QED
      BY <1>14, <2>2 DEF RenameStaged, Snapshot
  <1>15. ASSUME RenameToTrash PROVE BytesInv(B)'
    BY <1>15 DEF RenameToTrash, Snapshot
  <1>16. ASSUME SaveLedger PROVE BytesInv(B)'
    BY <1>16 DEF SaveLedger
  <1>17. ASSUME ApplyInfo PROVE BytesInv(B)'
    <2> DEFINE change == Head(batch)
               row == with_metadata(snap[change.path], change.file)
    <2>1. change \in FileChange
      BY <1>17 DEF ApplyInfo
    <2>2. change.path \in Paths /\ snap[change.path] \in Row /\ change.file \in RemoteFile
      BY <1>17, <2>1 DEF ApplyInfo, FileChange, Snapshot
    <2>3. row.local_sha256 = B[change.path]
      BY <2>2, WithMetadata
    <2>4. snap' = [snap EXCEPT ![change.path] = row]
          /\ UNCHANGED <<journal, held, ledger, local, owner>>
      BY <1>17 DEF ApplyInfo
    <2> HIDE DEF change, row
    <2> QED
      BY <2>2, <2>3, <2>4 DEF Snapshot
  <1>18. ASSUME Finish PROVE BytesInv(B)'
    <2>1. \A p \in Paths : ledger'[p] # NoRow => ledger'[p].local_sha256 = B[p]
      <3> SUFFICES ASSUME NEW p \in Paths, ledger'[p] # NoRow
                   PROVE  ledger'[p].local_sha256 = B[p]
        OBVIOUS
      <3>1. CASE p \in infos /\ snap[p] # NoRow
        <4>1. listing[p] \in RemoteFile /\ snap[p] \in Row
          BY <3>1 DEF HeldInv, Snapshot
        <4>2. ledger'[p] = with_metadata(snap[p], listing[p])
          BY <1>18, <3>1 DEF Finish
        <4>3. ledger'[p].local_sha256 = snap[p].local_sha256
          <5> HIDE DEF IndInv, TypeOK, BytesInv
          <5> QED
            BY <4>1, <4>2, WithMetadata
        <4> QED
          BY <3>1, <4>3
      <3>2. CASE ~(p \in infos /\ snap[p] # NoRow)
        <4>1. ledger'[p] = snap[p]
          BY <1>18, <3>2 DEF Finish
        <4> QED
          BY <4>1
      <3> QED
        BY <3>1, <3>2
    <2>2. NoAction \notin Download
      BY DEF PendingSyncAction
    <2> QED
      BY <1>18, <2>1, <2>2 DEF Finish, NoWork
  <1>19. ASSUME JournalFails \/ Abort PROVE BytesInv(B)'
    <2>1. NoAction \notin Download
      BY DEF PendingSyncAction
    <2> QED
      BY <1>19, <2>1 DEF JournalFails, Abort, NoWork
  <1>20. ASSUME NEW p \in Paths, NEW c \in UserContents \cup {Absent}, UserEdit(p, c)
         PROVE  BytesInv(B)'
    BY <1>20 DEF UserEdit
  <1>21. ASSUME UNCHANGED vars PROVE BytesInv(B)'
    BY <1>1, <1>21
  <1> QED
    BY <1>2, <1>3, <1>4, <1>5, <1>6, <1>7, <1>8, <1>9, <1>10, <1>11, <1>12, <1>13, <1>14, <1>15,
       <1>16, <1>17, <1>18, <1>19, <1>20, <1>21 DEF Next, Recover, Engine, Items, Environment

\* As long as no photo is edited in place on the phone, the ledger never lies
\* about a file sync put there or removed, whatever crashes, aborts, failed
\* calls and the host's user do: what is at the path is what its record says,
\* or the journal names the path (execute_plan_with_checkpoint, recover_impl).
THEOREM LedgerMatchesFilesHolds ==
    ASSUME NEW CONSTANT B
    PROVE  Spec /\ []PhotosFixed(B) => []LedgerMatchesFiles
  <1>1. Init => BytesInv(B)
    BY DEF Init, BytesInv, PendingSyncAction
  <1>2. IndInv /\ BytesInv(B) /\ PhotosFixed(B) /\ [Next]_vars => BytesInv(B)'
    BY BytesStep
  <1>3. IndInv /\ BytesInv(B) => LedgerMatchesFiles
    <2> SUFFICES ASSUME IndInv, BytesInv(B), NEW p \in Paths, owner[p] = "sync", ~Journaled(p)
                 PROVE  Recorded(p)
      BY DEF LedgerMatchesFiles
    <2>1. Recorded(p) \/ StrandedIn(p, Strays)
      BY DEF IndInv, FileInv, NothingHalfDone, Done
    <2>2. ASSUME StrandedIn(p, Strays) PROVE Recorded(p)
      <3>1. ledger[p] # NoRow /\ local[p] # Absent
        BY <2>2 DEF StrandedIn
      <3>2. ledger[p].local_sha256 = B[p] /\ local[p] = B[p]
        BY <3>1 DEF BytesInv
      <3> QED
        BY <3>1, <3>2 DEF Recorded
    <2> QED
      BY <2>1, <2>2
  <1> QED
    BY Invariance, <1>1, <1>2, <1>3, PTL DEF Spec
=============================================================================
