SPECIFICATION Spec
CONSTANTS
    t1 = t1
    t2 = t2
    s1 = s1
    TransferIds <- TwoTransfers
    SessionIds <- OneSession
    SessionOf <- AllOnFirst
    HistoryCapacity = 1
    Batches <- OneBatch
    Losable <- OneSession
INVARIANTS
    ShutdownComplete
    QuitIsFinal
    HandleOwned
    EndedTaskSettles
PROPERTIES
    OneWay
CHECK_DEADLOCK FALSE
