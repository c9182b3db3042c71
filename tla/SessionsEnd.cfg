SPECIFICATION FairSpec
CONSTANTS
    t1 = t1
    t2 = t2
    s1 = s1
    TransferIds <- TwoTransfers
    SessionIds <- OneSession
    SessionOf <- AllOnFirst
    HistoryCapacity = 2
    Batches <- OneBatch
    Losable <- Nobody
PROPERTIES
    TeardownEnds
CHECK_DEADLOCK FALSE
