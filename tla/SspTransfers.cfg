SPECIFICATION Spec
CONSTANTS
    down = down
    up = up
    Nobody = Nobody
    Requests <- Transfers
    Heartbeats <- None
    Kind <- KindOf
    Header <- One
    Rest <- One
    ChannelCapacity = 1
    WriterCapacity = 1
    Cancellable <- Transfers
    Abortable <- Ups
    Sid <- SidOf
    MaxPushes = 1
INVARIANTS
    AnswerIsOwn
    PendingExact
PROPERTIES
    CallEnds
CHECK_DEADLOCK FALSE
