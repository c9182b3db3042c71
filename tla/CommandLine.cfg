SPECIFICATION Spec
CONSTANTS
    Root <- DeviceRoot
    PhoneInit <- Phone
    HostInit <- Host
    Replies <- Answers
    ClipInit = {1, 2}
    Commands <- TopLevel
    Lines <- Typed
    WatchPaths <- Watched
    Volatile <- OthersRemove
    MaxLines = 3
    MaxSignals = 2
    BatchOnTerminal = FALSE

    
    
PROPERTIES
    
    CommandEnds
CHECK_DEADLOCK FALSE
