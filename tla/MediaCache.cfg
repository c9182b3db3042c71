SPECIFICATION Spec
CONSTANTS
    r1 = r1
    Kinds <- OnlyVideo
    MaxId = 2
    IdLess = 1
    Readers <- OneReader
    Limits <- SomeLimits
    MaxLimit = 2
    BusCapacity = 1
    HubCapacity = 1
    MaxPushes = 2
INVARIANTS
    
    PageAfterNotice
    
    
PROPERTIES
    SubscriberEnds
CHECK_DEADLOCK FALSE
