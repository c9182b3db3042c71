SPECIFICATION Spec
CONSTANTS
    j1 = j1
    j2 = j2
    w1 = w1
    s1 = s1
    u1 = u1
    p1 = p1
    None = None
    Jobs <- TwoJobs
    Watches <- OneWatch
    Stops <- OneStop
    Unwatches <- OneUnwatch
    Profiles <- OneProfile
    ProfileOf <- AllOnFirst
    LedgerOf <- OneLedger
    FormatOf <- AllGood
    Disabled <- Nobody
INVARIANTS
    RunXorWatch
    NoRunOutlivesStop
    WatchedMeansWatching
PROPERTIES
    StopReturns
CHECK_DEADLOCK FALSE
