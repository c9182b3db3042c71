SPECIFICATION Spec
CONSTANTS
    c1 = c1
    c2 = c2
    s1 = s1
    s2 = s2
    p1 = p1
    p2 = p2
    Free = Free
    Callers <- TwoCallers
    Subs <- TwoSubs
    Publishers <- TwoPublishers
    MAX_SUBSCRIPTIONS = 1
    Capacity = 1
    Buffering = 1
    MaxEvents = 2
INVARIANTS
    NoUseAfterFree
    QuotaExact
    NothingSilentlyLost
PROPERTIES
    HandlesReleased
CHECK_DEADLOCK FALSE
