SPECIFICATION Spec
CONSTANTS
    Root <- DeviceRoot
    RemoteInit <- Phone
    LocalInit <- Mac
    Contents = {"u"}
    Sources <- PlanSources
    Destinations <- PlanDestinations
    Pairs <- BatchPairs
    QueryPaths <- Queries
    Deletes <- OtherDeletes
    NewPaths <- OtherTargets
    StrayPath <- Stray
    ConcurrencyChoices = {0, 2, 9}
    MaxOthers = 1
INVARIANTS
    
    OnlyTargetsChange
PROPERTIES
    
    TransferEnds
CHECK_DEADLOCK FALSE
