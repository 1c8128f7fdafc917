SPECIFICATION FairSpec
CONSTANTS
    Requests = 3
    MaxParallel = 2
INVARIANTS TypeOK ModelOrder ExclusiveRunsAlone SettlesQuiescent
PROPERTIES FailureStopsDispatch ImplementsBatch BatchSettles
CHECK_DEADLOCK FALSE
