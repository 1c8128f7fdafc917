SPECIFICATION Spec
CONSTANTS
    h1 = h1
    h2 = h2
    p1 = p1
    p2 = p2
    NoHandle = NoHandle
    Handles <- TwoHandles
    Procs <- TwoProcs
    MaxEvents = 2
    MaxFaults = 1
    RollbackFails = FALSE
INVARIANTS SingleMutator
CHECK_DEADLOCK FALSE
