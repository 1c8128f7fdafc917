SPECIFICATION FairSpec
CONSTANTS
    h1 = h1
    h2 = h2
    p1 = p1
    p2 = p2
    NoHandle = NoHandle
    Handles = {h1}
    Procs = {p1}
    MaxEvents = 3
    MaxFaults = 2
    RollbackFails = TRUE
PROPERTIES BufferSettles CloseTerminates
CHECK_DEADLOCK FALSE
