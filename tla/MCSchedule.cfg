SPECIFICATION FairSpec
CONSTANTS
    t1 = t1
    t2 = t2
    s1 = s1
    Tasks <- MCTasks
    Sessions <- MCSessions
    SessionOf <- MCSessionOf
    Intervals = {0, 1}
    MaxNow = 2
    MaxDelay = 1
    Records = 1
    Budget = 2
INVARIANTS
    TypeOK
    ReceiptsAreDurable
    TimerCovers
    RepeatsAreExcused
PROPERTIES
    KeepsBook
    DueIsServed
CHECK_DEADLOCK FALSE
