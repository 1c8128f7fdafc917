\* One session, two turns, two steps, two tool calls, and two crashes.
SPECIFICATION FairSpec
CONSTANTS
    MaxTurns = 2
    MaxSteps = 2
    MaxCalls = 2
    MaxCrashes = 2
INVARIANTS
    TypeOK
    ResultsTellTheTruth
    NothingForgotten
    AnsweredOnce
    RepairCompletes
PROPERTY
    TurnCloses
CHECK_DEADLOCK FALSE
