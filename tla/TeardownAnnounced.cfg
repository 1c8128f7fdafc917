\* A user kills a job while its agent is being disposed.
SPECIFICATION FairSpec
CONSTANTS
    Jobs = {j1}
    MaxAgents = 1
    Limit = 1
    Reported = {"completed", "killed"}
    MaxWaits = 1
PROPERTY TeardownAnnounced
CHECK_DEADLOCK FALSE
