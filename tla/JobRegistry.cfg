\* Two jobs, one at a time per owner, over two successive agents of the session; a second
\* waiting call of a job adds nothing, since a settlement releases every wait at once.
SPECIFICATION FairSpec
CONSTANTS
    Jobs = {j1, j2}
    MaxAgents = 2
    Limit = 1
    Reported = {"completed", "killed"}
    MaxWaits = 1
INVARIANTS
    TypeOK
    CompletionToldOnce
    NoOrphans
PROPERTIES
    KeepsContract
    DisposalEnds
\* Every agent gone, the service down and every producer done: the system is over.
CHECK_DEADLOCK FALSE
