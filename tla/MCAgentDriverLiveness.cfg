SPECIFICATION FairSpec
CONSTANTS
  Messages = {m1, m2}
  CancelCauses = {"user"}
  MaxSteps = 1
  MaxCalls = 1
  MaxRetries = 0
  MaxDepth = 2
PROPERTIES LatchedWakeReplays QueuedWakeServed DisposalTerminates
CHECK_DEADLOCK FALSE
