SPECIFICATION Spec
CONSTANTS
  Messages = {m1, m2}
  CancelCauses = {"user"}
  MaxSteps = 1
  MaxCalls = 1
  MaxRetries = 0
  MaxDepth = 2
PROPERTY DisposalReplaysNoTurn
CHECK_DEADLOCK FALSE
