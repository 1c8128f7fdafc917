SPECIFICATION Spec
CONSTANTS
  Messages = {m1, m2}
  CancelCauses = {"user"}
  MaxSteps = 2
  MaxCalls = 2
  MaxRetries = 1
  MaxDepth = 2
SYMMETRY Symmetry
INVARIANTS TypeOK RetiredLogBalanced AdmittedOnce
PROPERTIES LogGrammar AbortBeginsNothing
CHECK_DEADLOCK FALSE
