SPECIFICATION Spec
CONSTANTS
  Args <- MCArgs
  Differ <- MCDiffer
  Owned <- MCOwned
  Callers <- MCCallers
  Faults <- AllFaults
INVARIANTS
  LoopInv
  RunsWhereAsked
  RootRefusedOnlyBehindUser
PROPERTY
  Ends
CHECK_DEADLOCK FALSE
