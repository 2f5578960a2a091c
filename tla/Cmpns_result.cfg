SPECIFICATION Spec
CONSTANTS
  Differ <- MCDiffer
INVARIANT
  ZeroMeansEqual
CHECK_DEADLOCK FALSE
