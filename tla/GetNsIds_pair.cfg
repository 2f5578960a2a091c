SPECIFICATION Spec
CONSTANTS
  r1 = r1
  r2 = r2
  NoOne = NoOne
  Run <- TwoRuns
  Num <- PairNum
  TargetView <- PairView
  Overflow <- MCOverflow
  Faults <- PairFaults
  Killable <- FatherKillable
  TargetMayDie = FALSE
INVARIANT
  SuccessMeansAnswer
CHECK_DEADLOCK FALSE
