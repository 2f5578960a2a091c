SPECIFICATION Spec
CONSTANTS
  r1 = r1
  r2 = r2
  NoOne = NoOne
  Run <- OneRun
  Num <- MCNum
  TargetView <- MCTargetView
  Overflow <- MCOverflow
  Faults <- OneFaults
  Killable <- BothKillable
  TargetMayDie = TRUE
INVARIANTS
  TypeOK
  PidTranslated
  NothingLeft
PROPERTY
  EndsOrDeaf
CHECK_DEADLOCK FALSE
