SPECIFICATION Spec
CONSTANTS
  r1 = r1
  r2 = r2
  NoOne = NoOne
  Run <- OneRun
  Num <- MCNum
  TargetView <- MCTargetView
  Overflow <- MCOverflow
  Faults <- NoFaults
  Killable = {}
  TargetMayDie = FALSE
INVARIANT
  UidTranslated
