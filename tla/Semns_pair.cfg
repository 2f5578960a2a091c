SPECIFICATION Spec
CONSTANTS
  s1 = s1
  s2 = s2
  None = None
  Prog <- TwoPrograms
  Faults <- AllFaults
  Killable <- OneVictim
INVARIANTS
  SemInv
  AnswerAfterLock
  OkCleansUp
PROPERTIES
  UndoEnds
  StaysEnds
CHECK_DEADLOCK FALSE
