SPECIFICATION Spec
CONSTANTS
  t1 = t1
  t2 = t2
  o1 = o1
  o2 = o2
  Shell = Shell
  Reaper = Reaper
  None = None
  Tools <- TwoTools
  Orphans <- TwoOrphans
  Faults <- AllFaults
INVARIANTS
  ReaperInv
PROPERTIES
  ZombiesReaped
  ExitsForAReason
  EndsWithShell
CHECK_DEADLOCK FALSE
