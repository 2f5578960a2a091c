SPECIFICATION Spec
CONSTANTS
  OptSets <- MCOptSets
  Privileged = FALSE
  HasSetgroups = TRUE
  Faults <- AllFaults
  Killable <- Everyone
INVARIANTS
  LaunchInv
  UnmappedOnlyIfParentFailed
PROPERTIES
  IsLauncher
  Termination
CHECK_DEADLOCK FALSE
