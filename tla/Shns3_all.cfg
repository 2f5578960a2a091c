SPECIFICATION Spec
CONSTANTS
  Namespaces <- MCNamespaces
  ArgLists <- MCArgLists
  Faults <- AllFaults
  Killable <- Everyone
INVARIANTS
  LaunchInv
  UnmappedOnlyIfMapperFailed
  FatherOutlivesShell
  StrayMapperHasNoChild
PROPERTIES
  IsLauncher
  GoAfterMapper
  Termination
CHECK_DEADLOCK FALSE
