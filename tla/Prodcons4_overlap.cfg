SPECIFICATION Spec
CONSTANTS
  p1 = p1
  p2 = p2
  c1 = c1
  c2 = c2
  None = None
  Producers <- TwoProducers
  Consumers <- OneConsumer
  Overlap = TRUE
  Faults <- AllFaults
  Interrupted <- OneOfEach
  Killable <- Nobody
INVARIANTS
  LockInv
  CleanExit
CHECK_DEADLOCK FALSE
