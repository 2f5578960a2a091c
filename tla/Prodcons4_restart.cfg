SPECIFICATION Spec
CONSTANTS
  p1 = p1
  p2 = p2
  c1 = c1
  c2 = c2
  None = None
  Producers <- TwoProducers
  Consumers <- TwoConsumers
  Overlap = FALSE
  Faults <- NoFaults
  Interrupted <- TheInterrupted
  Killable <- TheKilled
INVARIANTS
  OwnObjects
  SharedMeansLocked
  WholeDate
  RestartWorks
SYMMETRY AlikeConsumers
CHECK_DEADLOCK FALSE
