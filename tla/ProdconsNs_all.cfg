SPECIFICATION Spec
CONSTANTS
  p1 = p1
  p2 = p2
  c1 = c1
  c2 = c2
  None = None
  Kinds <- AllKinds
  Producers <- TwoProducers
  Consumers <- TwoConsumers
  Users <- TheUsers
  LastDate = 2
  MsgqSize = 1
  Interrupted <- TheInterrupted
  Killable <- TheKilled
INVARIANTS
  LockInv
  RestartWorks
  CleanExit
PROPERTIES
  IsChannel
  RemovalNoticed
CHECK_DEADLOCK FALSE
