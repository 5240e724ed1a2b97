\* Deadlock is not checked: the user may stop typing and the driver may have
\* no further packet.
CHECK_DEADLOCK FALSE
SPECIFICATION FairSpec
CONSTANTS
  MaxSetups = 2
  MaxPackets = 3
  QueueMax = 1
  MaxFailures = 1
INVARIANTS
  TypeOK
  ProducedOnceInOrder
  LossNeedsFailure
  DestroyedInUseNeedsCause
PROPERTIES
  FullQueuePasses
  PolledIsReported
