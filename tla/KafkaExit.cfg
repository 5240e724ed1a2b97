\* Deadlock is not checked: the user may stop typing and the driver may have
\* no further packet.
CHECK_DEADLOCK FALSE
SPECIFICATION FairSpec
CONSTANTS
  MaxSetups = 1
  MaxPackets = 1
  QueueMax = 1
  MaxFailures = 1
PROPERTY
  ExitExits
