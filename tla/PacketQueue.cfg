\* The system can stop: a reset that swallows the signal of the last packet leaves
\* every request asleep over a queue that holds all packets.
CHECK_DEADLOCK FALSE
SPECIFICATION FairSpec
CONSTANTS
  Packets = {k1, k2, k3}
  Dpcs = {dpc}
  Hooks = {hook}
  Requests = {r1, r2}
  None = None
INVARIANTS
  TypeOK
  OnePlace
PROPERTIES
  ImplementsChannel
  SignalledPacketsLeave
