\* Deadlock is not checked: the trace ends, and an exception ends the decoder.
CHECK_DEADLOCK FALSE
SPECIFICATION Spec
CONSTANTS
  Packets <- MCPackets
  MaxPackets = 4
  MaxCuts = 1
INVARIANTS
  TypeOK
  FramingKept
  SwallowsOnlyCutStart
  SuccessionComplete
  StopsOnlyForCause
