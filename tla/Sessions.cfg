\* The system can stop: all processes are gone, or a bug check has halted it.
CHECK_DEADLOCK FALSE
SPECIFICATION Spec
CONSTANTS
  NumCpus = 1
  Procs = {p1, p2}
  NoProc = NoProc
  MaxPmis = 1
  MaxFailures = 1
INVARIANTS
  TypeOK
  OutputMsrSafe
  BuffersInOrder
  NoBufferLost
  IdsIdentifyPackets
  FirstPacketLeads
  BugCheckNeedsRace
