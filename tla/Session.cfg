\* The system can stop: all processes are gone, or a bug check has halted it.
CHECK_DEADLOCK FALSE
SPECIFICATION FairSpec
CONSTANTS
  NumCpus = 2
  Procs = {p1}
  NoProc = NoProc
  MaxPmis = 2
  MaxFailures = 0
INVARIANTS
  IdsIdentifyPackets
PROPERTIES
  PausedResumes
  CallbacksReturn
