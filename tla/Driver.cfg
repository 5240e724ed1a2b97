\* Deadlock is not checked: a fault stops the machine.
CHECK_DEADLOCK FALSE
SPECIFICATION Spec
CONSTANTS
  Procs = {p1, p2}
  NoProc = NoProc
  Threads = {t1, t2}
  HardwareKinds <- MCHardwareKinds
  DEFAULT_NUMBER_OF_TOPA_ENTRIES = 3
  MaxDpcs = 2
  MaxFailures = 0
  MaxSetups = 1
SYMMETRY MCSymmetry
INVARIANTS
  OverwriteNeedsCause
  FaultNeedsCause
  CapabilitiesAreReal
  TracesTheProcess
  TraceIsServed
