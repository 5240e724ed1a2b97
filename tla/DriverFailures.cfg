\* Deadlock is not checked: DriverEntry can fail, and a fault stops the machine.
CHECK_DEADLOCK FALSE
SPECIFICATION Spec
CONSTANTS
  Procs = {p1}
  NoProc = NoProc
  Threads = {t1, t2}
  HardwareKinds <- MCHardwareKinds
  DEFAULT_NUMBER_OF_TOPA_ENTRIES = 3
  MaxDpcs = 2
  MaxFailures = 2
  MaxSetups = 2
SYMMETRY MCSymmetry
INVARIANTS
  TypeOK
  FaultNeedsCause
