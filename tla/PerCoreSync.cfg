\* The threads stop after MaxCalls calls, or spin for ever on a counter that a
\* loose DPC has moved past the number of processors.
CHECK_DEADLOCK FALSE
SPECIFICATION FairSpec
CONSTANTS
  Threads = {t1, t2}
  NumCpus = 2
  MaxCalls = 2
  MaxFailures = 1
INVARIANTS
  TypeOK
  WildNeedsFailure
  RanOnceEverywhere
PROPERTIES
  CallsReturn
