-------------------------- MODULE MCDriverLifecycle --------------------------
EXTENDS DriverLifecycle, TLC

\* Processors with Intel PT and all of what the driver asks for, without
\* filters, with single-entry tables, without ToPA, and without Intel PT.
Processor(a, t, m, f) == [available |-> a, topa |-> t, multiple |-> m, filters |-> f]

MCHardwareKinds ==
  {Processor(TRUE, TRUE, TRUE, TRUE), Processor(TRUE, TRUE, TRUE, FALSE),
   Processor(TRUE, TRUE, FALSE, TRUE), Processor(TRUE, FALSE, FALSE, TRUE),
   Processor(FALSE, FALSE, FALSE, FALSE)}

\* Processes and threads are only ever compared.
MCSymmetry == Permutations(Procs) \cup Permutations(Threads)
=============================================================================
