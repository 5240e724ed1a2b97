--------------------------- MODULE MCTraceControl ---------------------------
EXTENDS TraceControl
=============================================================================
