--------------------------- MODULE MCPerCoreSync ---------------------------
EXTENDS PerCoreSync
=============================================================================
