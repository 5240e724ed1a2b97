--------------------------- MODULE MCStreamDecoder ---------------------------
EXTENDS StreamDecoder
=============================================================================
