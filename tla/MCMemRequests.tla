--------------------------- MODULE MCMemRequests ---------------------------
EXTENDS MemRequests
=============================================================================
