--------------------------- MODULE MCServerSession ---------------------------
EXTENDS ServerSession

CONSTANTS u1, w1
=============================================================================
