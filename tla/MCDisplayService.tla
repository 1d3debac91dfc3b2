--------------------------- MODULE MCDisplayService ---------------------------
EXTENDS DisplayService
=============================================================================
