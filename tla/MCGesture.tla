------------------------------ MODULE MCGesture ------------------------------
EXTENDS Gesture

CONSTANTS f1, f2
=============================================================================
