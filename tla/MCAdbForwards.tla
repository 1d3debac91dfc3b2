---------------------------- MODULE MCAdbForwards ----------------------------
EXTENDS AdbForwards

CONSTANTS d1, d2, c1, c2, p1, ctl
=============================================================================
