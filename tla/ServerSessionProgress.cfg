SPECIFICATION FairSpec
CONSTANTS
  u1 = u1
  w1 = w1
  Conns = {u1}
  Usb = {u1}
PROPERTIES
  ImplementsLease
  HandshakeEnds
  LeftClientIsReleased
CHECK_DEADLOCK FALSE
