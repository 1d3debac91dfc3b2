SPECIFICATION Spec
CONSTANTS
  u1 = u1
  w1 = w1
  Conns = {w1}
  Usb = {}
CHECK_DEADLOCK FALSE
INVARIANT MapHoldsOnlyHandshakes
