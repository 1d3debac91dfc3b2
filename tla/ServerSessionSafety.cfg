SPECIFICATION Spec
CONSTANTS
  u1 = u1
  w1 = w1
  Conns = {u1, w1}
  Usb = {u1}
INVARIANTS
  TypeOK
  ServersHaveOneOwner
  HandoffFindsServers
  LiveSessionKeepsServers
  DisplayCallsNeverOverlap
CHECK_DEADLOCK FALSE
