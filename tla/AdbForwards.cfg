SPECIFICATION FairSpec
CONSTANTS
  d1 = d1
  d2 = d2
  c1 = c1
  c2 = c2
  p1 = p1
  ctl = ctl
  Devices = {d1, d2}
  Conns = {c1}
  Ports = {p1}
  Control = ctl
  MaxFailures = 1
INVARIANTS
  TypeOK
  TornDownForwardsGone
PROPERTIES
  LiveForwardsKept
  ControlForwardRestored
CHECK_DEADLOCK FALSE
