SPECIFICATION Spec
CONSTANTS
  Sessions = {s1}
  Transfers = {t1, t2}
  Streams = {w1}
  Ports = {1, 2}
  None = None
SYMMETRY Symmetry
INVARIANTS PortsAreExclusive PoolIsExact InvitedPortIsHeld
CHECK_DEADLOCK FALSE
