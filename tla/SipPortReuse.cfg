SPECIFICATION Spec
CONSTANTS
  CallIds = {c1, c2}
  Setups = {s1, s2}
  RtpStart = 1
  RtpEnd = 2
  SlowSetup = FALSE
  None = None
INVARIANTS
  HeldPortsAreInUse
CHECK_DEADLOCK FALSE
