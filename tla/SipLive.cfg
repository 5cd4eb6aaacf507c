SPECIFICATION FairSpec
CONSTANTS
  CallIds = {c1}
  Setups = {s1, s2, s3}
  RtpStart = 1
  RtpEnd = 2
  SlowSetup = FALSE
  None = None
INVARIANTS
  NoPortLeak
PROPERTIES
  PendingIsResolved
CHECK_DEADLOCK FALSE
