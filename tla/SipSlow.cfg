SPECIFICATION Spec
CONSTANTS
  CallIds = {c1, c2}
  Setups = {s1, s2}
  RtpStart = 1
  RtpEnd = 2
  SlowSetup = TRUE
  None = None
SYMMETRY Symmetry
INVARIANTS
  PendingAndDialogsDisjoint
  NoOrphanBridge
  GaugeCountsDialogs
CHECK_DEADLOCK FALSE
