SPECIFICATION Spec
CONSTANTS
  Personas = {p1, p2}
  Names = {n1, n2}
  Conversations = {c1}
  Contents = {x1}
  Calls = {k1, k2}
  Uploads = {u1, u2}
  Turns = {t1, t2}
  MaxTurns = 1
  Cap = 1
  CanCrash = TRUE
  None = None
SYMMETRY Symmetry
INVARIANTS TurnsAreContiguous CitationsAreGrounded NoTwinUploads
  ActiveNamesAreUnique
PROPERTIES DeletionIsFinal
CHECK_DEADLOCK FALSE
