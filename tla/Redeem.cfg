SPECIFICATION Spec
CONSTANTS
  limited = limited
  open = open
  Codes = {limited, open}
  Redeems = {r1, r2, r3, r4, r5}
  MaxUses <- MCMaxUses
  Unlimited = Unlimited
  None = None
SYMMETRY Symmetry
INVARIANTS UseCountWithinLimit UseCountIsBackedByRows
PROPERTIES DeactivationIsFinal
CHECK_DEADLOCK FALSE
