SPECIFICATION FairSpec
CONSTANTS
  Calls = {c1, c2, c3}
  Faults = TRUE
  None = None
INVARIANTS ExclusiveExecution CompletedHasBrief NoticeIsTrue
PROPERTIES CompletedIsKept AnsweredRunTakesNoMore ProcessingEnds
CHECK_DEADLOCK FALSE
