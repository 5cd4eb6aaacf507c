SPECIFICATION FairSpec
CONSTANTS
  Runs = {r1}
  Messages = {m1, m2}
  Limit = 1
  Faults = TRUE
  None = None
INVARIANTS CountWithinLimit CountIsBacked SentIsRecorded
PROPERTIES NoNoticeAfterOptOut MessageIsSettled
CHECK_DEADLOCK FALSE
