SPECIFICATION RequestFairSpec
CONSTANTS
  Requests = {q1, q2}
  Operators = {o1, o2}
  CanCrash = TRUE
  NoValue = NoValue
INVARIANTS MailFollowsCode FulfilledMeansMailed
PROPERTIES RequestIsSettled
CHECK_DEADLOCK FALSE
