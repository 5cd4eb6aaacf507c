SPECIFICATION Spec
SYMMETRY Symmetry
CONSTANTS
  a1 = a1
  a2 = a2
  b1 = b1
  o1 = o1
  o2 = o2
  Artifacts <- MCArtifacts
  Owners <- MCOwners
  OwnerOf <- MCOwnerOf
  Earlier <- MCEarlier
  r1 = r1
  r2 = r2
  Requests <- MCRequests
  Asks <- MCAsks
  NoView = NoView
  NotAsked = NotAsked
  Over = Over
INVARIANTS
  FreshAnswerIsCurrent
PROPERTIES
  PromisesKept
CHECK_DEADLOCK FALSE
