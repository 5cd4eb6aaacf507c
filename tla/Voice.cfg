SPECIFICATION FairSpec
CONSTANTS
  MaxCalls = 2
  MaxResponses = 2
  MaxSpeeches = 1
  MaxAudio = 1
  MaxEvents = 2
INVARIANTS QueuedResultsAreReleased InterruptionIsExact
PROPERTIES CallsAreAnswered
CHECK_DEADLOCK FALSE
