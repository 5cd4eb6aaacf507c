SPECIFICATION Spec
CONSTANTS
  Ingestions <- MCIngestions
  ExtractionReplies <- MCExtractionReplies
  ItemReplies <- MCItemReplies
  Submissions <- MCSubmissions
  ViewRequests <- MCViewRequests
  NoteLists <- MCNoteLists
  MinSize = 2
  Documents <- MCDocuments
  Artifacts <- MCArtifacts
  Settings <- MCSettings
  Limits <- MCLimits
INVARIANTS
  ModelStepsAreGrounded
  SignalsAreFaithful
  PromptsAreFaithful
  ChunksCoverText
  BriefIsFaithful
CHECK_DEADLOCK FALSE
