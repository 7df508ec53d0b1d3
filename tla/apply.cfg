SPECIFICATION Spec
CONSTANTS
  Budget = 5
  MaxPosts = 2
INVARIANTS
  StepsBehindValid
  SentWasComplete
  ResumeRefusalExplained
  AccountOwnsItsRecord
  WaitsForItsRequest
PROPERTY
  SubmitSettles
CHECK_DEADLOCK FALSE
