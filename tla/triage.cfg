CONSTANTS
  Apps = {1, 2}
  HasResume = {1}
  PageSize = 1
  MaxPages = 2
  MaxPuts = 2
  MaxMounts = 2
SPECIFICATION FairSpec
INVARIANTS UndoPointsAtDecision AgreesWhenQuiet
PROPERTY ArmedSlideEnds
CHECK_DEADLOCK FALSE
