CONSTANTS
  Rows = {1, 2, 3}
  Created = {3}
  PageSize = 1
  Pages <- AllPages
  Budget <- MCBudget
SPECIFICATION FairSpec
INVARIANTS TypeOK AgreesWhenQuiet OwnText
PROPERTY Settles
CHECK_DEADLOCK FALSE
