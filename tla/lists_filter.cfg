CONSTANTS
  Rows = {1, 2, 3}
  Created = {3}
  PageSize = 2
  Pages = {"applications"}
  Budget <- MCBudget
SPECIFICATION Spec
INVARIANTS FilterShown
CHECK_DEADLOCK FALSE
