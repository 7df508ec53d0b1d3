CONSTANTS
  Rows = {1, 2, 3}
  Created = {3}
  PageSize = 2
  Pages = {"jobs"}
  Budget <- MCBudget
SPECIFICATION Spec
PROPERTIES EditsKept
CHECK_DEADLOCK FALSE
