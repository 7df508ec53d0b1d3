SPECIFICATION Spec
CONSTANTS
  Budget = 5
  MaxPosts = 2
INVARIANT OwnProfileFound
CHECK_DEADLOCK FALSE
