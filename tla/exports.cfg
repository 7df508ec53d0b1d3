SPECIFICATION FairSpec
CONSTANTS
  Workers = {w1, w2}
  None = None
  Tasks <- MCTasks
  Batch = 2
  MaxReceives = 2
  MaxMessages = 2
  MaxRequests = 2
  MaxExports = 2
INVARIANTS LinksLead ActiveOverlap
PROPERTIES TasksCarried TasksSettle
CHECK_DEADLOCK FALSE
