CONSTANTS
  d1 = d1
  d2 = d2
  c1 = c1
  c2 = c2
  Docs <- TwoTabs
  Calls = {c1, c2}
  Owner <- MCOwner
  Gone = gone
  MaxNet = 3
  Budget = 2
SPECIFICATION BrowserSpec
INVARIANTS QueueServed ReplayExplained
CHECK_DEADLOCK FALSE
