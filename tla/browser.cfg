CONSTANTS
  d1 = d1
  d2 = d2
  c1 = c1
  c2 = c2
  Docs <- TwoTabs
  Calls = {c1, c2}
  Owner <- MCOwner
  Gone = gone
  MaxNet = 2
  Budget = 2
SPECIFICATION FairBrowserSpec
INVARIANTS QueueServed ReplayExplained
PROPERTIES GuardsUnblock CallsSettle
CHECK_DEADLOCK FALSE
