CONSTANTS
  d1 = d1
  d2 = d2
  c1 = c1
  c2 = c2
  Docs <- OneTab
  Calls = {c1, c2}
  Owner <- MCOwner
  Gone = gone
  MaxNet = 3
  Budget = 2
SPECIFICATION BrowserSpec
CHECK_DEADLOCK FALSE
PROPERTY LogoutHolds
