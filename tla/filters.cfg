CONSTANTS
  Step = 2
  Fallback <- MCFallback
  Form <- MCForm
  Data <- MCData
  Split <- WholeLocations
  Words = {"a"}
  Links <- MCLinks
  Views <- AllViews
  FilterActs = 4
SPECIFICATION FiltersSpec
INVARIANTS ClearedShowsAll HiddenExplained UrlRestores
CHECK_DEADLOCK FALSE
