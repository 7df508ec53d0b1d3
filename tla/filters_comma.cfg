CONSTANTS
  Step = 2
  Fallback <- MCFallback
  Form <- MCForm
  Data <- MCData
  Split <- SplitLocations
  Words = {"a"}
  Links <- MCLinks
  Views = {"board"}
  FilterActs = 2
SPECIFICATION FiltersSpec
INVARIANTS UrlRestores
CHECK_DEADLOCK FALSE
