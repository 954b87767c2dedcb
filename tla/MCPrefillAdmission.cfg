SPECIFICATION LadderSpec
CHECK_DEADLOCK FALSE
CONSTANTS
  MinPrompt = 4
  Percent = 80
  PerToken = 2
  Reserve = 3
  DirectIds = TRUE
  DropsStale = TRUE
  Limits = {0, 25, 33}
  Reals = {1, 2}
  Prefills <- MCPrefills
  Layouts <- MCLayouts
  MaxFailures = 1
INVARIANT AdmittedFits
PROPERTY EvictionIsLeast
