CONSTANTS
  q1 = q1
  q2 = q2
  None = None
  Anyone = Anyone
  Requests <- MCRequests
  Paths <- MCPaths
  Total = 6
  Step = 2
  Every = 1
  Poll = 2
  Margin = 2
  Cap = 4
  MaxRetries = 1
  MaxStops = 2
  SshFails = TRUE
SPECIFICATION FairSpec
INVARIANTS
  RanksStopTogether
PROPERTIES
  OthersAreSpared
  StopTakesEffect
  PrefillEnds
CHECK_DEADLOCK FALSE
