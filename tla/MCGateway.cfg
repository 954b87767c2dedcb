SPECIFICATION MCSpec
CONSTANTS
  Callers <- MCCallers
  Leavers <- MCLeavers
  AllowStop = TRUE
  M3Grace = 1
  OmlxGrace = 2
  SeedGrace = 1
  MaxFaults = 2
  None = None
INVARIANTS SwitchSparesM3 
PROPERTIES ModelIsKept EveryRequestEnds
CHECK_DEADLOCK FALSE
