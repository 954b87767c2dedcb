SPECIFICATION FairSpec
CONSTANTS
  MaxQuick = 2
  MaxTear = 2
  MaxTries = 2
  MaxFaults = 4
  MaxOps = 4
  StopPlaces <- MCStopPlaces
INVARIANT LaunchBudget
PROPERTIES LaunchesAreSafe Recovers StopEnds
CHECK_DEADLOCK FALSE
