SPECIFICATION Spec
CONSTANTS
  MaxQuick = 2
  MaxTear = 2
  MaxTries = 2
  MaxFaults = 1
  MaxOps = 2
  StopPlaces <- MCBackoffToo
PROPERTY LaunchesAreSafe
CHECK_DEADLOCK FALSE
