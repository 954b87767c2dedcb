SPECIFICATION MCEither
CONSTANTS
  r1 = r1  r2 = r2  k1 = k1  s1 = s1  v1 = v1
  h1 = h1  h2 = h2  x1 = x1
  NoOne = NoOne
  MaxSteps = 2
  Requests <- MCTwoRequests
  Keepwarms <- MCKeepwarm
  SsdAdmins <- MCSsdAdmins
  Savers <- MCSavers
  LoopAdmins <- MCLoopAdmins
  Janitors <- MCNone
  Stoppers <- MCStoppers
  OneSided <- MCBothFail
INVARIANTS AgreeAtRest BarrierAgrees LoopKeepsApart
PROPERTY ShutdownMeetsNoRequest
CHECK_DEADLOCK FALSE
