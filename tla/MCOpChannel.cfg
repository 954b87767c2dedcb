SPECIFICATION LiveSpec
CONSTANTS
  r1 = r1  r2 = r2  k1 = k1  s1 = s1  v1 = v1
  h1 = h1  h2 = h2  x1 = x1
  NoOne = NoOne
  MaxSteps = 2
  Requests <- MCTwoRequests
  Keepwarms <- MCKeepwarm
  SsdAdmins <- MCSsdAdmins
  Savers <- MCNone
  LoopAdmins <- MCNone
  Janitors <- MCNone
  Stoppers <- MCNone
  OneSided <- MCNone
INVARIANT NeverShredded
PROPERTIES ChannelReplicates EveryTransactionEnds
CHECK_DEADLOCK FALSE
