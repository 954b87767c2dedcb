SPECIFICATION TierFairSpec
CONSTANTS
  Sessions = {"a", "b"}
  Prompts <- MCPrompts
  Answer <- MCAnswer
  MinReuse = 1
  MinTokens = 2
  MinDelta = 2
  Percent = 50
  EnvCap <- MCEnvCap
  Tuned = {4}
  MaxFaults = 2
  MaxJunk = 4
  None = None
INVARIANT PlanIsSound
PROPERTIES SavesWithinCap SkewHeals
