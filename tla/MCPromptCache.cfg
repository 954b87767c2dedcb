SPECIFICATION Spec
CHECK_DEADLOCK FALSE
CONSTANTS
  Sessions = {"a", "b"}
  Derived = {"b"}
  Prompts <- MCPrompts
  Generations <- MCGenerations
  ResidentSlots = 2
  ResidentTokens = 0
  MinReuse = 1
  ProtectMin = 3
  LargeMin = 4
  BypassMax = 2
  StaticMax = 2
  MinSuffix = 1
  Bucket = 2
  KeyLimit = 0
  MaxTokens = 4
  DropStale = TRUE
  DirectIds = FALSE
  Prewarms = TRUE
  Recoded <- MCRecoded
  MaxRequests = 3
  NoKv = NoKv
  NoSession = NoSession
INVARIANTS PlanIsSound KeysAreHonest
