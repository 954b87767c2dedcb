SPECIFICATION FairSpec
CONSTANTS
  Kinds <- MCKinds
  Texts <- MCTexts
  Markers <- MCMarkers
  Space = "_"
  NL = "/"
  Sorry = "!"
  Holdback = 2
  MaxRetries = 1
  MaxFaults = 1
INVARIANTS NoMarkupLeaks WholeAnswer
PROPERTIES CutMeansReset StreamEnds
CHECK_DEADLOCK FALSE
