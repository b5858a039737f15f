SPECIFICATION LiveSpec
CONSTANTS
  Kinds = {"plain", "cross", "badfirst", "badlater"}
  MaxHeight = 3
  MaxCrashes = 1
  StoreMayFail = TRUE
  PeerMayFail = TRUE
INVARIANTS RestartCosts
PROPERTIES SavedInOrder BlockSaved
CHECK_DEADLOCK FALSE
