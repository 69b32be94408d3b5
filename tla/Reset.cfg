\* A conflict, and then the state file deleted for a full re-comparison.
SPECIFICATION Spec
CONSTANTS
  Path <- PairPath
  Root = "/"
  NoPath = "-"
  Parent <- PairParent
  Above <- PairAbove
  Rank <- PairRank
  Conflict <- PairConflict
  Class <- PairClass
  KindsOf <- PairKinds
  MaxEntries = 3
  PutTags = TRUE
  Events = {"reset"}
  LocalWindow = {"idle"}
  RemoteWindow = {"idle"}
  MaxEdits = 2
  MaxFaults = 1
  Settle = 2
INVARIANT NothingLost
