\* A file changed on both sides, its conflict copy, faults and crashes.
SPECIFICATION Spec
CONSTANTS
  Path <- PairPath
  Root = "/"
  NoPath = "-"
  Parent <- PairParent
  Above <- PairAbove
  Rank <- PairRank
  Conflict <- PairConflict
  Class <- PairClass
  KindsOf <- PairKinds
  MaxEntries = 3
  PutTags = TRUE
  Events = {"net", "disk", "state", "abort", "crash", "reset"}
  LocalWindow = {"idle"}
  RemoteWindow = {"idle"}
  MaxEdits = 3
  MaxFaults = 2
  Settle = 2
INVARIANTS StateSound Converged
PROPERTIES DeletionProved DeletedIsGone LossConfined SecondRunQuiet
