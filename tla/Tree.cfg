\* A drawer, a file in it and its conflict copy; users edit between runs.
SPECIFICATION FairSpec
CONSTANTS
  Path <- TreePath
  Root = "/"
  NoPath = "-"
  Parent <- TreeParent
  Above <- TreeAbove
  Rank <- TreeRank
  Conflict <- TreeConflict
  Class <- TreeClass
  KindsOf <- TreeKinds
  MaxEntries = 3
  PutTags = TRUE
  Events = {"net", "disk", "abort", "crash"}
  LocalWindow = {"idle"}
  RemoteWindow = {"idle"}
  MaxEdits = 4
  MaxFaults = 1
  Settle = 2
INVARIANTS TypeOK StateSound LossInv ConvergedOrStuck
PROPERTIES DeletionFounded LossConfined RunEnds
