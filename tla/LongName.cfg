\* A conflict on a file whose conflict copy cannot be named.
SPECIFICATION Spec
CONSTANTS
  Path <- LongPath
  Root = "/"
  NoPath = "-"
  Parent <- LongParent
  Above <- LongAbove
  Rank <- LongRank
  Conflict <- LongConflict
  Class <- LongClass
  KindsOf <- LongKinds
  MaxEntries = 1
  PutTags = TRUE
  Events = {}
  LocalWindow = {"idle"}
  RemoteWindow = {"idle"}
  MaxEdits = 2
  MaxFaults = 0
  Settle = 2
INVARIANT NothingLost
