\* A dot file on the server that nobody ever deletes.
SPECIFICATION Spec
CONSTANTS
  Path <- DotPath
  Root = "/"
  NoPath = "-"
  Parent <- DotParent
  Above <- DotAbove
  Rank <- DotRank
  Conflict <- DotConflict
  Class <- DotClass
  KindsOf <- DotKinds
  MaxEntries = 2
  PutTags = TRUE
  Events = {}
  LocalWindow = {"idle"}
  RemoteWindow = {"idle"}
  MaxEdits = 1
  MaxFaults = 0
  Settle = 2
PROPERTY DeletedIsGone
