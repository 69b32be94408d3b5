\* A drawer deleted here while a file appears in it on the server.
SPECIFICATION Spec
CONSTANTS
  Path <- TreePath
  Root = "/"
  NoPath = "-"
  Parent <- TreeParent
  Above <- TreeAbove
  Rank <- TreeRank
  Conflict <- TreeConflict
  Class <- TreeClass
  KindsOf <- TreeKinds
  MaxEntries = 3
  PutTags = TRUE
  Events = {}
  LocalWindow = {"idle"}
  RemoteWindow = {"idle"}
  MaxEdits = 2
  MaxFaults = 0
  Settle = 2
PROPERTY DeletionProved
