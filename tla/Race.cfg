\* Edits in the middle of a run, on either side.
SPECIFICATION Spec
CONSTANTS
  Path <- TreePath
  Root = "/"
  NoPath = "-"
  Parent <- TreeParent
  Above <- TreeAbove
  Rank <- TreeRank
  Conflict <- TreeConflict
  Class <- TreeClass
  KindsOf <- TreeKinds
  MaxEntries = 3
  PutTags = FALSE
  Events = {"net", "listing", "disk", "rename", "scan", "state", "abort", "crash", "undated"}
  LocalWindow = {"idle", "scanR", "scanL", "item", "get", "swap", "install", "tag", "rmdir", "save"}
  RemoteWindow = {"idle", "scanR", "scanL", "item", "get", "swap", "install", "stamp", "rmdir", "save"}
  MaxEdits = 3
  MaxFaults = 1
  Settle = 2
INVARIANTS StateSound SoundInv ConvergedOrStuck
