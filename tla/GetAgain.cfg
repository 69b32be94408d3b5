\* A GET that is lost in the middle and sent again.
SPECIFICATION Spec
CONSTANTS
  Block = {"a", "b"}
  Contents <- Files
  Page = "page"
  NoRes = NoRes
  Coll = Coll
  Framings = {"length"}
  Events = {"drop"}
INVARIANT DownloadExact
