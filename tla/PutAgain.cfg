\* A PUT over a connection the server has closed meanwhile.
SPECIFICATION Spec
CONSTANTS
  Block = {"a", "b"}
  Contents <- Files
  Page = "page"
  NoRes = NoRes
  Coll = Coll
  Framings = {"length"}
  Events = {"idle"}
INVARIANT Reopened
