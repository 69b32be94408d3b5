\* Every request, every fault, over kept connections.
SPECIFICATION FairSpec
CONSTANTS
  Block = {"a", "b"}
  Contents <- Files
  Page = "page"
  NoRes = NoRes
  Coll = Coll
  Framings = {"length", "chunked", "close"}
  Events = {"idle", "drop", "connect", "refuse", "read", "write", "memory", "stop"}
INVARIANTS TypeOK Paired LinkInv Achieved DownloadWhole ListingWhole ReopenedButPut
PROPERTIES PutWhole RequestEnds Implements
