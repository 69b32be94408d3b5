\* Connect twice where AmiSSL is missing.
SPECIFICATION Spec
CHECK_DEADLOCK FALSE
CONSTANTS
  MaxFolders = 2
  MaxExtra = 1
  MaxPass = 2
  MaxLost = 1
  NoFile = NoFile
  MaxChars = 2
  Files <- MCFiles
  Texts <- MCTexts
  Ports = {80, 70000}
  Chars = {"b"}
  Listings <- MCListings
  Installed <- MCInstalled
  MaxList = 3
  MaxQueue = 2
  MaxInput = 3
  MaxFaults = 1
INVARIANT TlsReady
