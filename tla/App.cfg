\* The program from start to exit, and again, with the user at every moment.
SPECIFICATION FairSpec
CHECK_DEADLOCK FALSE
CONSTANTS
  MaxFolders = 2
  MaxExtra = 1
  MaxPass = 2
  MaxLost = 1
  NoFile = NoFile
  MaxChars = 2
  Files <- MCFiles
  Texts <- MCTexts
  Ports = {80, 70000}
  Chars = {" "}
  Listings <- MCListings
  Installed <- MCInstalled
  MaxList = 3
  MaxQueue = 2
  MaxInput = 4
  MaxFaults = 2
INVARIANTS TypeOK PairsFresh ListTrue ButtonRight PasswordKept LibsHeld
PROPERTIES CancelRestores SavedIsLoaded NothingDropped Undisturbed NothingBegun HonestExit StopStops QuitEnds
