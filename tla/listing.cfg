\* Two listings of a tree of three directories, with room for one failure's
\* directories and one listing's, while files are removed and created twice.
CONSTANTS
  Segs = {"a", "b", "d", "e"}
  Files <- MCFiles
  Dirs <- MCDirs
  MaxOpen = 4
  MaxListings = 2
  MaxChurn = 2
  Faults <- AllFaults
SPECIFICATION Spec
INVARIANTS TypeOK CompleteAtEnd FailsForReason OnlyFailuresLeak
PROPERTY ListingEnds
CHECK_DEADLOCK FALSE
