\* After the last run nothing happens.
CHECK_DEADLOCK FALSE
CONSTANTS
  PathSegment = {"P", "Q", "A", "B", "S", "T"}
  MaxRuns = 2
CONSTANTS
  Archive <- MCArchive
  Filter <- MCFilter
SPECIFICATION GenSpec
INVARIANT
  OnlyMatchedIsEmitted
