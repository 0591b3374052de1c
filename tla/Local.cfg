\* Every component but the map comes to an end.
CHECK_DEADLOCK FALSE
CONSTANTS
  Segment <- MCSegment
  Package <- MCPackage
  MaxNested <- MCMaxNested
  MaxExprs <- MCMaxExprs
  PathSegment = {"P", "Q", "A", "B", "S", "T"}
  MaxRuns = 2
CONSTANTS
  Archive <- MCArchive
  Filter <- MCFilter
  Key <- MCKey
  Val <- MCVal
  MaxPuts = 3
  Compare <- ValueCmp
  Equal <- SameValue
  Encode <- ToMessage
  Decode <- FromMessage
  Failed <- DecodeFailed
  Spoiled <- MCSpoiled
  Exact <- MCExact
SPECIFICATION LocalSpec
INVARIANTS
  TypeOK
  TreeShaped
  DataIsLastDeclared
  SyntheticHoldsPayloadOnly
  DisjointResolves
  ARTypeOK
  RefusedExactlyForFlaws
  SeenIsWritten
  ValidateIsTruthful
  CrateIsThisRun
  CombinedIsSelected
  MapTypeOK
  ValuesAreLawful
  KeysAscend
  LastPutIsFound
  AllOrNothing
  RoundTripsButTimestamps
