CONSTANTS
  Key <- MCInstant
  Val <- MCVal
  MaxPuts = 2
  Compare <- ValueCmp
  Equal <- SameValue
  Encode <- ToMessage
  Decode <- FromMessage
  Failed <- DecodeFailed
  Spoiled <- MCSpoiled
  Exact <- MCExact
SPECIFICATION MapSpec
INVARIANT RoundTrips
