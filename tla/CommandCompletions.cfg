SPECIFICATION Spec
CONSTANTS
  None = None
  NoFlaw = NoFlaw
  Command <- MCCommand
  Kind <- MCKind
  Acting <- MCActing
  FlawsSent <- MCFlawsSent
  MaxAttempts <- MCMaxAttempts
  MaxForeign = 1
  MaxBreaks = 1
INVARIANTS
  VerdictsAreTrue
  EachCountedOnce
PROPERTIES
  Decided
CHECK_DEADLOCK FALSE
