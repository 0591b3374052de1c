SPECIFICATION Spec
CONSTANTS
  None = None
  NoFlaw = NoFlaw
  Contract <- MCContract
  TemplateOf <- MCTemplateOf
  InterfacesOf <- MCInterfacesOf
  StakeholdersOf <- MCStakeholdersOf
  AuthorizedParty = "bob"
  Synchronizer = {s1, s2}
  Origin = {s1}
  Format <- MCFormat
  FlawsSent <- MCFlawsSent
  MaxUpdates = 3
  MaxCounter = 1
  MaxBreaks = 1
  PageSize = 1
INVARIANTS
  ViewIsLedgers
  StopsForForbidden
  EntriesOnce
PROPERTIES
  ImplementsView
  CatchesUp
CHECK_DEADLOCK FALSE
