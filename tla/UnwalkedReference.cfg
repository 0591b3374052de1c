\* Once validate has returned nothing happens.
CHECK_DEADLOCK FALSE
CONSTANTS
  MaxNested <- MCMaxNested
  MaxExprs <- MCMaxExprs
SPECIFICATION ARSpec
INVARIANT
  EveryReferenceResolves
