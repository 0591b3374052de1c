\* into_dar returns: it stops.  Returns is what says that it does.
CHECK_DEADLOCK FALSE
CONSTANTS
  a = a
  b = b
  c = c
  x = x
  None = None
  Pkg <- MCPkg
  Request <- MCRequest
SPECIFICATION Spec
INVARIANTS
  TypeOK
  DependenciesOnce
PROPERTIES
  KeepsPromise
  Returns
