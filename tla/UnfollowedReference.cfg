\* into_dar returns: it stops.
CHECK_DEADLOCK FALSE
CONSTANTS
  a = a
  b = b
  c = c
  x = x
  None = None
  Pkg <- MCPkg
  Request <- MCValueRequest
SPECIFICATION Spec
INVARIANT
  EveryReferenceKept
