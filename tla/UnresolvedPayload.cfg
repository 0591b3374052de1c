\* One package is converted and the converter returns: it may stop.
CHECK_DEADLOCK FALSE
CONSTANTS
  Segment <- MCSegment
  Package <- MCPackage
SPECIFICATION Spec
INVARIANT
  ReferencesResolve
