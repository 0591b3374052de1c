\* from_ledger and find_module return: the run stops.  Returns says that it does.
CHECK_DEADLOCK FALSE
CONSTANTS
  a = a
  b = b
  c = c
  Shape = Shape
  Main = Main
  None = None
  Pkg <- MCPkg
  Module = {Shape, Main}
  Content <- MCContent
SPECIFICATION Spec
INVARIANTS
  TypeOK
  LoadedIsListing
  FindsWhatWasListed
PROPERTIES
  Returns
