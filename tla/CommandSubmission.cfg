\* A caller that is done, refused or out of attempts stops.
CHECK_DEADLOCK FALSE
CONSTANTS
  v = v
  w = w
  Alice = Alice
  Bob = Bob
  task = task
  None = None
  Caller = {v, w}
  Party = {Alice, Bob}
  Name = {task}
  MaxAttempts = 2
  Job <- MCJob
SPECIFICATION Spec
INVARIANTS
  TypeOK
  NamedOnce
  ResultsAreTrue
  ReturnsOwnResult
PROPERTIES
  Returns
