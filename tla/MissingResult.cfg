CHECK_DEADLOCK FALSE
CONSTANTS
  v = v
  w = w
  Alice = Alice
  Bob = Bob
  task = task
  None = None
  Caller = {v, w}
  Party = {Alice, Bob}
  Name = {task}
  MaxAttempts = 2
  Job <- MCJob
SPECIFICATION Spec
INVARIANT
  UnreadableOnlyIfMalformed
