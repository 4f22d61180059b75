SPECIFICATION Spec
CONSTANTS
  Id = {s1}
  MaxQueue = 2
  MaxRestart = 2
  None = None
INVARIANTS
  TypeOK
  ShowsTheCore
  PollSlowsDown
PROPERTY EndShown
