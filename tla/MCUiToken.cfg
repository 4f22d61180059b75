SPECIFICATION Spec
CONSTANTS
  Id = {s1}
  MaxQueue = 3
  MaxRestart = 1
  None = None
INVARIANT TokenShown
