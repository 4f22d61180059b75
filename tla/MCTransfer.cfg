SPECIFICATION Spec
CONSTANTS
  Handler = {}
  Stopper = {s1, s2}
  Paths = 2
INVARIANTS
  TypeOK
  NoLeak
  DoneMeansMoved
PROPERTY StopEndsTransfer
