SPECIFICATION ProgressSpec
CONSTANTS
  Conn = {c1}
  Closer = {k1, k2}
  Name = {n1}
  File = {f1}
  None = None
  Worker = {w1, w2}
  Size = 1
  MaxEnd = 2
INVARIANTS
  WithinTotal
  EndedIsDone
PROPERTY CloseEnds
