SPECIFICATION Spec
CONSTANTS
  Conn = {c1, c2}
  Closer = {k1}
  Name = {n1, n2}
  File = {f1, f2}
  None = None
SYMMETRY Symmetry
INVARIANTS
  TypeOK
  RegistryExact
  ClosedServesNobody
  DropBoxTellsNothing
PROPERTIES
  ReadOnlyKeeps
  DropBoxKeepsNames
