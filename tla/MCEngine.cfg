SPECIFICATION Spec
CONSTANTS
  Caller = {c1, c2, c3}
  MaxEngines = 2
  MaxSessions = 2
INVARIANTS
  TypeOK
  NoOrphanSession
PROPERTY ShutdownCompletes
