SPECIFICATION Spec
CONSTANTS
  Handler = {c1}
  Stopper = {s1, s2}
  MaxDial = 2
INVARIANTS
  TypeOK
  ClosedIsFinal
  NoLeak
  ClosedOnce
  DialsOnlyWhenReady
PROPERTIES
  ImplementsLifecycle
  ConnectionsEnd
  NoDeafForward
