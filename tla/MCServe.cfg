SPECIFICATION Spec
CONSTANTS
  Handler = {c1}
  Stopper = {s1, s2}
INVARIANTS
  TypeOK
  EndReportedOnce
PROPERTY EndReleases
