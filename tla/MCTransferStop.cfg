SPECIFICATION Spec
CONSTANTS
  Handler = {}
  Stopper = {s1, s2}
  Paths = 2
PROPERTY EndReleases
