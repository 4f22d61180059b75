SPECIFICATION Spec
CONSTANTS
  Arg <- MCArg
  SshServer = TRUE
  t1 = t1
  t2 = t2
  t3 = t3
  Token = {t1, t2, t3}
  Server = t1
  maxItems = 2
  MaxEdits = 1
  Kept <- MCKept
INVARIANT PickedIsOffered
