SPECIFICATION QueueSpec
CONSTANTS
  MaxQueued = 5
  MaxPushes = 14
  Notice = Notice
INVARIANTS
  QueueTypeOK
  NewestKept
PROPERTY ImplementsFeed
