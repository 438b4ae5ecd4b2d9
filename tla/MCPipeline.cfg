SPECIFICATION Spec
CONSTANTS
  e1 = e1
  e2 = e2
  e3 = e3
  None = None
  Events <- MCEvents
  QueueSize = 1
  FeedSize = 1
  MaxPulled = 2
  max_events_per_sec = 3
  WindowTicks = 1
INVARIANTS
  TypeOK
  WindowBound
  BudgetUsed
  AcceptedInOrder
PROPERTY
  BlockedPostsEnter
