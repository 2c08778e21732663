SPECIFICATION Spec
CONSTANTS
  Threads = {t1, t2}
  NoThread = NoThread
  Types = {1, 2}
  MaxHandlers = 2
  QueueSize = 2
  MaxPosts = 3
  MaxDepth = 2
INVARIANT QueueAlwaysHoldsPending
