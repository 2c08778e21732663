SPECIFICATION EventsSpec
CONSTANTS
  Threads = {t1, t2}
  NoThread = NoThread
  Types = {1, 2}
  MaxHandlers = 3
  QueueSize = 2
  MaxPosts = 3
  MaxDepth = 2
SYMMETRY Symmetry
INVARIANTS
  TypeOK
  DeliveriesSound
  QueueSound
