SPECIFICATION Spec
CONSTANTS
  Clients = {c1, c2}
  NoClient = NoClient
  FlashSize = 6
  BufferSize = 4
  WriteAlign = 2
  QueueSize = 1
  Sizes = {0, 4}
  ChunkLengths = {3}
  MaxMishaps = 1
INVARIANTS
  TypeOK
  SlotSound
  CompleteIsBootable
  AckedReceived
PROPERTIES
  KeepsPromise
  EveryCallReturns
