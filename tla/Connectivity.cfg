SPECIFICATION ConnectivitySpec
CONSTANTS
  Callers = {c1, c2}
  NoCaller = NoCaller
  Paths = {x, y}
  Sources = {"bt", "web"}
  MessageKinds = {"ota"}
  AutoAdvertise = TRUE
  MaxTotal = 3
  MaxHandlers = 1
  MaxEvents = 6
  MaxLinks = 3
  MaxFile = 4
  MaxTransferStarts = 3
  MaxChunks = 2
  MaxCalls = 3
  Slots = {0}
  MaxConnects = 3
  MaxRoutes = 2
  MaxStarts = 2
  MaxSessions = 1
  QueueSize = 1
  MaxAttempts = 2
  MaxRetries = 1
  LogSize = 8
  MaxLine = 2
  MaxBody = 2
  MaxRequests = 2
  MaxMessages = 3
SYMMETRY Symmetry
INVARIANTS
  ConnectivityTyped
  HidSound
  BluetoothSound
  ClientsSound
  ServersSound
  TransferIsOwn
