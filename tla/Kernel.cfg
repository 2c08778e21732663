SPECIFICATION KernelSpec
CONSTANTS
  Callers = {c1, c2}
  NoCaller = NoCaller
  MaxProcesses = 2
  ExitCodes = {9}
  MaxPids = 2
  MaxRefusals = 1
  MaxLost = 1
  Services = {"a", "b"}
  NoService = "none"
  Depends <- NeedsB
  Priority <- AfterB
  LastPriority = 1
  MaxServices = 2
  MaxTimers = 2
  MaxShots = 2
  Blocks = {1, 2, 3}
  PsramBlocks = {11}
  MaxPools = 1
  PoolBlocks = 1
  BusThreads = {"main", "app"}
  Main = "main"
  Topics = {"x"}
  MaxSubscribers = 2
  QueueSize = 1
  MaxSubs = 3
  MaxMessages = 2
  Names = {"x", "y", "long"}
  Cut <- CutToX
  MaxRegions = 2
  PoolSize = 3
  MaxGen = 2
  MaxTasks = 4
  MaxLive = 2
  Priorities = {1, 2}
  Apps = {1, 2}
  MaxApps = 2
  Quotas = {2, 3}
  Amounts = {1, 7}
  Width = 8
  MaxHeld = 8
SYMMETRY Symmetry
INVARIANTS
  KernelTyped
  SlotsSound
  ExitIsSignalled
  NoThreadBehind
  ServicesSound
  TimersSound
  MemorySound
  IpcSound
  TasksSound
