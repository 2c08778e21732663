SPECIFICATION RegistrySpec
CONSTANTS
  Names = {a, b}
  NoName = NoName
  Threads = {t1}
  WorkQueue = wq
  MaxInstalled = 2
  MaxRunning = 1
  MaxContainers = 1
  RestartConfigs <- NoRestart
  Preloads = {FALSE}
  MaxFaults = 2
  MaxBoots = 1
SYMMETRY Symmetry
INVARIANTS
  TypeOK
  RegistrySound
  BinaryPresent
  BootRecovers
  ErrorHasRetryLeft
