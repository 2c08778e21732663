SPECIFICATION PlatformSpec
CONSTANTS
  Callers = {c1, c2}
  NoCaller = NoCaller
  RuntimeFaults = 2
  RamPaths = {"r"}
  DiskPaths = {"d"}
  Persistent = TRUE
  RamFiles = 1
  RamFileSize = 3
  CardNames <- TwoCardNames
  Jsons <- NoJson
  CardBinaries <- TwoCardBinaries
  CardNameMax = 3
  MaxSize = 2
  StorageNames = {"x", "y"}
  Refused = {"/x"}
  Slots = {0, 1}
  Caps = {1}
  RuntimeNames = {"a"}
  Unnamed = "none"
  Binaries <- TwoBinaries
  Containers = {0, 1}
  ContainerNames <- ThreeContainers
  PowerNameMax = 1
  Policies = {0, 3}
  Modes = {0, 4}
  MaxPolicies = 2
  MaxWidgets = 2
  MaxScreens = 2
  Spots = {1}
  Blocks = {1, 2}
  NoBlock = 0
  Pins = {1, 2}
  Speeds = {1, 2}
  DriverNames = {"x", "y", "z"}
  Types = {1, 2}
  MaxDrivers = 2
  Datas <- TwoFiles
  MaxList = 2
  MaxFileFaults = 2
  MaxFaults = 1
  MaxDisk = 3
  MaxChanges = 1
  MaxCalls = 3
  MaxWrites = 3
  MaxLoads = 2
  MaxPolls = 1
  MaxInstalls = 2
  MaxSets = 2
SYMMETRY Symmetry
INVARIANTS
  PlatformTyped
  StoreSound
  
  AppsSound
  DevicesSound
