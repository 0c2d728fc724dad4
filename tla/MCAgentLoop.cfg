CONSTANTS
  OptimizationRounds = 2
  Runtimes <- MCRuntimes
  Prompts <- MCPrompts
  Walls <- MCWalls
  MaxOutput = 2
  TotalLimit = 5
  OutputLimit = 3
  DeviceLimit = 5
  GpuLimit = 4
  Timeout = 2
  CleanupSeconds = 1
  Overrun = 1
SPECIFICATION Spec
INVARIANTS
  TypeOK
  WithinLimit
  NothingLeftPending
  AccountedIsScorable
  DeliversBest
PROPERTIES
  StopsWhenUnaccounted
CHECK_DEADLOCK FALSE
