CONSTANTS
  c1 = c1  c2 = c2
  NoCommand = NoCommand
  Commands = {c1, c2}
  Limit = 3
  MaxOutput = 2
  MaxCalls = 3
  Transports = {"modal", "docker", "restricted"}
  MaxDeliveries = 3
  MaxExecs = 2
  MaxSources = 3
  MaxSteps = 4
  SaveSteps = 1
  Wall = 4
  Cleanup = 1
  MaxMishaps = 2
  Trials = 2
  HiddenCases = 2
  Warmup = 1
  Timings = 2
SPECIFICATION ExternalSpec
INVARIANTS
  ExternalTypeOK
  GateWithinLimit
  ScoredIsAccounted
  RemoteChargeIsSound
  PassIsClean
  StandsForOneRun
  AcceptedIsItsPath
  GenerationIsCharged
  QualifiedIsEarned
  AcceptedIsRight
  RightIsAccepted
PROPERTIES
  QualifiedStays
CHECK_DEADLOCK FALSE
