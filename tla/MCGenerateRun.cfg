CONSTANTS
  s1 = s1
  s2 = s2
  k1 = k1
  k2 = k2
  capped = capped
  free = free
  Samples <- MCSamples
  Kernels <- MCKernels
  Configs <- MCConfigs
  Capped <- MCCapped
  Workers = 2
  Nothing = Nothing
  Torn = Torn
  Edited = Edited
  NoConfig = NoConfig
  MaxAttempts = 3
  MaxMishaps = 1
SPECIFICATION Spec
SYMMETRY Symmetry
INVARIANTS
  TypeOK
  CompletedDescribesFiles
  TotalsCoverLaunches
  ScorableIsOnlyAttempt
PROPERTIES
  CappedRunsOnce
CHECK_DEADLOCK FALSE
