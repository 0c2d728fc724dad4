CONSTANTS
  s1 = s1
  s2 = s2
  k1 = k1
  k2 = k2
  final = final
  plain = plain
  Samples <- MCSamples
  Kernels <- MCKernels
  Configs <- MCConfigs
  Finals <- MCFinals
  Repeats = 1
  Nothing = Nothing
  Torn = Torn
  NoConfig = NoConfig
  MaxCommands = 3
  MaxEdits = 1
SPECIFICATION Spec
SYMMETRY Symmetry
INVARIANTS
  TypeOK
  CountedIsCurrent
  MeasuredOnce
PROPERTIES
  NonceIsOneResult
CHECK_DEADLOCK FALSE
