SPECIFICATION Spec
CONSTANTS
  c1 = c1
  c2 = c2
  Unreadable = Unreadable
  NoCloud = NoCloud
  NoSnapshot = NoSnapshot
  Clouds <- OneCloud
  CloudArg = {}
  MultiCloud = TRUE
  Configs <- AnyConfig
  ServiceOrder <- ComputeAndVolume
  Families <- TwoServiceFamilies
  Outcomes <- TwoServiceOutcomes
  TTL = 2
INVARIANTS TypeOK NoMix NothingLost StaleBound
PROPERTIES ImplementsStore
CHECK_DEADLOCK FALSE
