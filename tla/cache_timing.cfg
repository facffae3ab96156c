SPECIFICATION TimingSpec
CONSTANTS
  c1 = c1
  c2 = c2
  Unreadable = Unreadable
  NoCloud = NoCloud
  NoSnapshot = NoSnapshot
  Clouds <- TwoClouds
  CloudArg = {}
  MultiCloud = TRUE
  Configs <- SecondCloudOptional
  ServiceOrder <- ComputeOnly
  Families <- OneFamily
  Outcomes <- OneServiceOutcomes
  TTL = 4
  MaxBusy = 4
INVARIANTS ListedAgeBound
PROPERTIES NoGap
CHECK_DEADLOCK FALSE
