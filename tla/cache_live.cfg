SPECIFICATION FairSpec
CONSTANTS
  c1 = c1
  c2 = c2
  Unreadable = Unreadable
  NoCloud = NoCloud
  NoSnapshot = NoSnapshot
  Clouds <- TwoClouds
  CloudArg = {}
  MultiCloud = TRUE
  Configs <- SecondCloudFlaky
  ServiceOrder <- ComputeOnly
  Families <- OneFamily
  Outcomes <- OneServiceOutcomes
  TTL = 2
PROPERTIES ListedCloudPublished DueFlushRuns RemovedCloudForgotten NoOrphanedServer
CHECK_DEADLOCK FALSE
