SPECIFICATION ExportersSpec
CONSTANTS
  z1 = z1
  z2 = z2
  z3 = z3
  NoZone = NoZone
  Zones = {z1, z2, z3}
  RecordCounts = {0, 1}
  Limit = 2
  Tables <- EveryTable
  DesignateTable <- Designate
  MaxDisabled = 2
  Explored <- SmallOrCinder
INVARIANTS ExportersTypeOK UpMeansSome QuietAfterUp SwitchesSafe CompleteOnSuccess AllOrNothing ErrorIsCause DesignateUp
PROPERTIES UpIsSent FanoutReturns
