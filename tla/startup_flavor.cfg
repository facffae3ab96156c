SPECIFICATION StartupSpec
CONSTANTS
  Unknown = Unknown
  Blank = Blank
  NoParameter = NoParameter
  SupportedExporters <- ComputeAndVolume
  CatalogTypes <- TypesOfBoth
  Types = {"compute", "block-storage", "volumev3", "dns"}
  MaxIncluded = 3
  MaxExcluded = 2
  Compute = "compute"
  Characters = {"a", "k", "1", "_", "-"}
  Letters = {"a", "k"}
  Digits = {"1"}
  Underscore = "_"
  Mappings <- SomeMappings
  Keys <- OneKey
  MaxLabels = 2
  NoVersion = NoVersion
  Requested = {46, 47, 97}
  Unranged = Unranged
  Documents <- SomeDocuments
  Latest = 87
  ServerNames = {"s"}
  f1 = f1
  f2 = f2
  FlavorIds = {f1, f2}
  small = small
  large = large
  FlavorNames = {small, large}
  Absent = Absent
  MaxEdits = 4
SYMMETRY FlavorSymmetry
INVARIANTS FlavorIdKept
CHECK_DEADLOCK FALSE
