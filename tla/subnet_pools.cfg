SPECIFICATION Spec
CONSTANTS
  p1 = p1
  p2 = p2
  NoPool = NoPool
  Pools = {p1, p2}
  Width = 2
  Ranges <- SomeRanges
  MaxEdits = 5
SYMMETRY PoolSymmetry
INVARIANTS FreeIsExact FreeAndUsedFit AllAccounted
