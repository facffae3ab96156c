-------------------------- MODULE MCSubnetPools --------------------------
(* Parameters of SubnetPools for TLC.                                      *)
EXTENDS SubnetPools, TLC

CONSTANTS p1, p2

\* Any length, a single one, and all but the shortest.
SomeRanges == {<<0, Width>>, <<1, 1>>, <<1, Width>>}

PoolSymmetry == Permutations(Pools)
=========================================================================
