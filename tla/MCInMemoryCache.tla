------------------------ MODULE MCInMemoryCache ------------------------
(* Parameters of InMemoryCache for TLC.                                 *)
EXTENDS InMemoryCache

CONSTANTS c1, c2, r1, r2, f1, f2, s1, s2, a1, a2, a3, a4
=======================================================================
