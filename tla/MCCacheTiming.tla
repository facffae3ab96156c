------------------------- MODULE MCCacheTiming -------------------------
(* Parameters of CacheTiming for TLC.                                    *)
EXTENDS CacheTiming, MCCacheService
=========================================================================
