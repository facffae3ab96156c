------------------------- MODULE MCCacheService -------------------------
(* Parameters of CacheService for TLC.                                    *)
EXTENDS CacheService

CONSTANTS c1, c2

OneCloud == {c1}
TwoClouds == {c1, c2}

\* What clouds.yaml may hold.
AnyConfig == (SUBSET Clouds) \cup {Unreadable}
SecondCloudOptional == {{c1, c2}, {c1}}
SecondCloudFlaky == SecondCloudOptional \cup {Unreadable}

\* Two exporters: each has a family of its own and, with --collect-metric-time,
\* both return the family of collection times.
ComputeAndVolume == <<"compute", "volume">>
TwoServiceFamilies == {"servers", "volumes", "seconds"}
TwoServiceOutcomes ==
  [s \in {"compute", "volume"} |->
     IF s = "compute" THEN {{"servers", "seconds"}, {"seconds"}}
                      ELSE {{"volumes", "seconds"}}]

\* One exporter that always returns its family.
ComputeOnly == <<"compute">>
OneFamily == {"servers"}
OneServiceOutcomes == [s \in {"compute"} |-> {{"servers"}}]
=========================================================================
