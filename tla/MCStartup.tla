----------------------------- MODULE MCStartup -----------------------------
(* Parameters of Startup for TLC.                                           *)
EXTENDS Startup, TLC

CONSTANTS f1, f2, small, large

FlavorSymmetry == Permutations(FlavorIds) \cup Permutations(FlavorNames)

\* An exporter with one catalog type and one with several.
ComputeAndVolume == <<"compute", "volume">>
TypesOfBoth == [s \in {"compute", "volume"} |->
                  IF s = "compute" THEN {"compute"} ELSE {"block-storage", "volumev3"}]

\* Two labels that are taken, one of them for either of two keys, and one of each
\* kind that is not: nothing, "1a", "__a" and "-a".
SomeMappings ==
  {[label |-> <<"a">>, key |-> <<"a">>], [label |-> <<"a">>, key |-> <<"k">>],
   [label |-> <<"_", "a">>, key |-> <<"k">>]}
  \cup {[label |-> l, key |-> l] :
          l \in {<<>>, <<"1", "a">>, <<"_", "_", "a">>, <<"-", "a">>}}

OneKey == {<<"k">>}

\* The version documents of nova: v2.0 has no range, v2.1 has none either, or one that
\* ends before the last microversion with ids, before Latest, or after it.
SomeDocuments ==
  {<<>>, <<Unranged>>, <<[min |-> 1, max |-> 45], Unranged>>,
   <<Unranged, [min |-> 1, max |-> 60]>>, <<Unranged, [min |-> 1, max |-> 96]>>}
============================================================================
