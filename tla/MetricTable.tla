--------------------------- MODULE MetricTable ---------------------------
(***************************************************************************)
(* What AddMetric (exporters/exporter.go) makes of an exporter's table of  *)
(* metrics, and which descriptors a list function then looks up.           *)
(*                                                                         *)
(* A table is a record:                                                    *)
(*   emits       for each metric with a list function, the metrics whose   *)
(*               descriptors that function looks up in exporter.Metrics    *)
(*   guarded     the metrics it only looks up if they are not disabled     *)
(*   slow        the metrics marked Slow                                   *)
(*   deprecated  the metrics with a DeprecatedVersion                      *)
(* The switches are a record [disabled, noSlow, noDeprecated] for          *)
(* --disable-metric, --disable-slow-metrics, --disable-deprecated-metrics. *)
(***************************************************************************)

OwnMetrics == {"up", "openstack_metric_collect_seconds"}

ListFunctions(t) == DOMAIN t.emits

MetricNames(t) == ListFunctions(t) \cup UNION {t.emits[n] : n \in ListFunctions(t)}

\* isSlowMetric and isDeprecatedMetric: the metrics given to AddMetric.
Offered(t, o) ==
  {n \in MetricNames(t) :
     ~(o.noSlow /\ n \in t.slow) /\ ~(o.noDeprecated /\ n \in t.deprecated)}

\* AddMetric: a disabled metric is left out; the first one that is not makes the
\* map, with the two metrics every exporter has.
Registered(t, o) == Offered(t, o) \ o.disabled

Metrics(t, o) ==
  IF Registered(t, o) = {} THEN {} ELSE Registered(t, o) \cup OwnMetrics

\* The list functions that Collect starts.
Collected(t, o) == ListFunctions(t) \cap Metrics(t, o)

\* Mutant of LookedUp: nobody asks MetricIsDisabled.
LookedUpAlways(t, o, n) == t.emits[n]

\* The descriptors that the list function of n looks up.
LookedUp(t, o, n) == t.emits[n] \ (t.guarded \cap o.disabled)

\* Those that are not there: the lookup gives nil and .Metric panics.
Missing(t, o, n) == LookedUp(t, o, n) \ Metrics(t, o)

\* What a table needs for its switches to be safe: a list function is left out
\* whenever a switch of a group leaves out what it looks up, and it looks up no
\* metric with a list function of its own except under a guard.
SwitchesFit(t) ==
  \A n \in ListFunctions(t) : \A m \in t.emits[n] :
    /\ m \in t.slow => n \in t.slow
    /\ m \in t.deprecated => n \in t.deprecated
    /\ m \in ListFunctions(t) => m = n \/ m \in t.guarded
==========================================================================
