------------------------- MODULE ExporterCollect -------------------------
(***************************************************************************)
(* An exporter from the switches the process is started with (main.go) to  *)
(* the end of BaseOpenStackExporter.Collect (exporters/exporter.go): one   *)
(* goroutine per list function, RunCollection in each of them, a counter   *)
(* of failures and the metric up.  A list function sends its samples and   *)
(* succeeds, fails, or panics on a descriptor that is not in the map,      *)
(* which ends the process.  Collect is called once for an exporter: every  *)
(* collection and every request that is not cached makes its own.          *)
(***************************************************************************)
EXTENDS Naturals, FiniteSets, MetricTable

CONSTANTS
  Tables,         \* the exporters' tables of metrics
  MaxDisabled,    \* bound on the number of --disable-metric
  Explored(_, _)  \* bound: the tables and switches whose collection is followed

ASSUME TableAssumption ==
  \A t \in Tables : /\ IsFiniteSet(ListFunctions(t))
                    /\ OwnMetrics \cap MetricNames(t) = {}

VARIABLES
  table,
  switches,
  collectTime,   \* --collect-metric-time
  pc,            \* "flags" while the process has no exporter yet; of Collect
  todo,          \* entries of exporter.Metrics that the loop has not reached
  metricsCount,
  failures,
  run,           \* of the goroutine of each list function
  up,            \* what Collect sent for up
  crashed

started == <<table, switches, collectTime>>
vars == <<started, pc, todo, metricsCount, failures, run, up, crashed>>

Fns == ListFunctions(table)
Map == Metrics(table, switches)

Init ==
  /\ table \in Tables
  /\ switches = [disabled |-> {}, noSlow |-> FALSE, noDeprecated |-> FALSE]
  /\ collectTime \in BOOLEAN
  /\ pc = "flags"
  /\ todo = {}
  /\ metricsCount = 0
  /\ failures = 0
  /\ run = [n \in Fns |-> "none"]
  /\ up = "unsent"
  /\ crashed = FALSE

---------------------------------------------------------------------------
(* The command line, one switch at a time.                                 *)

Flag(newSwitches) ==
  /\ pc = "flags"
  /\ switches' = newSwitches
  /\ UNCHANGED <<table, collectTime, pc, todo, metricsCount, failures, run, up, crashed>>

DisableMetric(n) ==
  /\ n \notin switches.disabled
  /\ Cardinality(switches.disabled) < MaxDisabled
  /\ Flag([switches EXCEPT !.disabled = @ \cup {n}])

DisableSlowMetrics == Flag([switches EXCEPT !.noSlow = TRUE])

DisableDeprecatedMetrics == Flag([switches EXCEPT !.noDeprecated = TRUE])

\* AddMetric for every metric of the table, then Collect.
NewExporter ==
  /\ pc = "flags"
  /\ Explored(table, switches)
  /\ todo' = Collected(table, switches)
  /\ pc' = "loop"
  /\ UNCHANGED <<started, metricsCount, failures, run, up, crashed>>

---------------------------------------------------------------------------
(* Collect                                                                 *)

\* The loop over the map, in any order; entries without a function are skipped.
Start(n) ==
  /\ ~crashed
  /\ pc = "loop"
  /\ n \in todo
  /\ todo' = todo \ {n}
  /\ metricsCount' = metricsCount + 1
  /\ run' = [run EXCEPT ![n] = "list"]
  /\ UNCHANGED <<started, pc, failures, up, crashed>>

\* Mutant of Wait: up is sent when the first goroutine has finished.
WaitForOne ==
  /\ ~crashed
  /\ pc = "loop"
  /\ todo = {}
  /\ Fns = {} \/ \E n \in Fns : run[n] \in {"none", "ok", "counted"}
  /\ pc' = "up"
  /\ UNCHANGED <<started, todo, metricsCount, failures, run, up, crashed>>

\* g.Wait
Wait ==
  /\ ~crashed
  /\ pc = "loop"
  /\ todo = {}
  /\ \A n \in Fns : run[n] \in {"none", "ok", "counted"}
  /\ pc' = "up"
  /\ UNCHANGED <<started, todo, metricsCount, failures, run, up, crashed>>

UpValue == IF metricsCount = 0 \/ failures >= metricsCount THEN "down" ELSE "up"

\* Mutant of SendUp: no special case for an exporter without list functions.
SendUpIfCounted ==
  /\ ~crashed
  /\ pc = "up"
  /\ metricsCount > 0
  /\ up' = UpValue
  /\ pc' = "returned"
  /\ UNCHANGED <<started, todo, metricsCount, failures, run, crashed>>

\* exporter.Metrics["up"].Metric panics too when every metric is disabled.
SendUp ==
  /\ ~crashed
  /\ pc = "up"
  /\ IF "up" \in Map
       THEN /\ up' = UpValue
            /\ pc' = "returned"
            /\ UNCHANGED crashed
       ELSE /\ crashed' = TRUE
            /\ UNCHANGED <<up, pc>>
  /\ UNCHANGED <<started, todo, metricsCount, failures, run>>

---------------------------------------------------------------------------
(* The goroutine of metric n: RunCollection and the count of its failure.  *)

Goroutine(n, from, to) ==
  /\ ~crashed
  /\ run[n] = from
  /\ run' = [run EXCEPT ![n] = to]
  /\ UNCHANGED <<started, pc, todo, metricsCount, up, crashed>>

\* metric.Fn returns nil; with --collect-metric-time one more sample follows.
Listed(n) ==
  /\ Goroutine(n, "list", IF collectTime THEN "time" ELSE "ok")
  /\ UNCHANGED failures

SendSeconds(n) ==
  /\ Goroutine(n, "time", "ok")
  /\ UNCHANGED failures

\* metric.Fn returns an error.
ListFailed(n) ==
  /\ Goroutine(n, "list", "failed")
  /\ UNCHANGED failures

\* Mutants of CountFailure: RunCollection counts the failure too; the counter is
\* read and written in two steps.
CountFailureTwice(n) ==
  /\ Goroutine(n, "failed", "counted")
  /\ failures' = failures + 2

CountFailureRacy(n) ==
  /\ Goroutine(n, "failed", "counted")
  /\ \E read \in 0..failures : failures' = read + 1

\* atomic.AddInt32
CountFailure(n) ==
  /\ Goroutine(n, "failed", "counted")
  /\ failures' = failures + 1

\* metric.Fn looks up a descriptor that is not there.  It only does if the API
\* returned something to make a sample of.
ListPanics(n) ==
  /\ ~crashed
  /\ run[n] = "list"
  /\ Missing(table, switches, n) # {}
  /\ crashed' = TRUE
  /\ UNCHANGED <<started, pc, todo, metricsCount, failures, run, up>>

\* The process has not come to an exporter, Collect has returned, or the process
\* is gone.
Done == (crashed \/ pc \in {"flags", "returned"}) /\ UNCHANGED vars

Collecting ==
  \/ Wait \/ SendUp
  \/ \E n \in Fns : \/ Start(n) \/ Listed(n) \/ SendSeconds(n)
                    \/ ListFailed(n) \/ CountFailure(n) \/ ListPanics(n)

Next ==
  \/ DisableSlowMetrics \/ DisableDeprecatedMetrics
  \/ \E n \in MetricNames(table) : DisableMetric(n)
  \/ NewExporter \/ Collecting \/ Done

Spec == Init /\ [][Next]_vars

---------------------------------------------------------------------------
(* Properties.                                                             *)

TypeOK ==
  /\ table \in Tables
  /\ switches \in [disabled : SUBSET MetricNames(table),
                   noSlow : BOOLEAN, noDeprecated : BOOLEAN]
  /\ collectTime \in BOOLEAN
  /\ pc \in {"flags", "loop", "up", "returned"}
  /\ todo \subseteq Fns
  /\ metricsCount \in 0..Cardinality(Fns)
  /\ failures \in 0..metricsCount
  /\ run \in [Fns -> {"none", "list", "time", "ok", "failed", "counted"}]
  /\ up \in {"unsent", "up", "down"}
  /\ crashed \in BOOLEAN

\* up is 1 exactly if some list function has succeeded, although the goroutines
\* only share a counter (exporter.go:161-176).
UpMeansSome ==
  up # "unsent" => (up = "up" <=> \E n \in Fns : run[n] = "ok")

\* The registry closes the channel once Collect has returned: a goroutine that
\* sends a sample after that would panic (exporter.go:165).
QuietAfterUp ==
  pc \in {"up", "returned"} => \A n \in Fns : run[n] \in {"none", "ok", "counted"}

\* The two group switches are safe in every exporter, and so is disabling a
\* metric that has a list function of its own or that its list function asks
\* MetricIsDisabled about: no list function that is still collected looks up a
\* descriptor AddMetric has left out (exporter.go:179-227 and every List...).
SwitchesSafe ==
  /\ Registered(table, switches) # {}
  /\ switches.disabled \subseteq ListFunctions(table) \cup table.guarded
  => \A n \in Collected(table, switches) : Missing(table, switches, n) = {}

\* A metric that the operator disables is left out, and nothing else happens:
\* "metric has been disabled for exporter, not collecting metrics"
\* (exporter.go:189).
NoPanic == ~crashed
==========================================================================
