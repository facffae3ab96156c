----------------------- MODULE ExporterCollectProofs -----------------------
(***************************************************************************)
(* Proofs about ExporterCollect, for any tables of metrics and any         *)
(* switches.  The goroutines share nothing but the counter of failures;    *)
(* the proof ties it, and the count of Collect, to sets of goroutines.     *)
(***************************************************************************)
EXTENDS ExporterCollect, FiniteSetTheorems, TLAPS

Started == {n \in Fns : run[n] # "none"}
Counted == {n \in Fns : run[n] = "counted"}

Quiet == \A n \in Fns : run[n] \in {"none", "ok", "counted"}

Types ==
  /\ table \in Tables
  /\ switches \in [disabled : SUBSET MetricNames(table),
                   noSlow : BOOLEAN, noDeprecated : BOOLEAN]
  /\ collectTime \in BOOLEAN
  /\ pc \in {"flags", "loop", "up", "returned"}
  /\ todo \subseteq Fns
  /\ run \in [Fns -> {"none", "list", "time", "ok", "failed", "counted"}]
  /\ up \in {"unsent", "up", "down"}
  /\ crashed \in BOOLEAN

\* The counters are the sizes of two sets of goroutines.
Counters ==
  /\ metricsCount = Cardinality(Started)
  /\ failures = Cardinality(Counted)

UpIsRight ==
  /\ \A n \in todo : run[n] = "none"
  /\ pc # "loop" => Quiet
  /\ pc = "flags" => \A n \in Fns : run[n] = "none"
  /\ pc # "returned" => up = "unsent"
  /\ UpMeansSome

IInv == Types /\ Counters /\ UpIsRight

USE TableAssumption DEF TableAssumption

\* The sizes of the two sets are numbers, and all counted goroutines were started.
LEMMA Sizes ==
  ASSUME Types
  PROVE  /\ IsFiniteSet(Fns) /\ IsFiniteSet(Started) /\ IsFiniteSet(Counted)
         /\ Cardinality(Fns) \in Nat /\ Cardinality(Started) \in Nat
         /\ Cardinality(Counted) \in Nat
         /\ Cardinality(Counted) <= Cardinality(Started)
         /\ Cardinality(Started) <= Cardinality(Fns)
         /\ Cardinality(Counted) = Cardinality(Started) => Counted = Started
<1>1. IsFiniteSet(Fns)
      BY DEF Fns, Types
<1>2. Started \subseteq Fns /\ Counted \subseteq Started
      BY DEF Started, Counted
<1>3. IsFiniteSet(Started) /\ Cardinality(Started) <= Cardinality(Fns)
      BY <1>1, <1>2, FS_Subset
<1>4. /\ IsFiniteSet(Counted)
      /\ Cardinality(Counted) <= Cardinality(Started)
      /\ Cardinality(Counted) = Cardinality(Started) => Counted = Started
      BY <1>2, <1>3, FS_Subset
<1> QED
    BY <1>1, <1>3, <1>4, FS_CardinalityType

\* The value that Collect computes for up from its two counters is right once
\* every goroutine has finished.
LEMMA UpValueRight ==
  ASSUME Types, Counters, Quiet
  PROVE  UpValue = "up" <=> \E n \in Fns : run[n] = "ok"
<1>1. UpValue = "up" <=> Counted # Started
      <2>1. metricsCount = 0 => Counted = Started
            BY Sizes, FS_EmptySet DEF Counters, Started, Counted
      <2>2. Cardinality(Counted) < Cardinality(Started) <=> Counted # Started
            BY Sizes
      <2> QED
          BY Sizes, <2>1, <2>2 DEF Counters, UpValue
<1>2. Counted # Started <=> \E n \in Fns : run[n] = "ok"
      BY DEF Quiet, Types, Started, Counted
<1> QED
    BY <1>1, <1>2

LEMMA InitInv == Init => IInv
<1> SUFFICES ASSUME Init PROVE IInv
    OBVIOUS
<1> USE DEF Init
<1>1. Types
      BY DEF Types, Fns, Collected
<1>2. Counters
      <2>1. Started = {} /\ Counted = {}
            BY DEF Started, Counted
      <2> QED
          BY <2>1, FS_EmptySet DEF Counters
<1>3. UpIsRight
      BY <1>1 DEF UpIsRight, Types, UpMeansSome, Quiet
<1> QED
    BY <1>1, <1>2, <1>3 DEF IInv

LEMMA StepInv == IInv /\ [Next]_vars => IInv'
<1> SUFFICES ASSUME IInv, [Next]_vars PROVE IInv'
    OBVIOUS
<1> USE DEF IInv
<1>1. ASSUME NEW n \in Fns, Start(n) PROVE IInv'
      <2> USE <1>1 DEF Start, started
      <2>1. Types' /\ Fns' = Fns
            BY DEF Types, Fns
      <2>2. /\ run[n] = "none"
            /\ Started' = Started \cup {n} /\ n \notin Started
            /\ Counted' = Counted
            BY <2>1 DEF Types, UpIsRight, Started, Counted
      <2>3. Counters'
            BY Sizes, <2>2, FS_AddElement DEF Counters
      <2>4. UpIsRight'
            BY <2>1 DEF Types, UpIsRight, UpMeansSome
      <2> QED
          BY <2>1, <2>3, <2>4
<1>2. CASE Wait
      <2> USE <1>2 DEF Wait, started
      <2>1. Types' /\ Counters'
            BY DEF Types, Fns, Counters, Started, Counted
      <2>2. UpIsRight'
            BY DEF UpIsRight, UpMeansSome, Quiet, Fns
      <2> QED
          BY <2>1, <2>2
<1>3. CASE SendUp
      <2> USE <1>3 DEF SendUp, started
      <2>1. UpValue \in {"up", "down"}
            BY DEF UpValue
      <2>2. Types' /\ Counters'
            BY <2>1 DEF Types, Fns, Counters, Started, Counted
      <2>3. Quiet
            BY DEF UpIsRight
      <2>4. UpIsRight'
            BY <2>1, <2>3, UpValueRight DEF UpIsRight, UpMeansSome, Quiet, Fns
      <2> QED
          BY <2>2, <2>4
<1>4. ASSUME NEW n \in Fns, Listed(n) \/ SendSeconds(n) \/ ListFailed(n)
      PROVE  IInv'
      <2> USE <1>4 DEF Listed, SendSeconds, ListFailed, Goroutine, started
      <2>1. Types' /\ Fns' = Fns
            BY DEF Types, Fns
      <2>2. Started' = Started /\ Counted' = Counted
            BY <2>1 DEF Types, Started, Counted
      <2>3. Counters'
            BY <2>2 DEF Counters
      <2>4. UpIsRight'
            BY <2>1 DEF Types, UpIsRight, UpMeansSome, Quiet
      <2> QED
          BY <2>1, <2>3, <2>4
<1>5. ASSUME NEW n \in Fns, CountFailure(n) PROVE IInv'
      <2> USE <1>5 DEF CountFailure, Goroutine, started
      <2>1. Types' /\ Fns' = Fns
            BY DEF Types, Fns
      <2>2. /\ Started' = Started
            /\ Counted' = Counted \cup {n} /\ n \notin Counted
            BY <2>1 DEF Types, Started, Counted
      <2>3. Counters'
            BY Sizes, <2>2, FS_AddElement DEF Counters
      <2>4. UpIsRight'
            BY <2>1 DEF Types, UpIsRight, UpMeansSome, Quiet
      <2> QED
          BY <2>1, <2>3, <2>4
<1>6. ASSUME NEW n \in Fns, ListPanics(n) PROVE IInv'
      BY <1>6 DEF ListPanics, started, Types, Fns, Counters, Started, Counted,
                  UpIsRight, UpMeansSome, Quiet
<1>7. CASE UNCHANGED vars
      BY <1>7 DEF vars, started, Types, Counters, Started, Counted, UpIsRight,
                  UpMeansSome, Quiet, Fns
<1>8. ASSUME NEW new, Flag(new),
             new \in [disabled : SUBSET MetricNames(table),
                      noSlow : BOOLEAN, noDeprecated : BOOLEAN]
      PROVE  IInv'
      BY <1>8 DEF Flag, Types, Fns, Counters, Started, Counted, UpIsRight,
                  UpMeansSome, Quiet
<1>9. CASE \/ DisableSlowMetrics \/ DisableDeprecatedMetrics
           \/ \E n \in MetricNames(table) : DisableMetric(n)
      BY <1>8, <1>9 DEF DisableSlowMetrics, DisableDeprecatedMetrics,
                        DisableMetric, Types
<1>10. CASE NewExporter
       BY <1>10 DEF NewExporter, started, Collected, Types, Fns, Counters, Started,
                    Counted, UpIsRight, UpMeansSome, Quiet
<1> QED
    BY <1>1, <1>2, <1>3, <1>4, <1>5, <1>6, <1>7, <1>9, <1>10
    DEF Next, Collecting, Done

LEMMA Inductive == Spec => []IInv
BY InitInv, StepInv, PTL DEF Spec
---------------------------------------------------------------------------

\* The types hold, and the counter of failures never passes the number of
\* goroutines started (exporter.go:150-161).
THEOREM TypeCorrect == Spec => []TypeOK
<1>1. IInv => TypeOK
      BY Sizes DEF IInv, Types, Counters, TypeOK
<1> QED
    BY <1>1, Inductive, PTL

\* up is 1 exactly if some list function of the exporter has succeeded
\* (exporter.go:167-176), for any table and in any order of the goroutines.
THEOREM UpIsSome == Spec => []UpMeansSome
<1>1. IInv => UpMeansSome
      BY DEF IInv, UpIsRight
<1> QED
    BY <1>1, Inductive, PTL

\* No goroutine of the exporter sends once Collect has waited
\* (exporter.go:165).
THEOREM NothingAfterUp == Spec => []QuietAfterUp
<1>1. IInv => QuietAfterUp
      BY DEF IInv, UpIsRight, Quiet, QuietAfterUp
<1> QED
    BY <1>1, Inductive, PTL

---------------------------------------------------------------------------
(* The switches.                                                           *)

\* Only list functions whose metric is registered are started.
OnlyCollected ==
  /\ pc = "flags" => todo = {} /\ ~crashed /\ \A n \in Fns : run[n] = "none"
  /\ todo \subseteq Collected(table, switches)
  /\ \A n \in Fns : run[n] # "none" => n \in Collected(table, switches)

\* The process panics on a descriptor that AddMetric has left out, or for want of up.
Explained ==
  crashed => \/ "up" \notin Map
             \/ \E n \in Collected(table, switches) : Missing(table, switches, n) # {}

LEMMA SwitchesFitSafe ==
  ASSUME SwitchesFit(table), table \in Tables
  PROVE  SwitchesSafe
<1> SUFFICES ASSUME Registered(table, switches) # {},
                    switches.disabled \subseteq ListFunctions(table) \cup table.guarded,
                    NEW n \in Collected(table, switches),
                    NEW m \in LookedUp(table, switches, n)
             PROVE  m \in Metrics(table, switches)
    BY DEF SwitchesSafe, Missing
<1>1. n \in ListFunctions(table) /\ n \in Registered(table, switches)
      BY DEF Collected, Metrics, MetricNames
<1>2. m \in table.emits[n] /\ (m \notin table.guarded \/ m \notin switches.disabled)
      BY DEF LookedUp
<1>3. m \in Offered(table, switches)
      BY <1>1, <1>2 DEF SwitchesFit, Registered, Offered, MetricNames
<1>4. m \notin switches.disabled
      BY <1>1, <1>2 DEF SwitchesFit, Registered
<1> QED
    BY <1>3, <1>4 DEF Registered, Metrics

LEMMA ExplainedInductive == Spec => [](table \in Tables /\ OnlyCollected /\ Explained)
<1> DEFINE I == Types /\ OnlyCollected /\ Explained
<1>1. Init => OnlyCollected /\ Explained
      BY DEF Init, OnlyCollected, Explained
<1>2. ASSUME I, [Next]_vars PROVE (OnlyCollected /\ Explained)'
      <2> USE <1>2
      <2>1. CASE \/ DisableSlowMetrics \/ DisableDeprecatedMetrics
                 \/ \E n \in MetricNames(table) : DisableMetric(n)
            BY <2>1 DEF DisableSlowMetrics, DisableDeprecatedMetrics, DisableMetric, Flag,
               OnlyCollected, Explained, Fns
      <2>2. CASE NewExporter
            BY <2>2 DEF NewExporter, started, OnlyCollected, Explained, Fns
      <2>3. CASE Wait \/ SendUp
            BY <2>3 DEF Wait, SendUp, started, OnlyCollected, Explained, Fns, Map
      <2>4. ASSUME NEW n \in Fns, Start(n) PROVE (OnlyCollected /\ Explained)'
            BY <2>4 DEF Start, started, OnlyCollected, Explained, Fns, Types
      <2>5. ASSUME NEW n \in Fns,
                   Listed(n) \/ SendSeconds(n) \/ ListFailed(n) \/ CountFailure(n)
            PROVE  (OnlyCollected /\ Explained)'
            BY <2>5 DEF Listed, SendSeconds, ListFailed, CountFailure, Goroutine, started,
               OnlyCollected, Explained, Fns, Types
      <2>6. ASSUME NEW n \in Fns, ListPanics(n) PROVE (OnlyCollected /\ Explained)'
            BY <2>6 DEF ListPanics, started, OnlyCollected, Explained, Fns
      <2>7. CASE UNCHANGED vars
            BY <2>7 DEF vars, started, OnlyCollected, Explained, Fns, Map
      <2> QED
          BY <2>1, <2>2, <2>3, <2>4, <2>5, <2>6, <2>7 DEF Next, Collecting, Done
<1>3. IInv => Types /\ table \in Tables
      BY DEF IInv, Types
<1> QED
    BY <1>1, <1>2, <1>3, Inductive, PTL DEF Spec

\* The switches are safe in every table that fits them, however many metrics are
\* disabled (exporter.go:179-227 and every List...).
THEOREM SafeToSwitch ==
  ASSUME \A t \in Tables : SwitchesFit(t)
  PROVE  Spec => []SwitchesSafe
<1>1. table \in Tables => SwitchesSafe
      BY SwitchesFitSafe
<1> QED
    BY <1>1, ExplainedInductive, PTL

\* Nothing but the switches makes Collect panic: either they leave out every metric, or a
\* metric is disabled that another one's list function emits without a guard
\* (exporter.go:167-227 and every List...).
THEOREM PanicsExplained ==
  ASSUME \A t \in Tables : SwitchesFit(t)
  PROVE  Spec => [](crashed =>
                      \/ Registered(table, switches) = {}
                      \/ ~(switches.disabled \subseteq ListFunctions(table) \cup table.guarded))
<1>1. table \in Tables /\ Explained =>
        (crashed => \/ Registered(table, switches) = {}
                    \/ ~(switches.disabled \subseteq ListFunctions(table) \cup table.guarded))
      BY SwitchesFitSafe DEF Explained, SwitchesSafe, Map, Metrics, OwnMetrics
<1> QED
    BY <1>1, ExplainedInductive, PTL
===========================================================================
