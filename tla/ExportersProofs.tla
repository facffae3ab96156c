--------------------------- MODULE ExportersProofs ---------------------------
(***************************************************************************)
(* ZoneFanout, for any set of zones, any numbers of recordsets and any     *)
(* limit; then Exporters, which implements its two parts, so that what is  *)
(* proved of each holds of the whole, and what designate's up says of its  *)
(* zones.                                                                  *)
(***************************************************************************)
EXTENDS Exporters, ExporterCollectProofs

---------------------------------------------------------------------------
(* The fan-out.                                                            *)

\* What a goroutine has sent follows from where it is.
SentByPlace ==
  \A z \in Zones :
    /\ zpc[z] \in {"none", "list", "failed", "gone"} => sent[z] = 0
    /\ zpc[z] = "send" => sent[z] < Samples(z)
    /\ zpc[z] = "done" => sent[z] = Samples(z)

\* A zone is started once, and none before the zones are listed.
StartedOnce ==
  /\ \A z \in zonesLeft : zpc[z] = "none"
  /\ listing \in {"idle", "zones"} => \A z \in Zones : zpc[z] = "none"

\* An error, a cancelled context and a goroutine that returned one go together.
ErrorTraced ==
  /\ cancelled <=> err # NoZone
  /\ err # NoZone => err \in causes
  /\ \A z \in Zones : zpc[z] = "failed" => z \in causes \/ cancelled
  /\ \A z \in Zones : zpc[z] = "gone" => cancelled

ReturnedRight ==
  /\ Returned => Active = {}
  /\ listing = "listed" => err = NoZone

FanoutIInv == FanoutTypes /\ SentByPlace /\ StartedOnce /\ ErrorTraced /\ ReturnedRight

USE FanoutAssumption DEF FanoutAssumption

LEMMA FanoutInitInv == FanoutInit => FanoutIInv
<1> SUFFICES ASSUME FanoutInit PROVE FanoutIInv
    OBVIOUS
<1> USE DEF FanoutInit
<1>1. FanoutTypes
      BY DEF FanoutTypes
<1>2. SentByPlace /\ StartedOnce
      BY DEF SentByPlace, StartedOnce
<1>3. ErrorTraced
      BY DEF ErrorTraced
<1>4. ReturnedRight
      BY DEF ReturnedRight, Returned
<1> QED
    BY <1>1, <1>2, <1>3, <1>4 DEF FanoutIInv

LEMMA FanoutStepInv == FanoutIInv /\ [FanoutNext]_fanoutVars => FanoutIInv'
<1> SUFFICES ASSUME FanoutIInv, [FanoutNext]_fanoutVars PROVE FanoutIInv'
    OBVIOUS
<1> USE DEF FanoutIInv, FanoutTypes, SentByPlace, StartedOnce, ErrorTraced, ReturnedRight,
            Returned, Active, Samples
<1>1. ASSUME NEW zs \in SUBSET Zones, ListZones(zs) PROVE FanoutIInv'
      BY <1>1 DEF ListZones
<1>2. CASE ListZonesFails
      BY <1>2 DEF ListZonesFails
<1>3. CASE Return
      BY <1>3 DEF Return
<1>4. ASSUME NEW z \in Zones, Go(z) PROVE FanoutIInv'
      BY <1>4 DEF Go
<1>5. ASSUME NEW z \in Zones, NEW n \in RecordCounts, ListRecordsets(z, n)
      PROVE  FanoutIInv'
      BY <1>5 DEF ListRecordsets
<1>6. ASSUME NEW z \in Zones, ListRecordsetsFails(z) PROVE FanoutIInv'
      BY <1>6 DEF ListRecordsetsFails
<1>7. ASSUME NEW z \in Zones, RequestCancelled(z) PROVE FanoutIInv'
      BY <1>7 DEF RequestCancelled
<1>8. ASSUME NEW z \in Zones, Send(z) PROVE FanoutIInv'
      BY <1>8 DEF Send
<1>9. ASSUME NEW z \in Zones, Report(z) PROVE FanoutIInv'
      BY <1>9 DEF Report
<1>10. CASE Call
       BY <1>10 DEF Call
<1>11. CASE UNCHANGED fanoutVars
       BY <1>11 DEF fanoutVars
<1> QED
    BY <1>1, <1>2, <1>3, <1>4, <1>5, <1>6, <1>7, <1>8, <1>9, <1>10, <1>11
    DEF FanoutNext, FanoutStep, Zone

LEMMA FanoutInductive == FanoutSpec => []FanoutIInv
BY FanoutInitInv, FanoutStepInv, PTL DEF FanoutSpec
---------------------------------------------------------------------------

\* The limit is kept: only Go adds a goroutine, below the limit.
LEMMA StepWithinLimit == FanoutIInv /\ WithinLimit /\ [FanoutNext]_fanoutVars => WithinLimit'
<1> SUFFICES ASSUME FanoutIInv, WithinLimit, [FanoutNext]_fanoutVars, Limit > 0
             PROVE  Cardinality(Active') <= Limit
    BY DEF WithinLimit
<1> USE DEF FanoutIInv, FanoutTypes
<1>1. IsFiniteSet(Active) /\ Cardinality(Active) \in Nat
      BY FS_Subset, FS_CardinalityType DEF Active
<1>2. Cardinality(Active) <= Limit
      BY DEF WithinLimit
<1>3. CASE Active' \subseteq Active
      <2>1. Cardinality(Active') <= Cardinality(Active)
            BY <1>1, <1>3, FS_Subset
      <2>2. Cardinality(Active') \in Nat
            BY <1>1, <1>3, FS_Subset, FS_CardinalityType
      <2> QED
          BY <1>1, <1>2, <2>1, <2>2
<1>4. ASSUME NEW z \in Zones, Go(z) PROVE Cardinality(Active') <= Limit
      <2>1. Active' = Active \cup {z}
            BY <1>4 DEF Go, Active
      <2>2. Cardinality(Active') \in {Cardinality(Active), Cardinality(Active) + 1}
            BY <1>1, <2>1, FS_AddElement
      <2>3. Cardinality(Active) < Limit
            BY <1>4 DEF Go
      <2> QED
          BY <1>1, <2>2, <2>3
<1>5. ASSUME NEW z \in Zones, Zone(z) PROVE Active' \subseteq Active
      BY <1>5 DEF Zone, ListRecordsets, ListRecordsetsFails, RequestCancelled,
                  Send, Report, Active
<1>6. CASE (\E zs \in SUBSET Zones : ListZones(zs)) \/ ListZonesFails \/ Return
           \/ Call \/ UNCHANGED fanoutVars
      BY <1>3, <1>6 DEF Call, ListZones, ListZonesFails, Return, fanoutVars, Active
<1> QED
    BY <1>3, <1>4, <1>5, <1>6 DEF FanoutNext, FanoutStep

\* The types hold and no more requests than --dns-concurrent-count are under way
\* (designate.go:97).
THEOREM FanoutTypeCorrect == FanoutSpec => []FanoutTypeOK
<1>1. FanoutInit => WithinLimit
      <2> SUFFICES ASSUME FanoutInit PROVE WithinLimit
          OBVIOUS
      <2>1. Active = {}
            BY DEF FanoutInit, Active
      <2> QED
          BY <2>1, FS_EmptySet DEF WithinLimit
<1>2. FanoutIInv => FanoutTypes
      BY DEF FanoutIInv
<1> QED
    BY <1>1, <1>2, FanoutInductive, StepWithinLimit, PTL DEF FanoutSpec, FanoutTypeOK

\* When ListZonesAndRecordsets succeeds every zone that it started is complete
\* (designate.go:98-127).
THEOREM SuccessIsComplete == FanoutSpec => []CompleteOnSuccess
<1>1. FanoutIInv => CompleteOnSuccess
      BY DEF FanoutIInv, FanoutTypes, SentByPlace, ErrorTraced, ReturnedRight, Returned,
             Active, CompleteOnSuccess
<1> QED
    BY <1>1, FanoutInductive, PTL

\* No zone is reported in part, whatever fails (designate.go:112-127).
THEOREM NeverInPart == FanoutSpec => []AllOrNothing
<1>1. FanoutIInv => AllOrNothing
      BY DEF FanoutIInv, FanoutTypes, SentByPlace, ReturnedRight, Returned, Active,
             AllOrNothing
<1> QED
    BY <1>1, FanoutInductive, PTL

\* The error returned is the failure of a request, never the cancellation that
\* followed from one (designate.go:129-131).
THEOREM FirstErrorIsCause == FanoutSpec => []ErrorIsCause
<1>1. FanoutIInv => ErrorIsCause
      BY DEF FanoutIInv, ErrorTraced, ErrorIsCause
<1> QED
    BY <1>1, FanoutInductive, PTL

---------------------------------------------------------------------------
(* Exporters.                                                              *)

\* What RunCollection has seen of ListZonesAndRecordsets.
Linked ==
  /\ ~InDesignate => listing = "idle"
  /\ InDesignate =>
       /\ run["zones"] = "none" <=> listing = "idle"
       /\ run["zones"] \in {"time", "ok"} => listing = "listed"
       /\ run["zones"] \in {"failed", "counted"} => listing = "failed"

USE DesignateAssumption DEF DesignateAssumption

\* A step of the whole is a step of each part, or leaves it as it is.
LEMMA StepOfParts ==
  ASSUME [ExportersNext]_allVars
  PROVE  [Next]_vars /\ [FanoutNext]_fanoutVars
<1>1. CASE CollectStep
      BY <1>1 DEF CollectStep, Next, Collecting
<1>2. InDesignate => "zones" \in Fns
      BY DEF InDesignate, Fns
<1>3. CASE StartZones
      BY <1>2, <1>3 DEF StartZones, Next, Collecting, FanoutNext
<1>4. CASE ZonesListed \/ ZonesFailed \/ \E z \in Zones : ZonePanics(z)
      BY <1>2, <1>4 DEF ZonesListed, ZonesFailed, ZonePanics, Next, Collecting
<1>5. CASE ZonesStep
      BY <1>5 DEF ZonesStep, FanoutNext
<1>6. CASE UNCHANGED allVars
      BY <1>6 DEF allVars
<1> QED
    BY <1>1, <1>3, <1>4, <1>5, <1>6 DEF ExportersNext

\* Exporters implements ExporterCollect and ZoneFanout (exporter.go:134-177 with
\* designate.go:81-134).
THEOREM ImplementsParts == ExportersSpec => Spec /\ FanoutSpec
<1>1. ExportersInit => Init /\ FanoutInit
      BY DEF ExportersInit
<1> QED
    BY <1>1, StepOfParts, PTL DEF ExportersSpec, Spec, FanoutSpec

\* The types, the counter of failures and the limit on concurrent requests hold of the
\* whole (exporter.go:159-161, designate.go:97-101).
THEOREM ExportersTypeCorrect == ExportersSpec => []ExportersTypeOK
    BY ImplementsParts, TypeCorrect, FanoutTypeCorrect, PTL DEF ExportersTypeOK

\* What is proved of the parts holds of the whole: up, the silence after it, and the
\* reports of the zones (exporter.go:153-176, designate.go:97-131).
THEOREM PartsHold ==
  ExportersSpec => [](UpMeansSome /\ QuietAfterUp /\ CompleteOnSuccess /\ AllOrNothing /\ ErrorIsCause)
    BY ImplementsParts, UpIsSome, NothingAfterUp, SuccessIsComplete, NeverInPart,
       FirstErrorIsCause, PTL

\* The switches are safe in the whole, with tables that fit them (exporter.go:179-227).
THEOREM ExportersSafeToSwitch ==
  ASSUME \A t \in Tables : SwitchesFit(t)
  PROVE  ExportersSpec => []SwitchesSafe
    BY ImplementsParts, SafeToSwitch, PTL

---------------------------------------------------------------------------
LEMMA LinkedInit == ExportersInit => Linked
<1> SUFFICES ASSUME ExportersInit PROVE Linked
    OBVIOUS
<1>1. InDesignate => "zones" \in Fns
      BY DEF InDesignate, Fns
<1> QED
    BY <1>1 DEF ExportersInit, Init, FanoutInit, Linked

LEMMA LinkedStep == IInv /\ FanoutIInv /\ Linked /\ [ExportersNext]_allVars => Linked'
<1> SUFFICES ASSUME IInv, FanoutIInv, Linked, [ExportersNext]_allVars PROVE Linked'
    OBVIOUS
<1> USE DEF Linked, InDesignate
<1>1. table' = table /\ Fns' = Fns
      <2>1. [Next]_vars
            BY StepOfParts
      <2> QED
          BY <2>1 DEF Next, Collecting, Flag, DisableMetric, DisableSlowMetrics,
             DisableDeprecatedMetrics, NewExporter, Wait, SendUp, Done, Start, Listed,
             SendSeconds, ListFailed, CountFailure, ListPanics, Goroutine, started,
             vars, Fns
<1>2. CASE ~InDesignate
      <2>1. listing' = listing
            BY <1>2 DEF ExportersNext, CollectStep, StartZones, ZonesListed,
               ZonesFailed, ZonesStep, ZonePanics, allVars, fanoutVars
      <2> QED
          BY <1>1, <1>2, <2>1
<1>3. CASE InDesignate
      <2> USE <1>3
      <2>1. Fns = {"zones"} /\ run \in [Fns -> {"none", "list", "time", "ok", "failed", "counted"}]
            BY DEF Fns, IInv, Types
      <2>2. CASE CollectStep
            <3>1. listing' = listing
                  BY <2>2 DEF CollectStep, fanoutVars
            <3>2. \/ run' = run
                  \/ /\ run["zones"] \in {"time", "ok"}
                     /\ run'["zones"] \in {"time", "ok"}
                  \/ /\ run["zones"] \in {"failed", "counted"}
                     /\ run'["zones"] \in {"failed", "counted"}
                  BY <2>1, <2>2 DEF CollectStep, DisableMetric, DisableSlowMetrics,
                     DisableDeprecatedMetrics, Flag, NewExporter, Wait, SendUp, Done,
                     SendSeconds, CountFailure, Goroutine, vars
            <3> QED
                BY <1>1, <3>1, <3>2
      <2>3. CASE StartZones
            <3>1. run'["zones"] = "list" /\ listing' = "zones"
                  BY <2>1, <2>3 DEF StartZones, Start, Call
            <3> QED
                BY <1>1, <3>1
      <2>4. CASE ZonesListed \/ ZonesFailed
            BY <1>1, <2>1, <2>4 DEF ZonesListed, ZonesFailed, Listed, ListFailed,
               Goroutine, fanoutVars
      <2>5. CASE ZonesStep
            <3>1. run' = run
                  BY <2>5 DEF ZonesStep, vars
            <3>2. listing' = listing \/ listing \in {"zones", "loop"}
                  BY <2>5 DEF ZonesStep, FanoutStep, Zone, ListZones, ListZonesFails,
                     Return, Go, ListRecordsets, ListRecordsetsFails,
                     RequestCancelled, Send, Report
            <3>3. listing # "idle" /\ listing' # "idle"
                  BY <2>5, <3>2 DEF ZonesStep, FanoutStep, Zone, ListZones, ListZonesFails,
                     Return, Go, ListRecordsets, ListRecordsetsFails,
                     RequestCancelled, Send, Report, FanoutIInv, StartedOnce, FanoutTypes
            <3> QED
                BY <1>1, <3>1, <3>2, <3>3
      <2>6. CASE (\E z \in Zones : ZonePanics(z)) \/ UNCHANGED allVars
            BY <1>1, <2>6 DEF ZonePanics, ListPanics, fanoutVars, allVars, vars
      <2> QED
          BY <2>2, <2>3, <2>4, <2>5, <2>6 DEF ExportersNext
<1> QED
    BY <1>2, <1>3

LEMMA LinkedInductive == ExportersSpec => [](IInv /\ FanoutIInv /\ Linked)
<1>1. ExportersSpec => []IInv
      BY ImplementsParts, Inductive, PTL
<1>2. ExportersSpec => []FanoutIInv
      BY ImplementsParts, FanoutInductive, PTL
<1> QED
    BY <1>1, <1>2, LinkedInit, LinkedStep, PTL DEF ExportersSpec

\* What designate's up says of the zones, and that no goroutine of a zone is left
\* to send after it (designate.go:97-131 with exporter.go:153-176), for any zones,
\* limit and order.
THEOREM UpIsOfZones == ExportersSpec => []DesignateUp
<1> SUFFICES ASSUME IInv, FanoutIInv, Linked PROVE DesignateUp
    BY LinkedInductive, PTL
<1> SUFFICES ASSUME InDesignate, up # "unsent"
             PROVE  /\ Active = {}
                    /\ up = "up" => /\ listing = "listed"
                                    /\ \A z \in Zones : zpc[z] # "none" => sent[z] = Samples(z)
                    /\ up = "down" => listing \in {"idle", "failed"}
    BY DEF DesignateUp
<1>1. Fns = {"zones"}
      BY DEF InDesignate, Fns
<1>2. /\ run["zones"] \in {"none", "ok", "counted"}
      /\ up = "up" <=> run["zones"] = "ok"
      /\ up \in {"up", "down"}
      BY <1>1 DEF IInv, Types, UpIsRight, Quiet, UpMeansSome
<1>3. /\ listing \in {"idle", "listed", "failed"}
      /\ up = "up" => listing = "listed"
      /\ up = "down" => listing \in {"idle", "failed"}
      BY <1>2 DEF Linked
<1>4. Active = {}
      BY <1>3 DEF FanoutIInv, StartedOnce, ReturnedRight, Returned, Active
<1>5. listing = "listed" => \A z \in Zones : zpc[z] # "none" => sent[z] = Samples(z)
      BY DEF FanoutIInv, FanoutTypes, SentByPlace, ErrorTraced, ReturnedRight,
             Returned, Active
<1> QED
    BY <1>3, <1>4, <1>5

---------------------------------------------------------------------------
(* Every collection ends.  What is still to be done is a set of pairs: a   *)
(* list function, or a zone, and a number up to that of the steps it can   *)
(* still take; Collect, ListZonesAndRecordsets and the process add theirs. *)

WorkSet(D, steps) == {w \in D \X (1..3) : w[2] <= steps[w[1]]}

\* A list function is started, listed, and timed or counted.
FnSteps ==
  [n \in Fns |-> CASE n \in todo                    -> 3
                   [] run[n] = "list"               -> 2
                   [] run[n] \in {"time", "failed"} -> 1
                   [] OTHER                         -> 0]

CollectSteps == CASE pc = "loop" -> 2 [] pc = "up" -> 1 [] OTHER -> 0

CollectWork ==
  Cardinality(WorkSet(Fns, FnSteps)) + CollectSteps + (IF crashed THEN 0 ELSE 1)

\* The goroutine of a zone is started, has its recordsets listed, and returns.
ZoneSteps ==
  [z \in Zones |-> CASE listing \in {"idle", "zones"} \/ z \in zonesLeft -> 3
                     [] zpc[z] = "list"               -> 2
                     [] zpc[z] \in {"send", "failed"} -> 1
                     [] OTHER                         -> 0]

ListingSteps ==
  CASE listing = "idle" -> 3 [] listing = "zones" -> 2 [] listing = "loop" -> 1 [] OTHER -> 0

ZonesWork == Cardinality(WorkSet(Zones, ZoneSteps)) + ListingSteps

\* The samples of the listed recordsets that have not been sent.
Unsent ==
  UNION {{z} \X (sent[z] + 1 .. Samples(z)) : z \in {x \in Zones : zpc[x] = "send"}}

\* The three numbers in order of importance: listing the recordsets of a zone lets any
\* number of samples be sent.
LessToDo ==
  \/ CollectWork' < CollectWork
  \/ CollectWork' = CollectWork /\ ZonesWork' < ZonesWork
  \/ /\ CollectWork' = CollectWork /\ ZonesWork' = ZonesWork
     /\ Cardinality(Unsent') < Cardinality(Unsent)

\* A part of a finite set is smaller.
LEMMA Smaller ==
  ASSUME NEW S, IsFiniteSet(S), NEW T, T \subseteq S
  PROVE  /\ IsFiniteSet(T)
         /\ Cardinality(S) \in Nat /\ Cardinality(T) \in Nat
         /\ Cardinality(T) <= Cardinality(S)
         /\ T # S => Cardinality(T) < Cardinality(S)
<1>1. /\ IsFiniteSet(T)
      /\ Cardinality(T) <= Cardinality(S)
      /\ Cardinality(S) = Cardinality(T) => S = T
      BY FS_Subset
<1>2. Cardinality(S) \in Nat /\ Cardinality(T) \in Nat
      BY <1>1, FS_CardinalityType
<1> QED
    BY <1>1, <1>2

\* Nobody has more steps left, and the work is less if somebody has fewer.
LEMMA WorkFalls ==
  ASSUME NEW D, IsFiniteSet(D), NEW f \in [D -> 0..3], NEW g \in [D -> 0..3],
         \A x \in D : g[x] <= f[x]
  PROVE  /\ Cardinality(WorkSet(D, f)) \in Nat /\ Cardinality(WorkSet(D, g)) \in Nat
         /\ Cardinality(WorkSet(D, g)) <= Cardinality(WorkSet(D, f))
         /\ (\E x \in D : g[x] < f[x])
              => Cardinality(WorkSet(D, g)) < Cardinality(WorkSet(D, f))
<1>0. PICK k \in Nat : k = 3
      OBVIOUS
<1> DEFINE P == D \X (1..k)
<1>1. IsFiniteSet(P)
      <2>1. IsFiniteSet(1..k)
            BY FS_Interval
      <2> QED
          BY <2>1, FS_Product
<1>2. WorkSet(D, f) \subseteq P
      BY <1>0 DEF WorkSet
<1> HIDE DEF P
<1>3. IsFiniteSet(WorkSet(D, f))
      BY <1>1, <1>2, Smaller
<1>4. WorkSet(D, g) \subseteq WorkSet(D, f)
      <2> SUFFICES ASSUME NEW x \in D, NEW i \in 1..3, i <= g[x] PROVE i <= f[x]
          BY DEF WorkSet
      <2> QED
          OBVIOUS
<1>5. ASSUME NEW x \in D, g[x] < f[x] PROVE WorkSet(D, g) # WorkSet(D, f)
      <2>1. f[x] \in 1..3
            BY <1>5
      <2>2. <<x, f[x]>> \in WorkSet(D, f)
            BY <2>1 DEF WorkSet
      <2>3. <<x, f[x]>> \notin WorkSet(D, g)
            BY <1>5 DEF WorkSet
      <2> QED
          BY <2>2, <2>3
<1> QED
    BY <1>3, <1>4, <1>5, Smaller

LEMMA FnStepsType ==
  /\ FnSteps \in [Fns -> 0..3] /\ FnSteps' \in [Fns' -> 0..3]
  /\ \A n \in Fns : FnSteps[n] = CASE n \in todo                    -> 3
                                   [] run[n] = "list"               -> 2
                                   [] run[n] \in {"time", "failed"} -> 1
                                   [] OTHER                         -> 0
<1>1. /\ \A n \in Fns : FnSteps[n] \in 0..3
      /\ \A n \in Fns' : FnSteps'[n] \in 0..3
      BY DEF FnSteps
<1> QED
    BY <1>1 DEF FnSteps

LEMMA ZoneStepsType ==
  ZoneSteps \in [Zones -> 0..3] /\ ZoneSteps' \in [Zones -> 0..3]
<1>1. \A z \in Zones : ZoneSteps[z] \in 0..3 /\ ZoneSteps'[z] \in 0..3
      BY DEF ZoneSteps
<1> QED
    BY <1>1 DEF ZoneSteps

\* A step of Collect, or of one of its goroutines, leaves less to do.
LEMMA CollectFalls ==
  ASSUME IInv, Fns' = Fns, FnSteps' \in [Fns -> 0..3],
         \A n \in Fns : FnSteps'[n] <= FnSteps[n],
         CollectSteps' <= CollectSteps,
         crashed => crashed',
         \/ \E n \in Fns : FnSteps'[n] < FnSteps[n]
         \/ CollectSteps' < CollectSteps
         \/ ~crashed /\ crashed'
  PROVE  CollectWork' < CollectWork
<1> DEFINE f == FnSteps
           g == FnSteps'
           a == Cardinality(WorkSet(Fns, f))
           b == Cardinality(WorkSet(Fns, g))
<1>1. f \in [Fns -> 0..3] /\ g \in [Fns -> 0..3] /\ IsFiniteSet(Fns)
      BY FnStepsType, Sizes DEF IInv
<1> HIDE DEF f, g
<1>2. /\ a \in Nat /\ b \in Nat /\ b <= a
      /\ (\E n \in Fns : g[n] < f[n]) => b < a
      <2>1. \A n \in Fns : g[n] <= f[n]
            BY DEF f, g
      <2> QED
          BY <1>1, <2>1, WorkFalls
<1>3. (\E n \in Fns : FnSteps'[n] < FnSteps[n]) => b < a
      BY <1>2 DEF f, g
<1>4. CollectSteps \in 0..2 /\ CollectSteps' \in 0..2
      BY DEF CollectSteps
<1> DEFINE c == IF crashed THEN 0 ELSE 1
           d == IF crashed' THEN 0 ELSE 1
<1>5. c \in 0..1 /\ d \in 0..1 /\ d <= c /\ (~crashed /\ crashed' => d < c)
      OBVIOUS
<1>6. CollectWork = a + CollectSteps + c /\ CollectWork' = b + CollectSteps' + d
      BY DEF CollectWork, f, g
<1> HIDE DEF a, b, c, d
<1>7. a \in Nat /\ b \in Nat /\ b <= a
      BY <1>2
<1>8. b < a \/ CollectSteps' < CollectSteps \/ d < c
      BY <1>3, <1>5
<1>9. \A i, j \in Nat : \A k, l \in 0..2 : \A m, n \in 0..1 :
        i <= j /\ k <= l /\ m <= n /\ (i < j \/ k < l \/ m < n) => i + k + m < j + l + n
      OBVIOUS
<1>10. b + CollectSteps' + d < a + CollectSteps + c
       BY <1>4, <1>5, <1>7, <1>8, <1>9
<1> QED
    BY <1>6, <1>10

\* The same of the fan-out.
LEMMA ZonesFall ==
  ASSUME \A z \in Zones : ZoneSteps'[z] <= ZoneSteps[z],
         ListingSteps' <= ListingSteps,
         \/ \E z \in Zones : ZoneSteps'[z] < ZoneSteps[z]
         \/ ListingSteps' < ListingSteps
  PROVE  ZonesWork' < ZonesWork
<1> DEFINE f == ZoneSteps
           g == ZoneSteps'
           a == Cardinality(WorkSet(Zones, f))
           b == Cardinality(WorkSet(Zones, g))
<1>1. f \in [Zones -> 0..3] /\ g \in [Zones -> 0..3]
      BY ZoneStepsType
<1> HIDE DEF f, g
<1>2. /\ a \in Nat /\ b \in Nat /\ b <= a
      /\ (\E z \in Zones : g[z] < f[z]) => b < a
      <2>1. \A z \in Zones : g[z] <= f[z]
            BY DEF f, g
      <2> QED
          BY <1>1, <2>1, WorkFalls
<1>3. (\E z \in Zones : ZoneSteps'[z] < ZoneSteps[z]) => b < a
      BY <1>2 DEF f, g
<1>4. ListingSteps \in 0..3 /\ ListingSteps' \in 0..3
      BY DEF ListingSteps
<1>5. ZonesWork = a + ListingSteps /\ ZonesWork' = b + ListingSteps'
      BY DEF ZonesWork, f, g
<1> HIDE DEF a, b
<1>6. a \in Nat /\ b \in Nat /\ b <= a /\ (b < a \/ ListingSteps' < ListingSteps)
      BY <1>2, <1>3
<1>7. \A i, j \in Nat : \A k, l \in 0..3 :
        i <= j /\ k <= l /\ (i < j \/ k < l) => i + k < j + l
      OBVIOUS
<1>8. b + ListingSteps' < a + ListingSteps
      BY <1>4, <1>6, <1>7
<1> QED
    BY <1>5, <1>8

\* A step that touches nothing of Collect leaves its work alone.
LEMMA CollectRests ==
  ASSUME UNCHANGED vars
  PROVE  CollectWork' = CollectWork
<1>1. Fns' = Fns /\ CollectSteps' = CollectSteps /\ crashed' = crashed
      BY DEF vars, started, Fns, CollectSteps
<1>2. FnSteps' = FnSteps
      BY <1>1 DEF vars, FnSteps
<1> QED
    BY <1>1, <1>2 DEF CollectWork, WorkSet

LEMMA CollectStepFalls ==
  ASSUME IInv, [Next]_vars, pc # "flags", ~UNCHANGED vars
  PROVE  CollectWork' < CollectWork
<1>0. IInv'
      BY StepInv
<1>1. ASSUME NEW n \in Fns, Start(n) PROVE CollectWork' < CollectWork
      <2>1. Fns' = Fns
            BY <1>1 DEF Start, started, Fns
      <2>2. /\ n \in todo /\ n \notin todo' /\ run[n] = "none" /\ run'[n] = "list"
            /\ \A m \in Fns \ {n} : (m \in todo' <=> m \in todo) /\ run'[m] = run[m]
            BY <1>1 DEF Start, IInv, Types, UpIsRight
      <2>4. FnSteps[n] = 3 /\ FnSteps'[n] = 2
            BY <2>1, <2>2 DEF FnSteps
      <2>5. \A m \in Fns \ {n} : FnSteps'[m] = FnSteps[m]
            BY <2>1, <2>2 DEF FnSteps
      <2>3. CollectSteps' = CollectSteps /\ CollectSteps \in Int /\ crashed' = crashed
            BY <1>1 DEF Start, CollectSteps
      <2>6. \A m \in Fns : FnSteps[m] \in Int /\ FnSteps'[m] \in Int
            BY <2>1, FnStepsType
      <2>7. \A m \in Fns : FnSteps'[m] <= FnSteps[m]
            BY <2>4, <2>5, <2>6
      <2>8. FnSteps'[n] < FnSteps[n]
            BY <2>4
      <2> QED
          BY <2>1, <2>3, <2>7, <2>8, FnStepsType, CollectFalls
<1>2. ASSUME NEW n \in Fns,
             \/ Listed(n) \/ SendSeconds(n)
             \/ ListFailed(n) \/ CountFailure(n)
      PROVE  CollectWork' < CollectWork
      <2>1. Fns' = Fns
            BY <1>2 DEF Listed, SendSeconds, ListFailed, CountFailure, Goroutine, started, Fns
      <2>2. \/ run[n] = "list" /\ run'[n] \in {"time", "ok", "failed"}
            \/ run[n] \in {"time", "failed"} /\ run'[n] \in {"ok", "counted"}
            BY <1>2 DEF Listed, SendSeconds, ListFailed, CountFailure, Goroutine, IInv, Types
      <2>3. /\ todo' = todo /\ n \notin todo
            /\ \A m \in Fns \ {n} : run'[m] = run[m]
            BY <1>2, <2>2 DEF Listed, SendSeconds, ListFailed, CountFailure, Goroutine,
               IInv, Types, UpIsRight
      <2>4. /\ FnSteps'[n] < FnSteps[n]
            /\ \A m \in Fns \ {n} : FnSteps'[m] = FnSteps[m]
            BY <2>1, <2>2, <2>3 DEF FnSteps
      <2>5. CollectSteps' = CollectSteps /\ CollectSteps \in Int /\ crashed' = crashed
            BY <1>2 DEF Listed, SendSeconds, ListFailed, CountFailure, Goroutine, CollectSteps
      <2> QED
          BY <2>1, <2>4, <2>5, FnStepsType, CollectFalls
<1>3. ASSUME Wait \/ SendUp \/ \E n \in Fns : ListPanics(n) PROVE CollectWork' < CollectWork
      <2>1. /\ Fns' = Fns /\ todo' = todo /\ run' = run
            /\ \/ pc = "loop" /\ pc' = "up" /\ crashed' = crashed
               \/ pc = "up" /\ pc' = "returned" /\ crashed' = crashed
               \/ pc' = pc /\ ~crashed /\ crashed'
            BY <1>3 DEF Wait, SendUp, ListPanics, started, Fns
      <2>2. FnSteps' = FnSteps
            BY <2>1 DEF FnSteps
      <2>3. \/ CollectSteps' < CollectSteps /\ crashed' = crashed
            \/ CollectSteps' = CollectSteps /\ CollectSteps \in Int /\ ~crashed /\ crashed'
            BY <2>1 DEF CollectSteps
      <2>4. \A m \in Fns : FnSteps'[m] <= FnSteps[m]
            BY <2>2, FnStepsType
      <2>5. /\ CollectSteps' <= CollectSteps /\ (crashed => crashed')
            /\ CollectSteps' < CollectSteps \/ (~crashed /\ crashed')
            BY <2>3 DEF CollectSteps
      <2> QED
          BY <2>1, <2>4, <2>5, FnStepsType, CollectFalls
<1>4. ~(Done \/ NewExporter \/ DisableSlowMetrics \/ DisableDeprecatedMetrics
          \/ \E n \in MetricNames(table) : DisableMetric(n))
      BY DEF Done, NewExporter, DisableSlowMetrics, DisableDeprecatedMetrics, DisableMetric, Flag
<1> QED
    BY <1>1, <1>2, <1>3, <1>4 DEF Next, Collecting

\* The goroutine of zone z has its recordsets, or is over.
LEMMA ZoneFalls ==
  ASSUME FanoutIInv, NEW z \in Zones, NEW x,
         listing' = listing, zonesLeft' = zonesLeft, zpc' = [zpc EXCEPT ![z] = x],
         \/ zpc[z] = "list" /\ x \in {"send", "failed"}
         \/ zpc[z] \in {"send", "failed"} /\ x \in {"done", "gone"}
  PROVE  ZonesWork' < ZonesWork
<1>1. /\ listing \notin {"idle", "zones"} /\ z \notin zonesLeft
      /\ zpc'[z] = x /\ \A y \in Zones \ {z} : zpc'[y] = zpc[y]
      BY DEF FanoutIInv, FanoutTypes, StartedOnce
<1>2. /\ ZoneSteps[z] = IF zpc[z] = "list" THEN 2 ELSE 1
      /\ ZoneSteps'[z] = IF zpc[z] = "list" THEN 1 ELSE 0
      BY <1>1 DEF ZoneSteps
<1>3. \A y \in Zones \ {z} : ZoneSteps'[y] = ZoneSteps[y]
      BY <1>1 DEF ZoneSteps
<1>4. \A y \in Zones : ZoneSteps[y] \in Int /\ ZoneSteps'[y] \in Int
      BY ZoneStepsType
<1>5. ZoneSteps'[z] < ZoneSteps[z]
      BY <1>2
<1>6. \A y \in Zones : ZoneSteps'[y] <= ZoneSteps[y]
      BY <1>3, <1>4, <1>5
<1>7. ListingSteps' = ListingSteps /\ ListingSteps \in Int
      BY DEF ListingSteps
<1> QED
    BY <1>5, <1>6, <1>7, ZonesFall

\* The samples still to be sent can be counted.
LEMMA UnsentFinite == FanoutIInv => IsFiniteSet(Unsent)
<1> SUFFICES ASSUME FanoutIInv PROVE IsFiniteSet(Unsent)
    OBVIOUS
<1> DEFINE D == {x \in Zones : zpc[x] = "send"}
           P(z) == {z} \X (sent[z] + 1 .. Samples(z))
           f == [z \in D |-> P(z)]
           all == {P(z) : z \in D}
<1>1. IsFiniteSet(D)
      BY FS_Subset
<1>2. f \in Surjection(D, all)
      BY DEF Surjection
<1>3. \A z \in Zones : IsFiniteSet(P(z))
      <2> SUFFICES ASSUME NEW z \in Zones PROVE IsFiniteSet(P(z))
          OBVIOUS
      <2>1. sent[z] + 1 \in Int /\ Samples(z) \in Int
            BY DEF FanoutIInv, FanoutTypes, Samples
      <2>2. IsFiniteSet(sent[z] + 1 .. Samples(z))
            BY <2>1, FS_Interval
      <2> QED
          BY <2>2, FS_Singleton, FS_Product
<1>4. \A T \in all : IsFiniteSet(T)
      BY <1>3
<1>5. Unsent = UNION all
      BY DEF Unsent
<1> HIDE DEF P, f, all
<1>6. IsFiniteSet(all)
      BY <1>1, <1>2, FS_Surjection
<1> QED
    BY <1>4, <1>5, <1>6, FS_UNION

\* A sample that is not the last one of its zone is one sample less.
LEMMA SendFalls ==
  ASSUME FanoutIInv, NEW z \in Zones, Send(z), sent[z] + 1 # Samples(z)
  PROVE  /\ ZonesWork' = ZonesWork
         /\ Cardinality(Unsent') < Cardinality(Unsent)
<1>1. /\ zpc[z] = "send" /\ zpc' = zpc /\ listing' = listing /\ zonesLeft' = zonesLeft
      /\ records' = records /\ sent' = [sent EXCEPT ![z] = sent[z] + 1]
      BY DEF Send, FanoutIInv, FanoutTypes
<1>2. ZonesWork' = ZonesWork
      <2>1. ZoneSteps' = ZoneSteps
            BY <1>1 DEF ZoneSteps
      <2>2. ListingSteps' = ListingSteps
            BY <1>1 DEF ListingSteps
      <2> QED
          BY <2>1, <2>2 DEF ZonesWork, WorkSet
<1>3. /\ sent \in [Zones -> Nat] /\ records \in [Zones -> Nat]
      /\ sent[z] < Samples(z)
      BY <1>1 DEF FanoutIInv, FanoutTypes, SentByPlace
<1>4. Unsent' \subseteq Unsent
      <2> SUFFICES ASSUME NEW y \in Zones, zpc'[y] = "send",
                          NEW i \in sent'[y] + 1 .. Samples(y)'
                   PROVE  zpc[y] = "send" /\ i \in sent[y] + 1 .. Samples(y)
          BY DEF Unsent
      <2> QED
          BY <1>1, <1>3 DEF Samples
<1>5. <<z, sent[z] + 1>> \in Unsent
      <2>1. sent[z] + 1 \in sent[z] + 1 .. Samples(z)
            BY <1>3 DEF Samples
      <2> QED
          BY <1>1, <2>1 DEF Unsent
<1>6. <<z, sent[z] + 1>> \notin Unsent'
      <2> SUFFICES ASSUME sent[z] + 1 \in sent'[z] + 1 .. Samples(z)' PROVE FALSE
          BY DEF Unsent
      <2> QED
          BY <1>1, <1>3
<1> QED
    BY <1>2, <1>4, <1>5, <1>6, UnsentFinite, Smaller

\* A step of ListZonesAndRecordsets, or of the goroutine of a zone, leaves less to do.
LEMMA FanoutStepFalls ==
  ASSUME FanoutIInv, FanoutStep
  PROVE  \/ ZonesWork' < ZonesWork
         \/ ZonesWork' = ZonesWork /\ Cardinality(Unsent') < Cardinality(Unsent)
<1>1. ASSUME (\E zs \in SUBSET Zones : ListZones(zs)) \/ ListZonesFails
      PROVE  ZonesWork' < ZonesWork
      <2>1. listing = "zones" /\ listing' \in {"loop", "failed"}
            BY <1>1 DEF ListZones, ListZonesFails
      <2>2. \A z \in Zones : ZoneSteps[z] = 3
            BY <2>1, FanoutAssumption DEF ZoneSteps, FanoutIInv, StartedOnce
      <2>3. \A z \in Zones : ZoneSteps'[z] <= ZoneSteps[z]
            BY <2>2, ZoneStepsType
      <2>4. ListingSteps' < ListingSteps /\ ListingSteps' <= ListingSteps
            BY <2>1 DEF ListingSteps
      <2> QED
          BY <2>3, <2>4, ZonesFall
<1>2. ASSUME Return PROVE ZonesWork' < ZonesWork
      <2>1. /\ listing = "loop" /\ listing' \in {"listed", "failed"}
            /\ zonesLeft = {} /\ zonesLeft' = {} /\ zpc' = zpc
            BY <1>2 DEF Return
      <2>2. ZoneSteps' = ZoneSteps
            BY <2>1 DEF ZoneSteps
      <2>3. \A z \in Zones : ZoneSteps'[z] <= ZoneSteps[z]
            BY <2>2, ZoneStepsType
      <2>4. ListingSteps' < ListingSteps /\ ListingSteps' <= ListingSteps
            BY <2>1 DEF ListingSteps
      <2> QED
          BY <2>3, <2>4, ZonesFall
<1>3. ASSUME NEW z \in Zones, Go(z) PROVE ZonesWork' < ZonesWork
      <2>1. /\ listing = "loop" /\ listing' = "loop" /\ z \in zonesLeft
            /\ zonesLeft' = zonesLeft \ {z}
            /\ zpc[z] = "none" /\ zpc'[z] = "list" /\ \A y \in Zones \ {z} : zpc'[y] = zpc[y]
            BY <1>3 DEF Go, FanoutIInv, FanoutTypes, StartedOnce
      <2>2. ZoneSteps[z] = 3 /\ ZoneSteps'[z] = 2
            BY <2>1 DEF ZoneSteps
      <2>3. \A y \in Zones \ {z} : ZoneSteps'[y] = ZoneSteps[y]
            BY <2>1 DEF ZoneSteps
      <2>4. \A y \in Zones : ZoneSteps[y] \in Int /\ ZoneSteps'[y] \in Int
            BY ZoneStepsType
      <2>5. ZoneSteps'[z] < ZoneSteps[z] /\ \A y \in Zones : ZoneSteps'[y] <= ZoneSteps[y]
            BY <2>2, <2>3, <2>4
      <2>6. ListingSteps' = ListingSteps /\ ListingSteps \in Int
            BY <2>1 DEF ListingSteps
      <2> QED
          BY <2>5, <2>6, ZonesFall
<1>4. ASSUME NEW z \in Zones,
             \/ \E n \in RecordCounts : ListRecordsets(z, n)
             \/ ListRecordsetsFails(z) \/ RequestCancelled(z) \/ Report(z)
             \/ Send(z) /\ sent[z] + 1 = Samples(z)
      PROVE  ZonesWork' < ZonesWork
      <2>1. PICK x : /\ zpc' = [zpc EXCEPT ![z] = x]
                     /\ \/ zpc[z] = "list" /\ x \in {"send", "failed"}
                        \/ zpc[z] \in {"send", "failed"} /\ x \in {"done", "gone"}
            BY <1>4 DEF ListRecordsets, ListRecordsetsFails, RequestCancelled, Report, Send
      <2>2. listing' = listing /\ zonesLeft' = zonesLeft
            BY <1>4 DEF ListRecordsets, ListRecordsetsFails, RequestCancelled, Report, Send
      <2> QED
          BY <2>1, <2>2, ZoneFalls
<1> QED
    BY <1>1, <1>2, <1>3, <1>4, SendFalls DEF FanoutStep, Zone

LEMMA WorkCounts ==
  ASSUME IInv, FanoutIInv
  PROVE  CollectWork \in Nat /\ ZonesWork \in Nat /\ Cardinality(Unsent) \in Nat
<1>1. Cardinality(WorkSet(Fns, FnSteps)) \in Nat
      <2> DEFINE f == FnSteps
      <2>1. f \in [Fns -> 0..3] /\ IsFiniteSet(Fns)
            BY FnStepsType, Sizes DEF IInv
      <2> HIDE DEF f
      <2>2. \A n \in Fns : f[n] <= f[n]
            BY <2>1
      <2>3. Cardinality(WorkSet(Fns, f)) \in Nat
            BY <2>1, <2>2, WorkFalls
      <2> QED
          BY <2>3 DEF f
<1>2. Cardinality(WorkSet(Zones, ZoneSteps)) \in Nat
      <2> DEFINE f == ZoneSteps
      <2>1. f \in [Zones -> 0..3]
            BY ZoneStepsType
      <2> HIDE DEF f
      <2>2. \A z \in Zones : f[z] <= f[z]
            BY <2>1
      <2>3. Cardinality(WorkSet(Zones, f)) \in Nat
            BY <2>1, <2>2, WorkFalls
      <2> QED
          BY <2>3 DEF f
<1>3. CollectSteps \in Nat /\ ListingSteps \in Nat
      BY DEF CollectSteps, ListingSteps
<1>4. CollectWork \in Nat
      <2> DEFINE c == IF crashed THEN 0 ELSE 1
                 a == Cardinality(WorkSet(Fns, FnSteps))
      <2>1. c \in Nat /\ a \in Nat
            BY <1>1
      <2>2. CollectWork = a + CollectSteps + c
            BY DEF CollectWork
      <2> HIDE DEF c, a
      <2> QED
          BY <1>3, <2>1, <2>2
<1>5. ZonesWork \in Nat
      BY <1>2, <1>3 DEF ZonesWork
<1>6. Cardinality(Unsent) \in Nat
      BY UnsentFinite, FS_CardinalityType
<1> QED
    BY <1>4, <1>5, <1>6

\* A collection cannot go on for ever: while one is under way, every step leaves less
\* to do, in three numbers that cannot fall below zero, whatever fails, in every
\* exporter and for any zones, recordsets and limit (exporter.go:134-177 with
\* designate.go:81-134).
THEOREM CollectionsDescend ==
  ExportersSpec =>
    /\ [](CollectWork \in Nat /\ ZonesWork \in Nat /\ Cardinality(Unsent) \in Nat)
    /\ [][pc # "flags" => LessToDo]_allVars
<1>1. ASSUME IInv, FanoutIInv, [ExportersNext]_allVars, allVars' # allVars, pc # "flags"
      PROVE  LessToDo
      <2>1. [Next]_vars
            BY <1>1, StepOfParts
      <2>2. CASE ~UNCHANGED vars
            BY <1>1, <2>1, <2>2, CollectStepFalls DEF LessToDo
      <2>3. CASE UNCHANGED vars
            <3>1. CollectWork' = CollectWork
                  BY <2>3, CollectRests
            <3>2. ~UNCHANGED fanoutVars
                  BY <1>1, <2>3 DEF allVars
            <3>3. ~StartZones
                  <4> SUFFICES ASSUME StartZones PROVE FALSE
                      OBVIOUS
                  <4> QED
                      BY <2>3 DEF StartZones, Start, vars
            <3>4. FanoutStep
                  BY <1>1, <3>2, <3>3
                  DEF ExportersNext, CollectStep, ZonesListed, ZonesFailed, ZonePanics, ZonesStep
            <3> QED
                BY <1>1, <3>1, <3>4, FanoutStepFalls DEF LessToDo
      <2> QED
          BY <2>2, <2>3
<1>2. IInv /\ FanoutIInv =>
        CollectWork \in Nat /\ ZonesWork \in Nat /\ Cardinality(Unsent) \in Nat
      BY WorkCounts
<1>3. IInv /\ FanoutIInv /\ [ExportersNext]_allVars => [pc # "flags" => LessToDo]_allVars
      BY <1>1
<1> QED
    BY <1>2, <1>3, LinkedInductive, PTL DEF ExportersSpec

---------------------------------------------------------------------------
(* And it comes to its end: somebody can always go on.                     *)

\* The guards of the goroutine of a zone that is not over.
GoroutineReady ==
  \E z \in Zones : zpc[z] \in {"list", "failed"} \/ (zpc[z] = "send" /\ run["zones"] = "list")

\* The guards of ListZonesAndRecordsets, and of RunCollection before and after it.
ZonesReady ==
  \/ "zones" \in todo /\ listing = "idle"
  \/ listing = "zones"
  \/ listing = "loop" /\ \E z \in zonesLeft : Limit > 0 => Cardinality(Active) < Limit
  \/ listing = "loop" /\ zonesLeft = {} /\ Active = {}
  \/ GoroutineReady
  \/ run["zones"] = "list" /\ Returned

CollectReady ==
  \/ pc = "up"
  \/ pc = "loop" /\ todo = {} /\ Quiet
  \/ \E n \in Fns : run[n] \in {"time", "failed"}
  \/ IF InDesignate THEN pc = "loop" /\ ZonesReady
                    ELSE \E n \in Fns : n \in todo \/ run[n] = "list"

NeverStuck == pc \in {"loop", "up"} => crashed \/ CollectReady

\* Until Collect has returned, or the process is gone, nobody waits for somebody who
\* cannot go on: not Collect in g.Wait for its list functions, nor the loop over the
\* zones in g.Go for one of the goroutines within the limit, nor g.Wait after it
\* (exporter.go:134-177, designate.go:97-131).
THEOREM NobodyIsStuck == ExportersSpec => []NeverStuck
<1>1. ASSUME IInv, FanoutIInv, Linked, pc \in {"loop", "up"}, ~crashed
      PROVE  CollectReady
      <2>1. CASE pc = "up"
            BY <2>1 DEF CollectReady
      <2>2. CASE pc = "loop" /\ ~InDesignate
            BY <1>1, <2>2 DEF CollectReady, IInv, Types, Quiet
      <2>3. CASE pc = "loop" /\ InDesignate
            <3>1. Fns = {"zones"}
                  BY <2>3 DEF InDesignate, Fns
            <3>2. run["zones"] \in {"none", "list", "time", "ok", "failed", "counted"}
                  /\ ("zones" \in todo => run["zones"] = "none")
                  /\ todo \subseteq {"zones"}
                  BY <1>1, <2>3, <3>1 DEF IInv, Types, UpIsRight
            <3>3. CASE "zones" \in todo
                  BY <1>1, <2>3, <3>2, <3>3 DEF CollectReady, ZonesReady, Linked
            <3>4. CASE "zones" \notin todo /\ run["zones"] # "list"
                  BY <1>1, <2>3, <3>1, <3>2, <3>4 DEF CollectReady, Quiet
            <3>5. CASE run["zones"] = "list" /\ listing = "loop"
                  <4>1. CASE Active # {}
                        BY <2>3, <3>5, <4>1 DEF Active, GoroutineReady, ZonesReady, CollectReady
                  <4>2. CASE Active = {}
                        <5>1. Limit > 0 => Cardinality(Active) < Limit
                              BY <4>2, FS_EmptySet
                        <5> QED
                            BY <2>3, <3>5, <4>2, <5>1 DEF ZonesReady, CollectReady
                  <4> QED
                      BY <4>1, <4>2
            <3>6. CASE run["zones"] = "list" /\ listing # "loop"
                  BY <1>1, <2>3, <3>6 DEF CollectReady, ZonesReady, Linked, Returned,
                     FanoutIInv, FanoutTypes
            <3> QED
                BY <3>2, <3>3, <3>4, <3>5, <3>6
      <2> QED
          BY <1>1, <2>1, <2>2, <2>3
<1>2. IInv /\ FanoutIInv /\ Linked => NeverStuck
      BY <1>1 DEF NeverStuck
<1> QED
    BY <1>2, LinkedInductive, PTL

=============================================================================
