------------------------ MODULE CacheServiceProofs ------------------------
(***************************************************************************)
(* Proofs about CacheService, for every set of clouds, list of services,   *)
(* outcome of the exporters and TTL of at least two ticks.                 *)
(***************************************************************************)
EXTENDS CacheService, TLAPS

\* The constants as the arithmetic of the proofs needs them.
LEMMA PeriodFacts ==
  /\ TTL \in Nat /\ TTL >= 2
  /\ CollectPeriod \in Nat /\ CollectPeriod >= 1
  /\ AgeCap \in Nat /\ AgeCap > 2 * TTL
  BY TTLAssumption DEF CollectPeriod, AgeCap

LEMMA OrderFacts ==
  /\ Len(ServiceOrder) \in Nat
  /\ \A i \in 1..Len(ServiceOrder) : ServiceOrder[i] \in Services
  BY ServiceAssumption DEF Services

\* What a map of families is after SetMetricFamilyCache for every family a
\* service returned.
LEMMA SetFamiliesIsMap ==
  ASSUME NEW m, IsFamilyMap(m), NEW s \in Services, NEW fs \in SUBSET Families
  PROVE  IsFamilyMap(SetFamilies(m, s, fs))
  BY DEF IsFamilyMap, SetFamilies, Entry

LEMMA NewFamilyMapIsMap == IsFamilyMap(NewFamilyMap)
  BY DEF IsFamilyMap, NewFamilyMap

LEMMA AsEarlierIsMap ==
  ASSUME NEW m, IsFamilyMap(m)
  PROVE  IsFamilyMap(AsEarlier(m))
  BY DEF IsFamilyMap, AsEarlier, Entry

\* What TypeOK says of the cache alone.
CacheOK(C) ==
  /\ DOMAIN C \subseteq Clouds
  /\ \A c \in DOMAIN C : /\ C[c] = [age |-> C[c].age, mfs |-> C[c].mfs]
                         /\ C[c].age \in 0..AgeCap
                         /\ IsFamilyMap(C[c].mfs)

---------------------------------------------------------------------------
(* Type correctness.                                                       *)

\* Every variable keeps its type in every step of the service.
THEOREM TypeCorrect == Spec => []TypeOK
<1>1. Init => TypeOK
  <2> SUFFICES ASSUME Init PROVE TypeOK
    OBVIOUS
  <2>1. DOMAIN CloudCaches = {}
    BY DEF Init
  <2>2. IsFamilyMap(building)
    BY NewFamilyMapIsMap DEF Init
  <2>3. /\ next \in 1..Len(ServiceOrder) + 1
        /\ toCollect \in 1..CollectPeriod
        /\ toFlush \in 1..TTL
    BY PeriodFacts, OrderFacts DEF Init
  <2>4. QED
    BY <2>1, <2>2, <2>3 DEF Init, TypeOK
<1>2. TypeOK /\ [Next]_vars => TypeOK'
  <2> SUFFICES ASSUME TypeOK, [Next]_vars PROVE TypeOK'
    OBVIOUS
  <2> USE PeriodFacts, OrderFacts, ConfigAssumption
  <2>1. CASE ListClouds
    <3>1. CASE pc' = "returned"
      BY <2>1, <3>1 DEF ListClouds, TypeOK, Cancel, tickVars
    <3>2. CASE pc' = "clouds"
      <4>1. CacheOK(CloudCaches')
        BY <2>1, <3>2, AsEarlierIsMap DEF ListClouds, TypeOK, CacheOK
      <4>2. todo' \subseteq Clouds
        BY <2>1, <3>2 DEF ListClouds, TypeOK
      <4>3. /\ pc = "list" /\ cause' = cause
            /\ UNCHANGED <<config, cloud, next, building, got, tickVars, exited>>
        BY <2>1, <3>2 DEF ListClouds
      <4>4. QED
        BY <3>2, <4>1, <4>2, <4>3 DEF TypeOK, CacheOK, tickVars
    <3>3. QED
      BY <2>1, <3>1, <3>2 DEF ListClouds
  <2>2. ASSUME NEW c \in Clouds, VisitCloud(c) PROVE TypeOK'
    BY <2>2, NewFamilyMapIsMap
    DEF VisitCloud, StartFamilies, TypeOK, cacheVars, tickVars, procVars
  <2>3. CASE EnableExporter
    BY <2>3 DEF EnableExporter, TypeOK, cacheVars, tickVars, procVars
  <2>4. CASE SkipService
    BY <2>4 DEF SkipService, TypeOK, cacheVars, tickVars, procVars
  <2>5. ASSUME NEW fs \in SUBSET Families, Gather(fs) PROVE TypeOK'
    <3>1. ServiceOrder[next] \in Services
      BY <2>5 DEF Gather, TypeOK
    <3>2. IsFamilyMap(building')
      BY <2>5, <3>1, SetFamiliesIsMap DEF Gather, TypeOK
    <3>3. got' \subseteq Services \X Families
      BY <2>5, <3>1 DEF Gather, TypeOK
    <3>4. QED
      BY <2>5, <3>1, <3>2, <3>3 DEF Gather, TypeOK, cacheVars, tickVars, procVars
  <2>6. CASE Publish
    <3>1. cloud \in Clouds
      BY <2>6 DEF Publish, TypeOK
    <3>2. CacheOK(CloudCaches')
      BY <2>6, <3>1 DEF Publish, SetCloudCache, TypeOK, CacheOK
    <3>3. QED
      BY <2>6, <3>2, NewFamilyMapIsMap
      DEF Publish, TypeOK, CacheOK, tickVars, procVars
  <2>7. CASE EndCollection
    BY <2>7 DEF EndCollection, TypeOK, cacheVars, tickVars, procVars
  <2>8. CASE SelectCollect \/ SelectFlush \/ SelectDone
    BY <2>8 DEF SelectCollect, SelectFlush, SelectDone, TypeOK, cacheVars,
                tickVars, procVars
  <2>9. CASE Flush
    <3>1. CacheOK(CloudCaches')
      BY <2>9 DEF Flush, FlushExpired, TypeOK, CacheOK
    <3>2. QED
      BY <2>9, <3>1 DEF Flush, TypeOK, CacheOK, tickVars, procVars
  <2>10. CASE Tick
    <3>1. CacheOK(CloudCaches')
      <4>1. DOMAIN CloudCaches' = DOMAIN CloudCaches
        BY <2>10 DEF Tick
      <4>2. ASSUME NEW c \in DOMAIN CloudCaches
            PROVE  /\ CloudCaches'[c] = [age |-> CloudCaches'[c].age,
                                         mfs |-> CloudCaches[c].mfs]
                   /\ CloudCaches'[c].age = IF CloudCaches[c].age < AgeCap
                                              THEN CloudCaches[c].age + 1 ELSE AgeCap
        BY <2>10, SMTT(30) DEF Tick, TypeOK
      <4>3. \A n \in 0..AgeCap : (IF n < AgeCap THEN n + 1 ELSE AgeCap) \in 0..AgeCap
        OBVIOUS
      <4>4. QED
        BY <4>1, <4>2, <4>3 DEF TypeOK, CacheOK
    <3>2. /\ toCollect' \in 1..CollectPeriod /\ toFlush' \in 1..TTL
          /\ collectTick' \in BOOLEAN /\ flushTick' \in BOOLEAN
      <4>1. \A n \in Nat : n >= 1 =>
              \A i \in 1..n : (IF i = 1 THEN n ELSE i - 1) \in 1..n
        OBVIOUS
      <4>2. toCollect' \in 1..CollectPeriod /\ toFlush' \in 1..TTL
        BY <2>10, <4>1, SMTT(30) DEF Tick, TypeOK
      <4>3. collectTick' \in BOOLEAN /\ flushTick' \in BOOLEAN
        BY <2>10 DEF Tick, TypeOK
      <4>4. QED
        BY <4>2, <4>3
    <3>3. QED
      BY <2>10, <3>1, <3>2 DEF Tick, TypeOK, CacheOK, bgVars, procVars
  <2>11. CASE EditConfig \/ Signal \/ WebError \/ MainReturns
    <3>1. /\ UNCHANGED <<cacheVars, bgVars, tickVars>>
          /\ config' \in Configs /\ cause' \in {"none", "error", "signal"}
          /\ exited' \in BOOLEAN
      BY <2>11 DEF EditConfig, Signal, WebError, MainReturns, TypeOK, procVars
    <3>2. QED
      BY <3>1 DEF TypeOK, cacheVars, bgVars, tickVars
  <2>12. CASE UNCHANGED vars
    BY <2>12 DEF TypeOK, vars
  <2>13. QED
    BY <2>1, <2>2, <2>3, <2>4, <2>5, <2>6, <2>7, <2>8, <2>9, <2>10, <2>11, <2>12
    DEF Next, Background, Collection
<1>3. QED
  BY <1>1, <1>2, PTL DEF Spec
---------------------------------------------------------------------------
(* No snapshot mixes two collections.                                      *)

\* NoMix is not inductive alone: the map under construction must hold nothing
\* but families of the running collection, whatever was cached before.
NoMixInv ==
  /\ NoMix
  /\ \A f \in DOMAIN building : building[f].gathered = "this"

\* The families a handler can find for a cloud come from one collection.
THEOREM SnapshotsDoNotMix == Spec => []NoMix
<1>1. Init => NoMixInv
  BY DEF Init, NoMixInv, NoMix, NewFamilyMap
<1>2. TypeOK /\ NoMixInv /\ [Next]_vars => NoMixInv'
  <2> SUFFICES ASSUME TypeOK, NoMixInv, [Next]_vars PROVE NoMixInv'
    OBVIOUS
  <2>1. CASE ListClouds
    <3>1. CASE pc' = "returned"
      BY <2>1, <3>1 DEF ListClouds, NoMixInv, NoMix
    <3>2. CASE pc' = "clouds"
      <4>1. \A c \in DOMAIN CloudCaches :
              FromOneCollection(AsEarlier(CloudCaches[c].mfs))
        BY DEF TypeOK, IsFamilyMap, Entry, AsEarlier, FromOneCollection
      <4>2. CloudCaches' = [c \in DOMAIN CloudCaches |->
               [CloudCaches[c] EXCEPT !.mfs = AsEarlier(CloudCaches[c].mfs)]]
        BY <2>1, <3>2 DEF ListClouds
      <4>3. \A c \in DOMAIN CloudCaches :
              CloudCaches'[c].mfs = AsEarlier(CloudCaches[c].mfs)
        BY <4>2 DEF TypeOK
      <4>4. NoMix'
        BY <4>1, <4>2, <4>3 DEF NoMix
      <4>5. QED
        BY <2>1, <4>4 DEF ListClouds, NoMixInv
    <3>3. QED
      BY <2>1, <3>1, <3>2 DEF ListClouds
  <2>2. ASSUME NEW c \in Clouds, VisitCloud(c) PROVE NoMixInv'
    BY <2>2 DEF VisitCloud, StartFamilies, NewFamilyMap, NoMixInv, NoMix, cacheVars
  <2>3. ASSUME NEW fs \in SUBSET Families, Gather(fs) PROVE NoMixInv'
    BY <2>3 DEF Gather, SetFamilies, NoMixInv, NoMix, cacheVars
  <2>4. CASE Publish
    <3>1. FromOneCollection(building)
      BY DEF NoMixInv, FromOneCollection
    <3>2. NoMix'
      BY <2>4, <3>1 DEF Publish, SetCloudCache, NoMixInv, NoMix
    <3>3. QED
      BY <2>4, <3>2 DEF Publish, NewFamilyMap, NoMixInv
  <2>5. CASE Flush
    BY <2>5 DEF Flush, FlushExpired, NoMixInv, NoMix
  <2>6. CASE Tick
    <3>1. \A c \in DOMAIN CloudCaches' :
            /\ c \in DOMAIN CloudCaches
            /\ CloudCaches'[c].mfs = CloudCaches[c].mfs
      BY <2>6 DEF Tick, TypeOK
    <3>2. QED
      BY <2>6, <3>1 DEF Tick, NoMixInv, NoMix, bgVars
  <2>7. CASE UNCHANGED <<CloudCaches, building>>
    BY <2>7 DEF NoMixInv, NoMix
  <2>8. QED
    BY <2>1, <2>2, <2>3, <2>4, <2>5, <2>6, <2>7
    DEF Next, Background, Collection, EnableExporter, SkipService, EndCollection,
        SelectCollect, SelectFlush, SelectDone, EditConfig, Signal, WebError,
        MainReturns, vars, cacheVars, bgVars
<1>3. NoMixInv => NoMix
  BY DEF NoMixInv
<1>4. QED
  BY <1>1, <1>2, <1>3, TypeCorrect, PTL DEF Spec

---------------------------------------------------------------------------
(* The age of what is cached.                                              *)

\* Between two flushes an entry grows by what toFlush shrinks; a flush leaves
\* nothing older than the TTL.
StaleInv ==
  ~flushTick /\ pc # "flush" =>
    \A c \in DOMAIN CloudCaches : CloudCaches[c].age + toFlush <= 2 * TTL

\* While no flush is due, everything in the cache is younger than 2 * TTL.
THEOREM CacheAgeIsBounded == Spec => []StaleBound
<1>1. Init => StaleInv
  BY DEF Init, StaleInv
<1>2. TypeOK /\ StaleInv /\ [Next]_vars => StaleInv'
  <2> SUFFICES ASSUME TypeOK, StaleInv, [Next]_vars PROVE StaleInv'
    OBVIOUS
  <2> USE PeriodFacts
  <2>1. CASE ListClouds
    <3>1. pc = "list" /\ toFlush' = toFlush /\ flushTick' = flushTick
      BY <2>1 DEF ListClouds, tickVars
    <3>2. \A c \in DOMAIN CloudCaches' :
            c \in DOMAIN CloudCaches /\ CloudCaches'[c].age = CloudCaches[c].age
      BY <2>1 DEF ListClouds, TypeOK
    <3>3. QED
      BY <3>1, <3>2 DEF StaleInv
  <2>2. CASE Publish
    <3>1. pc = "enable" /\ toFlush' = toFlush /\ flushTick' = flushTick
      BY <2>2 DEF Publish, tickVars
    <3>2. \A c \in DOMAIN CloudCaches' :
            \/ CloudCaches'[c].age = 0
            \/ c \in DOMAIN CloudCaches /\ CloudCaches'[c].age = CloudCaches[c].age
      BY <2>2 DEF Publish, SetCloudCache
    <3>3. QED
      BY <3>1, <3>2 DEF StaleInv, TypeOK
  <2>3. CASE Flush
    <3>1. toFlush' = toFlush
      BY <2>3 DEF Flush, tickVars
    <3>2. \A c \in DOMAIN CloudCaches' :
            /\ c \in DOMAIN CloudCaches
            /\ CloudCaches'[c] = CloudCaches[c]
            /\ ~(CloudCaches[c].age > TTL)
      BY <2>3 DEF Flush, FlushExpired, Expired
    <3>3. QED
      BY <3>1, <3>2 DEF StaleInv, TypeOK
  <2>4. CASE Tick
    <3>1. CASE toFlush = 1
      BY <2>4, <3>1 DEF Tick, StaleInv
    <3>2. CASE toFlush # 1
      <4>1. /\ toFlush' = toFlush - 1 /\ pc' = pc
            /\ flushTick' = flushTick
        BY <2>4, <3>2 DEF Tick, bgVars, TypeOK
      <4>2. \A c \in DOMAIN CloudCaches' :
              /\ c \in DOMAIN CloudCaches
              /\ CloudCaches'[c].age <= CloudCaches[c].age + 1
              /\ CloudCaches'[c].age \in Nat
        BY <2>4 DEF Tick, TypeOK
      <4>3. QED
        BY <4>1, <4>2 DEF StaleInv, TypeOK
    <3>3. QED
      BY <3>1, <3>2
  <2>5. CASE SelectFlush
    BY <2>5 DEF SelectFlush, StaleInv
  <2>6. CASE /\ UNCHANGED <<CloudCaches, toFlush, flushTick>>
             /\ pc # "flush" \/ pc' = "flush"
    BY <2>6 DEF StaleInv
  <2>7. QED
    BY <2>1, <2>2, <2>3, <2>4, <2>5, <2>6
    DEF Next, Background, Collection, VisitCloud, EnableExporter, SkipService,
        Gather, EndCollection, SelectCollect, SelectDone, EditConfig, Signal,
        WebError, MainReturns, vars, cacheVars, bgVars, tickVars
<1>3. TypeOK /\ StaleInv => StaleBound
  BY PeriodFacts DEF TypeOK, StaleInv, StaleBound
<1>4. QED
  BY <1>1, <1>2, <1>3, TypeCorrect, PTL DEF Spec
---------------------------------------------------------------------------
(* What one exporter costs the others.                                     *)

\* Whatever fails in between, the map under construction holds every family
\* that was gathered for the cloud and nothing else.
THEOREM FailuresLoseNothing == Spec => []NothingLost
<1>1. Init => NothingLost
  BY DEF Init, NothingLost, NewFamilyMap
<1>2. TypeOK /\ NothingLost /\ [Next]_vars => NothingLost'
  <2> SUFFICES ASSUME TypeOK, NothingLost, [Next]_vars PROVE NothingLost'
    OBVIOUS
  <2>1. ASSUME NEW c \in Clouds, VisitCloud(c) PROVE NothingLost'
    BY <2>1 DEF VisitCloud, StartFamilies, NewFamilyMap, NothingLost
  <2>2. ASSUME NEW fs \in SUBSET Families, Gather(fs) PROVE NothingLost'
    <3> DEFINE s == ServiceOrder[next]
               new == {<<s, f>> : f \in fs}
    <3>1. building' = SetFamilies(building, s, fs) /\ got' = got \cup new
      BY <2>2 DEF Gather
    <3>2. {p[2] : p \in got'} = {p[2] : p \in got} \cup fs
      <4>1. {p[2] : p \in new} = fs
        <5>1. ASSUME NEW f \in fs PROVE f \in {p[2] : p \in new}
          <6>1. <<s, f>> \in new /\ <<s, f>>[2] = f
            OBVIOUS
          <6>2. QED
            BY <6>1
        <5>2. ASSUME NEW p \in new PROVE p[2] \in fs
          OBVIOUS
        <5>3. QED
          BY <5>1, <5>2
      <4>2. QED
        BY <3>1, <4>1
    <3>3. DOMAIN building' = DOMAIN building \cup fs
      BY <3>1 DEF SetFamilies
    <3>4. ASSUME NEW f \in DOMAIN building'
          PROVE  <<building'[f].service, f>> \in got'
      <4>1. CASE f \in fs
        BY <3>1, <4>1 DEF SetFamilies
      <4>2. CASE f \notin fs
        BY <3>1, <4>2 DEF SetFamilies, NothingLost
      <4>3. QED
        BY <4>1, <4>2
    <3>5. QED
      BY <3>2, <3>3, <3>4 DEF NothingLost
  <2>3. CASE Publish
    BY <2>3 DEF Publish, NewFamilyMap, NothingLost
  <2>4. CASE UNCHANGED <<building, got>>
    BY <2>4 DEF NothingLost
  <2>5. QED
    BY <2>1, <2>2, <2>3, <2>4
    DEF Next, Background, Collection, ListClouds, EnableExporter, SkipService,
        EndCollection, SelectCollect, SelectFlush, SelectDone, Flush, Tick,
        EditConfig, Signal, WebError, MainReturns, vars, bgVars
<1>3. QED
  BY <1>1, <1>2, TypeCorrect, PTL DEF Spec

---------------------------------------------------------------------------
(* The cache implements the store its callers are promised.                *)

LEMMA AttributedIsSnapshot ==
  ASSUME NEW m, IsFamilyMap(m)
  PROVE  /\ Attributed(m) \in Store!Snapshots
         /\ Attributed(m) # NoSnapshot
<1>1. Attributed(m) \in [DOMAIN m -> Services]
  BY DEF Attributed, IsFamilyMap, Entry
<1>2. DOMAIN m \in SUBSET Families
  BY DEF IsFamilyMap
<1>3. QED
  BY <1>1, <1>2, SnapshotAssumption DEF Store!Snapshots

\* Every step of the service is a step of CloudStore or none.
THEOREM CacheIsCloudStore == Spec => ImplementsStore
<1>1. Init => Store!Init
  BY DEF Init, Store!Init, PublishedSnapshots, StaleClouds
<1>2. TypeOK /\ [Next]_vars => [Store!Next]_(Store!storeVars)
  <2> SUFFICES ASSUME TypeOK, [Next]_vars
               PROVE  Store!Next \/ UNCHANGED <<PublishedSnapshots, StaleClouds>>
    BY DEF Store!storeVars
  <2> USE PeriodFacts
  <2>1. CASE UNCHANGED CloudCaches
    BY <2>1 DEF PublishedSnapshots, StaleClouds, Expired
  <2>2. CASE ListClouds /\ pc' = "clouds"
    <3>1. DOMAIN CloudCaches' = DOMAIN CloudCaches
      BY <2>2 DEF ListClouds
    <3>2. \A c \in DOMAIN CloudCaches :
            /\ CloudCaches'[c].mfs = AsEarlier(CloudCaches[c].mfs)
            /\ CloudCaches'[c].age = CloudCaches[c].age
      BY <2>2 DEF ListClouds, TypeOK
    <3>3. \A c \in DOMAIN CloudCaches :
            Attributed(AsEarlier(CloudCaches[c].mfs)) = Attributed(CloudCaches[c].mfs)
      BY DEF TypeOK, IsFamilyMap, Entry, AsEarlier, Attributed
    <3>4. PublishedSnapshots' = PublishedSnapshots
      BY <3>1, <3>2, <3>3 DEF PublishedSnapshots
    <3>5. StaleClouds' = StaleClouds
      BY <3>1, <3>2 DEF StaleClouds, Expired
    <3>6. QED
      BY <3>4, <3>5
  <2>3. CASE Publish
    <3>1. cloud \in Clouds /\ IsFamilyMap(building)
      BY <2>3 DEF Publish, TypeOK
    <3>2. SetCloudCache(cloud, building)
      BY <2>3 DEF Publish
    <3>3. PublishedSnapshots' =
            [PublishedSnapshots EXCEPT ![cloud] = Attributed(building)]
      BY <3>1, <3>2 DEF SetCloudCache, PublishedSnapshots
    <3>4. StaleClouds' = StaleClouds \ {cloud}
      BY <3>1, <3>2 DEF SetCloudCache, StaleClouds, Expired
    <3>5. Store!Publish(cloud, Attributed(building))
      BY <3>3, <3>4 DEF Store!Publish
    <3>6. QED
      BY <3>1, <3>5, AttributedIsSnapshot DEF Store!Next
  <2>4. CASE Flush
    <3>1. DOMAIN CloudCaches' = DOMAIN CloudCaches \ StaleClouds
      BY <2>4 DEF Flush, FlushExpired, StaleClouds
    <3>2. \A c \in DOMAIN CloudCaches' : CloudCaches'[c] = CloudCaches[c]
      BY <2>4 DEF Flush, FlushExpired
    <3>3. StaleClouds' = StaleClouds \ StaleClouds
      BY <3>1, <3>2 DEF StaleClouds, Expired
    <3>4. PublishedSnapshots' =
            [c \in Clouds |-> IF c \in StaleClouds THEN NoSnapshot
                                                   ELSE PublishedSnapshots[c]]
      BY <3>1, <3>2 DEF PublishedSnapshots
    <3>5. StaleClouds \in SUBSET Clouds
      BY DEF StaleClouds, TypeOK
    <3>6. Store!Expire(StaleClouds)
      BY <3>3, <3>4 DEF Store!Expire
    <3>7. QED
      BY <3>5, <3>6 DEF Store!Next
  <2>5. CASE Tick
    <3>1. DOMAIN CloudCaches' = DOMAIN CloudCaches
      BY <2>5 DEF Tick
    <3>2. \A c \in DOMAIN CloudCaches :
            /\ CloudCaches'[c].mfs = CloudCaches[c].mfs
            /\ CloudCaches[c].age > TTL => CloudCaches'[c].age > TTL
      BY <2>5 DEF Tick, TypeOK
    <3>3. PublishedSnapshots' = PublishedSnapshots
      BY <3>1, <3>2 DEF PublishedSnapshots
    <3>4. StaleClouds' = StaleClouds \cup StaleClouds'
      BY <3>1, <3>2 DEF StaleClouds, Expired
    <3>5. StaleClouds' \in SUBSET Clouds
      BY <3>1 DEF StaleClouds, TypeOK
    <3>6. \A c \in StaleClouds' : PublishedSnapshots[c] # NoSnapshot
      BY <3>1, AttributedIsSnapshot DEF StaleClouds, PublishedSnapshots, TypeOK
    <3>7. Store!Age(StaleClouds')
      BY <3>3, <3>4, <3>6 DEF Store!Age
    <3>8. QED
      BY <3>5, <3>7 DEF Store!Next
  <2>6. QED
    BY <2>1, <2>2, <2>3, <2>4, <2>5
    DEF Next, Background, Collection, ListClouds, VisitCloud, EnableExporter,
        SkipService, Gather, EndCollection, SelectCollect, SelectFlush,
        SelectDone, EditConfig, Signal, WebError, MainReturns, vars, cacheVars
<1>3. QED
  BY <1>1, <1>2, TypeCorrect, PTL DEF Spec, ImplementsStore, Store!Spec

---------------------------------------------------------------------------
(* Every collection comes to its end, and every cloud of it to its turn.   *)

\* What the running collection has still to do: its list, its clouds, the services of
\* the cloud it visits, each of which is enabled before it is gathered.
AtCloud == pc \in {"enable", "gather"}

Remaining == Len(ServiceOrder) + 1 - next

Less ==
  \/ pc = "list" /\ pc' # "list"
  \/ pc # "list" /\ pc' # "list" /\ todo' \subseteq todo /\ todo' # todo
  \/ /\ pc # "list" /\ pc' # "list" /\ todo' = todo
     /\ \/ AtCloud /\ ~AtCloud'
        \/ AtCloud /\ AtCloud' /\ Remaining' < Remaining
        \/ AtCloud /\ AtCloud' /\ Remaining' = Remaining /\ pc = "enable" /\ pc' = "gather"
        \/ pc = "clouds" /\ pc' = "select"

\* Nobody but the collection changes what it has to do.
CollectionDescends ==
  /\ Collection => Less
  /\ pc \in {"list", "clouds", "enable", "gather"} /\ ~Collection =>
       UNCHANGED <<pc, todo, cloud, next>>

\* The goroutine that has returned has cancelled the context, or found it cancelled.
ReturnedIsCancelled == pc = "returned" => cause # "none"

\* A cloud leaves the list when it is visited, and the visit ends with its snapshot.
NoCloudLost ==
  /\ \A c \in todo : c \in todo' \/ (cloud' = c /\ AtCloud')
  /\ cloud # NoCloud /\ cloud' # cloud =>
       /\ cloud \in DOMAIN CloudCaches'
       /\ CloudCaches'[cloud] = [age |-> 0, mfs |-> building]

LEMMA TypesKept == Spec => [](TypeOK /\ Remaining \in Nat)
<1>1. TypeOK => Remaining \in Nat
  BY OrderFacts DEF TypeOK, Remaining
<1>2. QED
  BY <1>1, TypeCorrect, PTL

\* A collection takes finitely many steps: each leaves less to do, an edit of
\* clouds.yaml, a signal or the clock adds nothing to it, and neither does a service
\* that fails (cache/utils.go:38-105).
THEOREM CollectionsDescend == Spec => [](Remaining \in Nat) /\ [][CollectionDescends]_vars
<1>1. ASSUME TypeOK, TypeOK', [Next]_vars, Collection PROVE Less
  <2> USE DEF Less, AtCloud
  <2>1. CASE ListClouds
    BY <2>1 DEF ListClouds
  <2>2. CASE EnableExporter
    BY <2>2 DEF EnableExporter, Remaining
  <2>3. ASSUME SkipService \/ \E fs \in SUBSET Families : Gather(fs) PROVE Less
    <3>1. /\ AtCloud /\ AtCloud' /\ pc # "list" /\ pc' # "list" /\ todo' = todo
          /\ next' = next + 1
      BY <2>3 DEF SkipService, Gather
    <3>2. Remaining' < Remaining
      BY <1>1, <3>1, OrderFacts DEF Remaining, TypeOK
    <3>3. QED
      BY <3>1, <3>2
  <2>4. CASE Publish \/ EndCollection
    BY <2>4 DEF Publish, EndCollection
  <2>5. ASSUME NEW c \in Clouds, VisitCloud(c) PROVE Less
    BY <2>5 DEF VisitCloud
  <2>6. QED
    BY <1>1, <2>1, <2>2, <2>3, <2>4, <2>5 DEF Collection
<1>2. ASSUME [Next]_vars, ~Collection, pc \in {"list", "clouds", "enable", "gather"}
      PROVE  UNCHANGED <<pc, todo, cloud, next>>
  BY <1>2 DEF Next, Background, SelectCollect, SelectFlush, Flush, SelectDone, Tick,
              EditConfig, Signal, WebError, MainReturns, bgVars, vars
<1>3. TypeOK /\ TypeOK' /\ [Next]_vars => [CollectionDescends]_vars
  BY <1>1, <1>2 DEF CollectionDescends
<1>4. QED
  BY <1>3, TypesKept, PTL DEF Spec

\* Between two collections no cloud is left over.
NoneLeft == ~AtCloud /\ pc # "clouds" => todo = {}

LEMMA NoneLeftInvariant == Spec => []NoneLeft
<1>1. Init => NoneLeft
  BY DEF Init, NoneLeft
<1>2. NoneLeft /\ [Next]_vars => NoneLeft'
  <2> SUFFICES ASSUME NoneLeft, [Next]_vars PROVE NoneLeft'
    OBVIOUS
  <2> USE DEF NoneLeft, AtCloud
  <2>1. CASE ListClouds
    BY <2>1 DEF ListClouds
  <2>2. CASE pc' \in {"clouds", "enable", "gather"}
    BY <2>2
  <2>3. CASE EndCollection
    BY <2>3 DEF EndCollection
  <2>4. CASE UNCHANGED <<pc, todo>>
    BY <2>4
  <2>5. CASE SelectCollect \/ SelectFlush \/ Flush \/ SelectDone
    BY <2>5 DEF SelectCollect, SelectFlush, Flush, SelectDone
  <2>6. QED
    BY <2>1, <2>2, <2>3, <2>4, <2>5
    DEF Next, Background, Collection, EnableExporter, SkipService, Gather, VisitCloud,
        Publish, Tick, EditConfig, Signal, WebError, MainReturns, bgVars, vars
<1>3. QED
  BY <1>1, <1>2, PTL DEF Spec

\* A cloud that is listed is not lost: it leaves the list to be visited, and a visit
\* ends with the snapshot of what was gathered, whatever its services did
\* (cache/utils.go:58-102).
THEOREM ListedCloudsAreStored == Spec => [][NoCloudLost]_vars
<1>1. ASSUME TypeOK, NoneLeft, [Next]_vars PROVE NoCloudLost
  <2> USE DEF NoCloudLost, AtCloud
  <2>1. CASE ListClouds
    BY <1>1, <2>1 DEF ListClouds, NoneLeft
  <2>2. ASSUME NEW c \in Clouds, VisitCloud(c) PROVE NoCloudLost
    BY <1>1, <2>2 DEF VisitCloud, TypeOK
  <2>3. CASE Publish
    BY <1>1, <2>3 DEF Publish, SetCloudCache, TypeOK
  <2>4. CASE UNCHANGED <<todo, cloud>>
    BY <2>4
  <2>5. QED
    BY <1>1, <2>1, <2>2, <2>3, <2>4
    DEF Next, Background, Collection, EnableExporter, SkipService, Gather, EndCollection,
        SelectCollect, SelectFlush, Flush, SelectDone, Tick, EditConfig, Signal, WebError,
        MainReturns, bgVars, vars
<1>2. TypeOK /\ NoneLeft /\ [Next]_vars => [NoCloudLost]_vars
  BY <1>1
<1>3. QED
  BY <1>2, TypeCorrect, NoneLeftInvariant, PTL DEF Spec

\* The process cannot be left without the goroutine that fills and flushes its cache:
\* when that has returned the context is cancelled, which main waits for
\* (main.go:217-243 and 299-309).
THEOREM NoSilentReturn == Spec => []ReturnedIsCancelled
<1>1. Init => ReturnedIsCancelled
  BY DEF Init, ReturnedIsCancelled
<1>2. ReturnedIsCancelled /\ [Next]_vars => ReturnedIsCancelled'
  <2> SUFFICES ASSUME ReturnedIsCancelled, [Next]_vars PROVE ReturnedIsCancelled'
    OBVIOUS
  <2>1. CASE pc' = pc /\ (cause' = cause \/ cause' # "none")
    BY <2>1 DEF ReturnedIsCancelled
  <2>2. CASE pc' # "returned"
    BY <2>2 DEF ReturnedIsCancelled
  <2>3. CASE ListClouds
    BY <2>2, <2>3 DEF ListClouds, Cancel, ReturnedIsCancelled
  <2>4. CASE SelectDone
    BY <2>4 DEF SelectDone, ReturnedIsCancelled, procVars
  <2>5. QED
    BY <2>1, <2>2, <2>3, <2>4
    DEF Next, Background, Collection, EnableExporter, SkipService, Gather, EndCollection,
        VisitCloud, Publish, SelectCollect, SelectFlush, Flush, Tick, EditConfig, Signal,
        WebError, MainReturns, bgVars, procVars, vars
<1>3. QED
  BY <1>1, <1>2, PTL DEF Spec

===========================================================================
