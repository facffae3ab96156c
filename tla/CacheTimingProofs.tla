-------------------------- MODULE CacheTimingProofs --------------------------
(***************************************************************************)
(* What the two periods guarantee on a machine that keeps up, for every    *)
(* TTL of at least two ticks, every longest collection, any clouds,        *)
(* services and edits of clouds.yaml.                                      *)
(***************************************************************************)
EXTENDS CacheTiming, CacheServiceProofs

\* CacheTiming is CacheService with less freedom: it only says when the clock may
\* go on, so that all that is proved of CacheService holds of it.
THEOREM TimingImplementsService == TimingSpec => Spec
<1>1. TimingInit => Init
  BY DEF TimingInit
<1>2. [TimingNext]_timingVars => [Next]_vars
  BY DEF TimingNext, TimedTick, TimedList, TimedEnd, Untimed, Next, Background,
         Collection, timingVars
<1>3. QED
  BY <1>1, <1>2, PTL DEF TimingSpec, Spec

\* The age an entry of a listed cloud may reach before the next collection begins:
\* that of the longest collection, or the collect period when collections are
\* shorter than that.
Longest == IF MaxBusy > CollectPeriod THEN MaxBusy ELSE CollectPeriod

Cached(S) == S \cap DOMAIN CloudCaches

Age(c) == CloudCaches[c].age

Visiting == pc \in {"clouds", "enable", "gather"}
Waiting == pc \in {"select", "flush"}

\* The clock against the collection: a collection that began with the ticker's
\* channel empty ends before the ticker fires, or finds a tick when it ends.
Clock ==
  /\ busy \in Nat
  /\ Collecting => /\ busy <= MaxBusy
                   /\ ~collectTick => busy + toCollect <= CollectPeriod
  /\ Waiting => busy = 0
  /\ pc = "returned" => cause # "none"

\* The age of the entries of listed clouds, by the phase of the service: grown
\* since the previous collection, refreshed by this one, or waiting for the next.
Ages ==
  /\ steady \subseteq listed
  /\ pc = "list" => \A c \in Cached(listed) : Age(c) <= Longest + busy
  /\ Visiting => /\ \A c \in Cached(listed) : c \notin todo \cup {cloud} => Age(c) <= busy
                 /\ \A c \in Cached(steady) : Age(c) <= Longest + busy
  /\ Waiting => \A c \in Cached(listed) :
                  /\ Age(c) <= Longest
                  /\ ~collectTick => Age(c) + toCollect <= CollectPeriod
  /\ pc = "returned" => \A c \in Cached(steady) : Age(c) <= Longest + MaxBusy

LEMMA LongestFacts ==
  /\ MaxBusy \in Nat /\ Longest \in Nat
  /\ MaxBusy <= Longest /\ CollectPeriod <= Longest
  BY MaxBusyAssumption, PeriodFacts DEF Longest

\* A collect ticker that does not fire comes one tick nearer to it.
LEMMA TickersStep ==
  ASSUME TypeOK, Tick
  PROVE  ~collectTick' => ~collectTick /\ toCollect' = toCollect - 1
<1>1. toCollect # 1 => toCollect' = toCollect - 1
  BY DEF Tick
<1>2. collectTick \/ toCollect = 1 => collectTick'
  BY Zenon DEF Tick
<1>3. QED
  BY <1>1, <1>2

LEMMA ClockInvariant == TimingSpec => []Clock
<1> USE MaxBusyAssumption, PeriodFacts
<1>1. TimingInit => Clock
  BY DEF TimingInit, Init, Clock, Collecting, Waiting
<1>2. TypeOK /\ Clock /\ [TimingNext]_timingVars => Clock'
  <2> SUFFICES ASSUME TypeOK, Clock, [TimingNext]_timingVars PROVE Clock'
    OBVIOUS
  <2> USE DEF Clock, Collecting, Waiting
  <2>1. CASE TimedTick
    <3>0. ~collectTick' => ~collectTick /\ toCollect' = toCollect - 1
      BY <2>1, TickersStep DEF TimedTick
    <3>1. /\ pc' = pc /\ cause' = cause
          /\ busy' = IF Collecting THEN busy + 1 ELSE 0
          /\ Collecting => busy < MaxBusy
      BY <2>1 DEF TimedTick, Tick, Prompt, bgVars, procVars
    <3>2. QED
      BY <3>0, <3>1 DEF TypeOK
  <2>2. CASE TimedList
    BY <2>2 DEF TimedList, ListClouds, Cancel, tickVars
  <2>3. CASE TimedEnd
    BY <2>3 DEF TimedEnd, EndCollection, tickVars, procVars
  <2>4. CASE SelectCollect /\ UNCHANGED busy
    BY <2>4 DEF SelectCollect, procVars, TypeOK
  <2>5. CASE SelectDone /\ UNCHANGED busy
    BY <2>5 DEF SelectDone, tickVars, procVars
  <2>6. CASE /\ \/ \E c \in Clouds : VisitCloud(c)
                \/ EnableExporter
                \/ SkipService
                \/ \E fs \in SUBSET Families : Gather(fs)
                \/ Publish
             /\ UNCHANGED busy
    BY <2>6
    DEF VisitCloud, EnableExporter, SkipService, Gather, Publish, tickVars, procVars
  <2>7. CASE (SelectFlush \/ Flush) /\ UNCHANGED busy
    BY <2>7 DEF SelectFlush, Flush, tickVars, procVars
  <2>8. CASE (EditConfig \/ Signal \/ WebError \/ MainReturns) /\ UNCHANGED busy
    BY <2>8 DEF EditConfig, Signal, WebError, MainReturns, bgVars, tickVars, procVars
  <2>9. CASE UNCHANGED timingVars
    BY <2>9 DEF timingVars, vars
  <2> HIDE DEF Clock, Collecting, Waiting
  <2>10. QED
    BY <2>1, <2>2, <2>3, <2>4, <2>5, <2>6, <2>7, <2>8, <2>9 DEF TimingNext, Untimed
<1>3. QED
  BY <1>1, <1>2, TimingImplementsService, TypeCorrect, PTL DEF TimingSpec

\* Every other step leaves the ages of what stays cached alone.
LEMMA AgesInvariant == TimingSpec => []Ages
<1> USE LongestFacts, PeriodFacts
<1>1. TimingInit => Ages
  BY DEF TimingInit, Init, Ages, Cached, Visiting, Waiting
<1>2. TypeOK /\ Clock /\ Ages /\ [TimingNext]_timingVars => Ages'
  <2> SUFFICES ASSUME TypeOK, Clock, Ages, [TimingNext]_timingVars PROVE Ages'
    OBVIOUS
  <2>0. \A c \in DOMAIN CloudCaches : Age(c) \in Nat
    BY DEF TypeOK, Age
  <2>1. CASE TimedTick
    <3>1. /\ UNCHANGED <<pc, todo, cloud, listed, steady>>
          /\ busy' = IF Collecting THEN busy + 1 ELSE 0
          /\ Waiting => ~collectTick
          /\ pc # "returned"
      BY <2>1 DEF TimedTick, Tick, Prompt, bgVars, Clock, Waiting
    <3>2. /\ DOMAIN CloudCaches' = DOMAIN CloudCaches
          /\ \A c \in DOMAIN CloudCaches : Age(c)' \in Nat /\ Age(c)' <= Age(c) + 1
      BY <2>1, SMTT(30) DEF TimedTick, Tick, TypeOK, Age
    <3>3. Cached(listed)' = Cached(listed) /\ Cached(steady)' = Cached(steady)
      BY <3>1, <3>2 DEF Cached
    <3>4. CASE pc = "list"
      <4>1. ~Visiting' /\ ~Waiting' /\ Collecting /\ pc' = "list"
        BY <3>1, <3>4 DEF Collecting, Visiting, Waiting
      <4>2. QED
        BY <2>0, <3>1, <3>2, <3>3, <3>4, <4>1 DEF Ages, Cached, Clock
    <3>5. CASE Visiting
      BY <2>0, <3>1, <3>2, <3>3, <3>5 DEF Ages, Collecting, Visiting, Waiting, Cached, Clock
    <3>6. CASE Waiting
      <4>1. ~collectTick' => toCollect' = toCollect - 1
        BY <2>1, TickersStep DEF TimedTick
      <4>2. ASSUME NEW c \in Cached(listed)
            PROVE  /\ Age(c)' <= Longest
                   /\ ~collectTick' => Age(c)' + toCollect' <= CollectPeriod
        <5>1. Age(c) + toCollect <= CollectPeriod
          BY <3>1, <3>6 DEF Ages
        <5>2. Age(c) \in Nat /\ Age(c)' \in Nat /\ Age(c)' <= Age(c) + 1
          BY <2>0, <3>2 DEF Cached
        <5>3. toCollect \in Nat /\ toCollect >= 1
          BY DEF TypeOK
        <5>4. QED
          BY <4>1, <5>1, <5>2, <5>3
      <4>3. QED
        BY <3>1, <3>3, <3>6, <4>2 DEF Ages, Visiting, Waiting
    <3>7. QED
      BY <3>1, <3>4, <3>5, <3>6 DEF TypeOK, Visiting, Waiting
  <2>2. CASE TimedList
    <3>1. /\ pc = "list"
          /\ listed' = IF pc' = "clouds" THEN todo' ELSE {}
          /\ steady' = listed \cap listed'
          /\ pc' \in {"clouds", "returned"}
          /\ busy' = busy
      BY <2>2 DEF TimedList, ListClouds
    <3>2. \A c \in DOMAIN CloudCaches' : c \in DOMAIN CloudCaches /\ Age(c)' = Age(c)
      BY <2>2 DEF TimedList, ListClouds, TypeOK, Age
    <3>3. QED
      BY <2>0, <3>1, <3>2 DEF Ages, Visiting, Waiting, Cached
  <2>3. CASE TimedEnd
    <3>1. /\ pc = "clouds" /\ pc' = "select" /\ todo = {} /\ cloud = NoCloud
          /\ UNCHANGED <<CloudCaches, listed, steady, toCollect, collectTick>>
      BY <2>3 DEF TimedEnd, EndCollection, cacheVars, tickVars, TypeOK
    <3>2. \A c \in Cached(listed) : Age(c) <= busy
      BY <3>1, ConfigAssumption DEF Ages, Visiting, Cached, TypeOK
    <3>3. busy <= MaxBusy /\ (~collectTick => busy + toCollect <= CollectPeriod)
      BY <3>1 DEF Clock, Collecting
    <3>4. \A c \in Cached(listed) :
            Age(c)' <= Longest /\ (~collectTick => Age(c)' + toCollect <= CollectPeriod)
      BY <2>0, <3>1, <3>2, <3>3 DEF Cached, Clock, TypeOK, Age
    <3>5. QED
      BY <3>1, <3>4 DEF Ages, Visiting, Waiting, Cached
  <2>4. ASSUME NEW c \in Clouds, VisitCloud(c), UNCHANGED <<busy, listed, steady>>
        PROVE  Ages'
    <3>1. /\ pc = "clouds" /\ pc' = "enable"
          /\ todo' = todo \ {c} /\ cloud' = c
          /\ CloudCaches' = CloudCaches
      BY <2>4 DEF VisitCloud, cacheVars
    <3>2. cloud = NoCloud /\ NoCloud \notin DOMAIN CloudCaches
      BY <3>1, ConfigAssumption DEF TypeOK
    <3>3. \A d \in DOMAIN CloudCaches :
            d \notin todo' \cup {c} => d \notin todo \cup {cloud}
      BY <3>1, <3>2
    <3>4. QED
      BY <2>4, <3>1, <3>3 DEF Ages, Visiting, Waiting, Cached, Age
  <2>5. CASE Publish /\ UNCHANGED <<busy, listed, steady>>
    <3>1. /\ pc = "enable" /\ pc' = "clouds" /\ cloud \in Clouds
          /\ cloud' = NoCloud /\ todo' = todo
      BY <2>5 DEF Publish, TypeOK
    <3>2. \A c \in DOMAIN CloudCaches' :
            \/ Age(c)' = 0
            \/ c \in DOMAIN CloudCaches /\ Age(c)' = Age(c) /\ c # cloud
      BY <2>5 DEF Publish, SetCloudCache, Age
    <3>3. busy \in Nat
      BY DEF Clock
    <3>4. QED
      BY <2>5, <3>1, <3>2, <3>3 DEF Ages, Visiting, Waiting, Cached
  <2>6. CASE (EnableExporter \/ SkipService \/ \E fs \in SUBSET Families : Gather(fs))
             /\ UNCHANGED <<busy, listed, steady>>
    <3>1. /\ pc \in {"enable", "gather"} /\ pc' \in {"enable", "gather"}
          /\ UNCHANGED <<CloudCaches, todo, cloud>>
      BY <2>6 DEF EnableExporter, SkipService, Gather, cacheVars
    <3>2. QED
      BY <2>6, <3>1 DEF Ages, Visiting, Waiting, Cached, Age
  <2>7. CASE SelectCollect /\ UNCHANGED <<busy, listed, steady>>
    <3>1. /\ pc = "select" /\ pc' = "list" /\ CloudCaches' = CloudCaches
      BY <2>7 DEF SelectCollect, cacheVars
    <3>2. busy = 0
      BY <3>1 DEF Clock, Waiting
    <3>3. QED
      BY <2>0, <2>7, <3>1, <3>2 DEF Ages, Visiting, Waiting, Cached, Age
  <2>8. CASE SelectFlush /\ UNCHANGED <<busy, listed, steady>>
    <3>1. /\ pc = "select" /\ pc' = "flush"
          /\ UNCHANGED <<CloudCaches, collectTick, toCollect>>
      BY <2>8 DEF SelectFlush, cacheVars
    <3>2. QED
      BY <2>8, <3>1 DEF Ages, Visiting, Waiting, Cached, Age
  <2>9. CASE Flush /\ UNCHANGED <<busy, listed, steady>>
    <3>1. /\ pc = "flush" /\ pc' = "select" /\ UNCHANGED <<collectTick, toCollect>>
      BY <2>9 DEF Flush, tickVars
    <3>2. \A c \in DOMAIN CloudCaches' : c \in DOMAIN CloudCaches /\ Age(c)' = Age(c)
      BY <2>9 DEF Flush, FlushExpired, Age
    <3>3. QED
      BY <2>9, <3>1, <3>2 DEF Ages, Visiting, Waiting, Cached
  <2>10. CASE SelectDone /\ UNCHANGED <<busy, listed, steady>>
    <3>1. /\ pc = "select" /\ pc' = "returned" /\ CloudCaches' = CloudCaches
      BY <2>10 DEF SelectDone, cacheVars
    <3>2. \A c \in Cached(steady) : Age(c) <= Longest
      BY <3>1 DEF Ages, Waiting, Cached
    <3>3. QED
      BY <2>0, <2>10, <3>1, <3>2 DEF Ages, Visiting, Waiting, Cached, Age
  <2>11. CASE \/ /\ EditConfig \/ Signal \/ WebError \/ MainReturns
                 /\ UNCHANGED <<busy, listed, steady>>
              \/ UNCHANGED timingVars
    <3>1. UNCHANGED <<CloudCaches, pc, todo, cloud, busy, listed, steady, collectTick,
                      toCollect>>
      BY <2>11
      DEF EditConfig, Signal, WebError, MainReturns, cacheVars, bgVars, tickVars,
          timingVars, vars
    <3>2. QED
      BY <3>1 DEF Ages, Visiting, Waiting, Cached, Age
  <2>12. QED
    BY <2>1, <2>2, <2>3, <2>4, <2>5, <2>6, <2>7, <2>8, <2>9, <2>10, <2>11
    DEF TimingNext, Untimed
<1>3. QED
  BY <1>1, <1>2, TimingImplementsService, TypeCorrect, ClockInvariant, PTL DEF TimingSpec

\* With collections of any length, what is served for a cloud that stays in
\* clouds.yaml is at most as old as one collection and the longer of the collect
\* period and a collection.
THEOREM ListedAgesAreBounded == TimingSpec => []ListedAgeBound
<1>1. TypeOK /\ Clock /\ Ages => ListedAgeBound
  <2> SUFFICES ASSUME TypeOK, Clock, Ages, NEW c \in Cached(steady)
               PROVE  Age(c) <= Longest + MaxBusy
    BY LongestFacts DEF ListedAgeBound, Cached, Age, Longest
  <2>1. Age(c) \in Nat
    BY DEF TypeOK, Cached, Age
  <2>2. c \in Cached(listed)
    BY DEF Ages, Cached
  <2>3. CASE pc = "list" \/ Visiting
    BY <2>1, <2>2, <2>3, LongestFacts DEF Ages, Clock, Collecting, Visiting
  <2>4. CASE Waiting
    BY <2>1, <2>2, <2>4, LongestFacts DEF Ages
  <2>5. CASE pc = "returned"
    BY <2>5 DEF Ages
  <2>6. QED
    BY <2>3, <2>4, <2>5 DEF TypeOK, Visiting, Waiting
<1>2. QED
  BY <1>1, TimingImplementsService, TypeCorrect, ClockInvariant, AgesInvariant, PTL

\* A step in which an entry goes is a flush that finds it older than the TTL.
LEMMA OnlyFlushDrops ==
  ASSUME TypeOK, [TimingNext]_timingVars,
         NEW c \in DOMAIN CloudCaches, c \notin DOMAIN CloudCaches'
  PROVE  pc = "flush" /\ Age(c) > TTL
<1>1. CASE Flush
  BY <1>1 DEF Flush, FlushExpired, Expired, Age
<1>2. CASE ~Flush
  <2>1. DOMAIN CloudCaches \subseteq DOMAIN CloudCaches'
    BY <1>2
    DEF TimingNext, TimedTick, TimedList, TimedEnd, Untimed, Tick, ListClouds,
        EndCollection, VisitCloud, EnableExporter, SkipService, Gather, Publish,
        SetCloudCache, SelectCollect, SelectFlush, SelectDone, EditConfig, Signal,
        WebError, MainReturns, cacheVars, timingVars, vars
  <2>2. QED
    BY <2>1
<1>3. QED
  BY <1>1, <1>2

\* As long as no collection is longer than the TTL, no flush drops the entry of a
\* cloud that the last collection listed.
THEOREM ListedCloudsStay ==
  ASSUME MaxBusy <= TTL
  PROVE  TimingSpec => NoGap
<1>1. TypeOK /\ Ages /\ [TimingNext]_timingVars =>
        \A c \in DOMAIN CloudCaches : c \notin DOMAIN CloudCaches' => c \notin listed
  <2> SUFFICES ASSUME TypeOK, Ages, [TimingNext]_timingVars,
                      NEW c \in DOMAIN CloudCaches, c \notin DOMAIN CloudCaches',
                      c \in listed
               PROVE  FALSE
    OBVIOUS
  <2>1. pc = "flush" /\ Age(c) > TTL
    BY OnlyFlushDrops
  <2>2. Age(c) <= Longest
    BY <2>1 DEF Ages, Waiting, Cached
  <2>3. Longest <= TTL
    BY PeriodFacts DEF Longest, CollectPeriod
  <2>4. QED
    BY <2>1, <2>2, <2>3, LongestFacts, PeriodFacts DEF TypeOK, Age
<1>2. QED
  BY <1>1, TimingImplementsService, TypeCorrect, AgesInvariant, PTL
  DEF TimingSpec, NoGap
==============================================================================
