--------------------------- MODULE CacheService ---------------------------
(***************************************************************************)
(* The cached mode of the exporter: the goroutine cacheBackgroundService   *)
(* (main.go), the collection it runs (cache/utils.go, CollectCache), the   *)
(* cache it fills and flushes (cache/cache.go) and the way the process     *)
(* ends (main).  The handlers, and the mutex and the maps behind the three *)
(* cache operations, atomic here, are in InMemoryCache.tla.                *)
(*                                                                         *)
(* Time advances in ticks.  A cached entry has an age where the code has a *)
(* time stamp, so that a behaviour may be as long as it likes: ages        *)
(* saturate at AgeCap, past every comparison the code makes.               *)
(***************************************************************************)
EXTENDS Naturals, Sequences

CONSTANTS
  Clouds,        \* every cloud that clouds.yaml may define
  CloudArg,      \* the positional argument: a set of one cloud, or of none
  MultiCloud,    \* --multi-cloud
  ServiceOrder,  \* the enabled services, in the order CollectCache takes them
  Families,      \* names of metric families
  Outcomes,      \* Outcomes[s]: the sets of families a Gather of s may return
  TTL,           \* --cache-ttl, in ticks
  Configs,       \* what clouds.yaml may hold: sets of clouds, or Unreadable
  Unreadable,    \* a clouds.yaml that LoadCloudsYAML cannot load
  NoCloud,       \* CollectCache is between two clouds
  NoSnapshot     \* CloudStore: nothing is cached

Services == {ServiceOrder[i] : i \in 1..Len(ServiceOrder)}

ASSUME ConfigAssumption ==
  /\ MultiCloud \in BOOLEAN
  /\ CloudArg \subseteq Clouds
  /\ \A a, b \in CloudArg : a = b
  /\ NoCloud \notin Clouds
  /\ Configs \subseteq (SUBSET Clouds) \cup {Unreadable}

ASSUME ServiceAssumption ==
  /\ ServiceOrder \in Seq(Services)
  /\ Outcomes \in [Services -> SUBSET SUBSET Families]

ASSUME SnapshotAssumption ==
  NoSnapshot \notin UNION {[D -> Services] : D \in SUBSET Families}

\* time.NewTicker panics on a period that is not positive, so TTL / 2 is.
ASSUME TTLAssumption == TTL \in Nat /\ TTL >= 2

CollectPeriod == TTL \div 2
AgeCap == 2 * TTL + 1

---------------------------------------------------------------------------
VARIABLES
  CloudCaches,  \* InMemoryCache.CloudCaches: a map from clouds to CloudCache
  config,       \* the clouds that clouds.yaml defines now, or Unreadable
  pc,           \* where cacheBackgroundService is
  todo,         \* clouds that the running collection has still to visit
  cloud,        \* the cloud it is visiting
  next,         \* index in ServiceOrder of the service it visits next
  building,     \* cloudCache.MetricFamilyCaches, not published yet
  got,          \* history: <<service, family>> gathered for this cloud
  toCollect,    \* ticks until collectTicker fires
  toFlush,      \* ticks until ttlTicker fires
  collectTick,  \* collectTicker.C holds a tick
  flushTick,    \* ttlTicker.C holds a tick
  cause,        \* why the context was cancelled
  exited        \* main has returned: nothing runs any more

cacheVars == <<CloudCaches>>
bgVars    == <<pc, todo, cloud, next, building, got>>
tickVars  == <<toCollect, toFlush, collectTick, flushTick>>
procVars  == <<cause, exited>>
vars      == <<CloudCaches, config, pc, todo, cloud, next, building, got,
               toCollect, toFlush, collectTick, flushTick, cause, exited>>

---------------------------------------------------------------------------
(* Metric families.  An entry of a MetricFamilyCaches map names the        *)
(* exporter it came from; its samples are abstracted to whether they were  *)
(* gathered by the collection that runs now (or ran last) or by an         *)
(* earlier one.                                                            *)

Entry == [service : Services, gathered : {"this", "earlier"}]

IsFamilyMap(m) == /\ DOMAIN m \subseteq Families
                  /\ \A f \in DOMAIN m : m[f] \in Entry

FromOneCollection(m) == \A f, g \in DOMAIN m : m[f].gathered = m[g].gathered

\* SetMetricFamilyCache for every family in fs: a name already in the map is
\* taken over by the service that sets it last.
SetFamilies(m, s, fs) ==
  [f \in DOMAIN m \cup fs |->
     IF f \in fs THEN [service |-> s, gathered |-> "this"] ELSE m[f]]

\* NewCloudCache
NewFamilyMap == [f \in {} |-> [service |-> "", gathered |-> "this"]]

\* Mutant of StartFamilies: update the cached map instead of a new one.
StartFromCached(c) == IF c \in DOMAIN CloudCaches THEN CloudCaches[c].mfs
                                                  ELSE NewFamilyMap

\* The map that CollectCache fills for cloud c.
StartFamilies(c) == NewFamilyMap

\* What a snapshot looks like once a later collection has begun.
AsEarlier(m) == [f \in DOMAIN m |-> [m[f] EXCEPT !.gathered = "earlier"]]

---------------------------------------------------------------------------
(* The cache operations of cache/cache.go.                                 *)

\* Mutant of SetCloudCache: the time stamp is only set with the first entry.
SetKeepingTime(c, m) ==
  CloudCaches' = [d \in DOMAIN CloudCaches \cup {c} |->
                    IF d # c THEN CloudCaches[d]
                    ELSE IF c \in DOMAIN CloudCaches
                           THEN [CloudCaches[c] EXCEPT !.mfs = m]
                           ELSE [age |-> 0, mfs |-> m]]

\* SetCloudCache: the time stamp is the time of this call.
SetCloudCache(c, m) ==
  CloudCaches' = [d \in DOMAIN CloudCaches \cup {c} |->
                    IF d = c THEN [age |-> 0, mfs |-> m] ELSE CloudCaches[d]]

\* Mutants of Expired: an entry as old as the TTL has expired; the TTL is counted
\* from the next collection.
ExpiredOnTime(c) == CloudCaches[c].age >= TTL

ExpiredLate(c) == CloudCaches[c].age > TTL + CollectPeriod

\* now.After(Time + ttl): strictly older than the TTL.
Expired(c) == CloudCaches[c].age > TTL

\* Mutant of FlushExpired: only the clouds of clouds.yaml are looked at.
FlushConfigured ==
  CloudCaches' = [c \in {d \in DOMAIN CloudCaches :
                           ~(Expired(d) /\ config # Unreadable /\ d \in config)}
                    |-> CloudCaches[c]]

\* FlushExpiredCloudCaches
FlushExpired ==
  CloudCaches' = [c \in {d \in DOMAIN CloudCaches : ~Expired(d)} |-> CloudCaches[c]]

\* BufferFromCache(c, want): the families a handler writes for the services it
\* was asked for.  No look at the age: GetCloudCache returns whatever is there.
BufferFromCache(c, want) ==
  IF c \in DOMAIN CloudCaches
    THEN {f \in DOMAIN CloudCaches[c].mfs : CloudCaches[c].mfs[f].service \in want}
    ELSE {}

---------------------------------------------------------------------------
Init ==
  /\ CloudCaches = [c \in {} |-> [age |-> 0, mfs |-> NewFamilyMap]]
  /\ config \in Configs
  /\ pc = "list"
  /\ todo = {}
  /\ cloud = NoCloud
  /\ next = 1
  /\ building = NewFamilyMap
  /\ got = {}
  /\ toCollect = CollectPeriod
  /\ toFlush = TTL
  /\ collectTick = FALSE
  /\ flushTick = FALSE
  /\ cause = "none"
  /\ exited = FALSE

\* cancel(err), and what signal.NotifyContext does: the first cause stays.
Cancel(why) == cause' = IF cause = "none" THEN why ELSE cause

---------------------------------------------------------------------------
(* CollectCache                                                            *)

\* Mutant of ListClouds: the error is logged and the goroutine just returns.
ListCloudsSilently ==
  /\ ~exited
  /\ pc = "list"
  /\ IF MultiCloud /\ config = Unreadable
       THEN /\ pc' = "returned"
            /\ UNCHANGED <<CloudCaches, todo>>
       ELSE /\ pc' = "clouds"
            /\ todo' = IF MultiCloud THEN config ELSE CloudArg
            /\ UNCHANGED CloudCaches
  /\ UNCHANGED <<config, cloud, next, building, got, tickVars, procVars>>

\* The list of clouds, or the error of LoadCloudsYAML: then the goroutine
\* cancels the context and returns (main.go:223-227 and 232-235).
ListClouds ==
  /\ ~exited
  /\ pc = "list"
  /\ IF MultiCloud /\ config = Unreadable
       THEN /\ pc' = "returned"
            /\ Cancel("error")
            /\ UNCHANGED <<CloudCaches, todo>>
       ELSE /\ pc' = "clouds"
            /\ todo' = IF MultiCloud THEN config ELSE CloudArg
            /\ CloudCaches' = [c \in DOMAIN CloudCaches |->
                 [CloudCaches[c] EXCEPT !.mfs = AsEarlier(CloudCaches[c].mfs)]]
            /\ UNCHANGED cause
  /\ UNCHANGED <<config, cloud, next, building, got, tickVars, exited>>

\* The next cloud of the (unordered) list starts from an empty CloudCache.
VisitCloud(c) ==
  /\ ~exited
  /\ pc = "clouds"
  /\ c \in todo
  /\ pc' = "enable"
  /\ todo' = todo \ {c}
  /\ cloud' = c
  /\ next' = 1
  /\ building' = StartFamilies(c)
  /\ got' = {}
  /\ UNCHANGED <<cacheVars, config, tickVars, procVars>>

\* enableExporterFunc reads clouds.yaml again: it can only succeed for a cloud
\* that is still there.
CloudIsDefined == config # Unreadable /\ cloud \in config

EnableExporter ==
  /\ ~exited
  /\ pc = "enable"
  /\ next <= Len(ServiceOrder)
  /\ CloudIsDefined
  /\ pc' = "gather"
  /\ UNCHANGED <<cacheVars, config, todo, cloud, next, building, got,
                 tickVars, procVars>>

\* Mutants of SkipService: what was gathered for the cloud is thrown away; the
\* cloud is given up.
SkipServiceForgetting ==
  /\ ~exited
  /\ pc \in {"enable", "gather"}
  /\ next <= Len(ServiceOrder)
  /\ pc' = "enable"
  /\ next' = next + 1
  /\ building' = NewFamilyMap
  /\ UNCHANGED <<cacheVars, config, todo, cloud, got, tickVars, procVars>>

SkipCloud ==
  /\ ~exited
  /\ pc \in {"enable", "gather"}
  /\ next <= Len(ServiceOrder)
  /\ pc' = "clouds"
  /\ UNCHANGED <<cacheVars, config, todo, cloud, next, building, got,
                 tickVars, procVars>>

\* enableExporterFunc or registry.Gather fails: log the error and continue with
\* the next service.
SkipService ==
  /\ ~exited
  /\ pc \in {"enable", "gather"}
  /\ next <= Len(ServiceOrder)
  /\ pc' = "enable"
  /\ next' = next + 1
  /\ UNCHANGED <<cacheVars, config, todo, cloud, building, got,
                 tickVars, procVars>>

Gather(fs) ==
  /\ ~exited
  /\ pc = "gather"
  /\ fs \in Outcomes[ServiceOrder[next]]
  /\ pc' = "enable"
  /\ next' = next + 1
  /\ building' = SetFamilies(building, ServiceOrder[next], fs)
  /\ got' = got \cup {<<ServiceOrder[next], f>> : f \in fs}
  /\ UNCHANGED <<cacheVars, config, todo, cloud, tickVars, procVars>>

\* Every service has been visited: the snapshot is published as a whole.
Publish ==
  /\ ~exited
  /\ pc = "enable"
  /\ next > Len(ServiceOrder)
  /\ SetCloudCache(cloud, building)
  /\ pc' = "clouds"
  /\ cloud' = NoCloud
  /\ next' = 1
  /\ building' = NewFamilyMap
  /\ got' = {}
  /\ UNCHANGED <<config, todo, tickVars, procVars>>

EndCollection ==
  /\ ~exited
  /\ pc = "clouds"
  /\ todo = {}
  /\ pc' = "select"
  /\ UNCHANGED <<cacheVars, config, todo, cloud, next, building, got,
                 tickVars, procVars>>

---------------------------------------------------------------------------
(* The select of cacheBackgroundService.  When several cases are ready the *)
(* runtime picks one of them at random.                                    *)

SelectCollect ==
  /\ ~exited
  /\ pc = "select"
  /\ collectTick
  /\ collectTick' = FALSE
  /\ pc' = "list"
  /\ UNCHANGED <<cacheVars, config, todo, cloud, next, building, got,
                 toCollect, toFlush, flushTick, procVars>>

\* Mutant of SelectFlush: collecting has priority over flushing.
SelectFlushIdle ==
  /\ ~exited
  /\ pc = "select"
  /\ flushTick /\ ~collectTick
  /\ flushTick' = FALSE
  /\ pc' = "flush"
  /\ UNCHANGED <<cacheVars, config, todo, cloud, next, building, got,
                 toCollect, toFlush, collectTick, procVars>>

SelectFlush ==
  /\ ~exited
  /\ pc = "select"
  /\ flushTick
  /\ flushTick' = FALSE
  /\ pc' = "flush"
  /\ UNCHANGED <<cacheVars, config, todo, cloud, next, building, got,
                 toCollect, toFlush, collectTick, procVars>>

Flush ==
  /\ ~exited
  /\ pc = "flush"
  /\ FlushExpired
  /\ pc' = "select"
  /\ UNCHANGED <<config, todo, cloud, next, building, got, tickVars, procVars>>

SelectDone ==
  /\ ~exited
  /\ pc = "select"
  /\ cause # "none"
  /\ pc' = "returned"
  /\ UNCHANGED <<cacheVars, config, todo, cloud, next, building, got,
                 tickVars, procVars>>

Collection == \/ ListClouds \/ EnableExporter \/ SkipService \/ Publish
              \/ EndCollection
              \/ \E c \in Clouds : VisitCloud(c)
              \/ \E fs \in SUBSET Families : Gather(fs)

Background == Collection \/ SelectCollect \/ SelectFlush \/ Flush \/ SelectDone

---------------------------------------------------------------------------
(* The environment.                                                        *)

\* A ticker whose channel still holds a tick drops the new one.
Tick ==
  /\ ~exited
  /\ toCollect' = IF toCollect = 1 THEN CollectPeriod ELSE toCollect - 1
  /\ collectTick' = (collectTick \/ toCollect = 1)
  /\ toFlush' = IF toFlush = 1 THEN TTL ELSE toFlush - 1
  /\ flushTick' = (flushTick \/ toFlush = 1)
  /\ CloudCaches' = [c \in DOMAIN CloudCaches |->
       [CloudCaches[c] EXCEPT
          !.age = IF CloudCaches[c].age < AgeCap THEN CloudCaches[c].age + 1
                                                 ELSE AgeCap]]
  /\ UNCHANGED <<config, bgVars, procVars>>

\* Somebody edits clouds.yaml.
EditConfig ==
  /\ ~exited
  /\ config' \in Configs \ {config}
  /\ UNCHANGED <<cacheVars, bgVars, tickVars, procVars>>

\* SIGINT or SIGTERM, or an error of the web server (main.go:299-304).
Signal ==
  /\ ~exited
  /\ cause = "none"
  /\ cause' = "signal"
  /\ UNCHANGED <<cacheVars, config, bgVars, tickVars, exited>>

WebError ==
  /\ ~exited
  /\ cause = "none"
  /\ cause' = "error"
  /\ UNCHANGED <<cacheVars, config, bgVars, tickVars, exited>>

\* main waits for the context only, not for the goroutines it started.
MainReturns ==
  /\ ~exited
  /\ cause # "none"
  /\ exited' = TRUE
  /\ UNCHANGED <<cacheVars, config, bgVars, tickVars, cause>>

Next == Background \/ Tick \/ EditConfig \/ Signal \/ WebError \/ MainReturns

Spec == Init /\ [][Next]_vars

\* The API calls of a collection answer or fail, the clock goes on, a cancelled
\* main returns; select picks among its ready cases at random, so a case that is
\* ready again and again is picked (strong fairness).
Fairness ==
  /\ WF_vars(Collection)
  /\ WF_vars(Flush)
  /\ SF_vars(SelectCollect)
  /\ SF_vars(SelectFlush)
  /\ SF_vars(SelectDone)
  /\ WF_vars(Tick)
  /\ WF_vars(MainReturns)

FairSpec == Spec /\ Fairness

---------------------------------------------------------------------------
(* Properties.                                                             *)

TypeOK ==
  /\ DOMAIN CloudCaches \subseteq Clouds
  /\ \A c \in DOMAIN CloudCaches :
       /\ CloudCaches[c] = [age |-> CloudCaches[c].age, mfs |-> CloudCaches[c].mfs]
       /\ CloudCaches[c].age \in 0..AgeCap
       /\ IsFamilyMap(CloudCaches[c].mfs)
  /\ config \in Configs
  /\ pc \in {"list", "clouds", "enable", "gather", "select", "flush", "returned"}
  /\ todo \subseteq Clouds
  /\ cloud \in Clouds \cup {NoCloud}
  /\ (cloud # NoCloud) <=> (pc \in {"enable", "gather"})
  /\ next \in 1..Len(ServiceOrder) + 1
  /\ pc = "gather" => next <= Len(ServiceOrder)
  /\ IsFamilyMap(building)
  /\ got \subseteq Services \X Families
  /\ toCollect \in 1..CollectPeriod
  /\ toFlush \in 1..TTL
  /\ collectTick \in BOOLEAN
  /\ flushTick \in BOOLEAN
  /\ cause \in {"none", "error", "signal"}
  /\ exited \in BOOLEAN

\* "so we won't mix the old and new metrics in the cache and confuse users"
\* (cache/utils.go:63-64): the families of a cached snapshot all come from one
\* collection, whatever failed and whenever clouds.yaml was edited.
NoMix == \A c \in DOMAIN CloudCaches : FromOneCollection(CloudCaches[c].mfs)

\* A cached entry may outlive the TTL, as the flush only runs once per TTL and
\* only between collections, but whenever no flush is due its age is below twice
\* the TTL (main.go:217-243, cache.go:127-137).
StaleBound ==
  ~flushTick /\ pc # "flush" =>
    \A c \in DOMAIN CloudCaches : CloudCaches[c].age < 2 * TTL

\* One exporter that cannot be enabled or gathered costs the snapshot nothing of
\* what the other exporters of the cloud returned (cache/utils.go:71-85).
NothingLost ==
  /\ DOMAIN building = {p[2] : p \in got}
  /\ \A f \in DOMAIN building : <<building[f].service, f>> \in got

\* README: "Metric collection time (only if --collect-metric-time is passed)",
\* one openstack_metric_collect_seconds per exporter: what a Gather returned is
\* still there, under its exporter, when the snapshot is published.
EveryGatherKept ==
  \A p \in got : p[2] \in DOMAIN building /\ building[p[2]].service = p[1]

\* The time-stamped cache is a CloudStore: snapshots appear as a whole and only
\* those older than the TTL are dropped.  The handlers are left out.
Attributed(m) == [f \in DOMAIN m |-> m[f].service]

PublishedSnapshots == [c \in Clouds |-> IF c \in DOMAIN CloudCaches
                                          THEN Attributed(CloudCaches[c].mfs)
                                          ELSE NoSnapshot]

StaleClouds == {c \in DOMAIN CloudCaches : Expired(c)}

Store == INSTANCE CloudStore WITH
  Readers <- {},
  NoAnswer <- NoSnapshot,
  Failed <- NoSnapshot,
  published <- PublishedSnapshots,
  stale <- StaleClouds,
  answer <- [r \in {} |-> NoSnapshot]

ImplementsStore == Store!Spec

\* A cloud that a collection has listed is published, whatever its exporters and
\* the clouds before it do, unless the process ends first.
ListedCloudPublished ==
  \A c \in Clouds : c \in todo ~> c \in DOMAIN CloudCaches \/ exited

\* A flush that is due is run, however long collections take: select cannot
\* starve it.
DueFlushRuns == flushTick ~> ~flushTick \/ exited

\* A cloud that stays out of clouds.yaml is forgotten, although a collection that
\* listed it before may still publish it.
RemovedCloudForgotten ==
  \A c \in Clouds :
    <>[](MultiCloud /\ config # Unreadable /\ c \notin config)
      => <>[](c \notin DOMAIN CloudCaches \/ exited)

\* The process does not go on serving without the goroutine that fills and
\* flushes the cache.
NoOrphanedServer == pc = "returned" ~> exited
=============================================================================
