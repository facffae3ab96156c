--------------------------- MODULE InMemoryCache ---------------------------
(***************************************************************************)
(* InMemoryCache (cache/cache.go) step by step: its mutex, its map of      *)
(* clouds, and the MetricFamilyCaches maps that the map of clouds, the     *)
(* collector and the handlers share by reference.  One goroutine, the      *)
(* background service, builds and publishes snapshots and flushes expired  *)
(* ones; any number of handlers read (cache/utils.go, BufferFromCache).    *)
(*                                                                         *)
(* GetCloudCache copies the CloudCache struct under the mutex, but the     *)
(* copy shares the map, which the handler then ranges over without it.     *)
(***************************************************************************)
EXTENDS FiniteSets

CONSTANTS
  Clouds,
  Readers,      \* HTTP handlers
  Collector,    \* the background goroutine
  Families,
  Services,
  Refs,         \* addresses of MetricFamilyCaches maps
  NoRef, NoCloud, NoSnapshot, NoAnswer, Failed,
  Free          \* nobody holds the mutex

ASSUME ProcessAssumption ==
  /\ Collector \notin Readers
  /\ Free \notin Readers \cup {Collector}
  /\ NoRef \notin Refs
  /\ NoCloud \notin Clouds

\* What stands for no snapshot and for no answer is neither.
ASSUME AnswerAssumption ==
  /\ NoSnapshot \notin UNION {[D -> Services] : D \in SUBSET Families}
  /\ \A S \in SUBSET Families : S # NoAnswer
  /\ Failed # NoAnswer

VARIABLES
  mu,           \* InMemoryCache.mu: who holds it
  CloudCaches,  \* the map from clouds to [ref, old]: old stands for a Time
                \* that is more than the TTL ago
  mem,          \* the MetricFamilyCaches map at each address in use
  pc,           \* of each process
  cloud,        \* the cloud each process works for
  ref,          \* the map each process holds: a handler's copy, or the map
                \* the collector builds
  placed,       \* history: the cloud whose entry init has just put there
  visit,        \* flush: clouds still to be looked at
  want,         \* services a handler was asked for
  seen,         \* families a handler has ranged over
  out           \* what it has written so far

vars == <<mu, CloudCaches, mem, pc, cloud, ref, placed, visit, want, seen, out>>

Processes == Readers \cup {Collector}

Move(p, from, to) == pc[p] = from /\ pc' = [pc EXCEPT ![p] = to]

\* The maps something still refers to; the others are garbage.
Reachable == ({CloudCaches[c].ref : c \in DOMAIN CloudCaches}
              \cup {ref[p] : p \in Processes}) \ {NoRef}

KeepReachable == mem' = [a \in Reachable' |-> mem[a]]

Unused == Refs \ DOMAIN mem

Put(f, k, v) == [j \in DOMAIN f \cup {k} |-> IF j = k THEN v ELSE f[j]]
Delete(f, k) == [j \in DOMAIN f \ {k} |-> f[j]]
EmptyMap == [k \in {} |-> NoRef]

Init ==
  /\ mu = Free
  /\ CloudCaches = EmptyMap
  /\ mem = EmptyMap
  /\ pc = [p \in Processes |-> "idle"]
  /\ cloud = [p \in Processes |-> NoCloud]
  /\ ref = [p \in Processes |-> NoRef]
  /\ placed = NoCloud
  /\ visit = {}
  /\ want = [r \in Readers |-> {}]
  /\ seen = [r \in Readers |-> {}]
  /\ out = [r \in Readers |-> {}]

---------------------------------------------------------------------------
(* The collector.                                                          *)

\* Mutant of NewCloudCache: go on with the map that is cached.
ReuseCloudCache(c) ==
  /\ Move(Collector, "idle", "build")
  /\ cloud' = [cloud EXCEPT ![Collector] = c]
  /\ IF c \in DOMAIN CloudCaches
       THEN /\ ref' = [ref EXCEPT ![Collector] = CloudCaches[c].ref]
            /\ UNCHANGED mem
       ELSE \E a \in Unused : /\ ref' = [ref EXCEPT ![Collector] = a]
                              /\ mem' = Put(mem, a, EmptyMap)
  /\ UNCHANGED <<mu, CloudCaches, placed, visit, want, seen, out>>

NewCloudCache(c) ==
  /\ Move(Collector, "idle", "build")
  /\ cloud' = [cloud EXCEPT ![Collector] = c]
  /\ \E a \in Unused : /\ ref' = [ref EXCEPT ![Collector] = a]
                       /\ mem' = Put(mem, a, EmptyMap)
  /\ UNCHANGED <<mu, CloudCaches, placed, visit, want, seen, out>>

SetMetricFamilyCache(f, s) ==
  /\ pc[Collector] = "build"
  /\ mem' = [mem EXCEPT ![ref[Collector]] = Put(mem[ref[Collector]], f, s)]
  /\ UNCHANGED <<mu, CloudCaches, pc, cloud, ref, placed, visit, want, seen, out>>

\* SetCloudCache: lock, init, replace, unlock.
SetLock ==
  /\ mu = Free
  /\ mu' = Collector
  /\ Move(Collector, "build", "init")
  /\ UNCHANGED <<CloudCaches, mem, cloud, ref, placed, visit, want, seen, out>>

\* Mutant of SetInit: the placeholder has no map.
SetInitNil ==
  LET c == cloud[Collector] IN
  /\ Move(Collector, "init", "store")
  /\ IF c \in DOMAIN CloudCaches
       THEN UNCHANGED <<CloudCaches, placed>>
       ELSE /\ CloudCaches' = Put(CloudCaches, c, [ref |-> NoRef, old |-> FALSE])
            /\ placed' = c
  /\ UNCHANGED <<mu, mem, cloud, ref, visit, want, seen, out>>

\* init puts an empty CloudCache where there is none.
SetInit ==
  LET c == cloud[Collector] IN
  /\ Move(Collector, "init", "store")
  /\ IF c \in DOMAIN CloudCaches
       THEN UNCHANGED <<CloudCaches, mem, placed>>
       ELSE \E a \in Unused :
              /\ CloudCaches' = Put(CloudCaches, c, [ref |-> a, old |-> FALSE])
              /\ mem' = Put(mem, a, EmptyMap)
              /\ placed' = c
  /\ UNCHANGED <<mu, cloud, ref, visit, want, seen, out>>

SetStore ==
  /\ Move(Collector, "store", "set")
  /\ CloudCaches' = Put(CloudCaches, cloud[Collector],
                        [ref |-> ref[Collector], old |-> FALSE])
  /\ ref' = [ref EXCEPT ![Collector] = NoRef]
  /\ placed' = NoCloud
  /\ UNCHANGED <<mu, cloud, visit, want, seen, out>>
  /\ KeepReachable

SetUnlock ==
  /\ mu' = Free
  /\ Move(Collector, "set", "idle")
  /\ cloud' = [cloud EXCEPT ![Collector] = NoCloud]
  /\ UNCHANGED <<CloudCaches, mem, ref, placed, visit, want, seen, out>>

\* FlushExpiredCloudCaches: lock, look at one key after the other, unlock.
FlushLock ==
  /\ mu = Free
  /\ mu' = Collector
  /\ Move(Collector, "idle", "flush")
  /\ visit' = DOMAIN CloudCaches
  /\ UNCHANGED <<CloudCaches, mem, cloud, ref, placed, want, seen, out>>

\* Mutant of FlushKey: no look at the time stamp.
FlushAnyKey(c) ==
  /\ pc[Collector] = "flush"
  /\ c \in visit
  /\ visit' = visit \ {c}
  /\ CloudCaches' = Delete(CloudCaches, c)
  /\ UNCHANGED <<mu, pc, cloud, ref, placed, want, seen, out>>
  /\ KeepReachable

FlushKey(c) ==
  /\ pc[Collector] = "flush"
  /\ c \in visit
  /\ visit' = visit \ {c}
  /\ CloudCaches' = IF CloudCaches[c].old THEN Delete(CloudCaches, c)
                                          ELSE CloudCaches
  /\ UNCHANGED <<mu, pc, cloud, ref, placed, want, seen, out>>
  /\ KeepReachable

FlushUnlock ==
  /\ visit = {}
  /\ mu' = Free
  /\ Move(Collector, "flush", "idle")
  /\ UNCHANGED <<CloudCaches, mem, cloud, ref, placed, visit, want, seen, out>>

Collect == \/ \E c \in Clouds : NewCloudCache(c) \/ FlushKey(c)
           \/ \E f \in Families, s \in Services : SetMetricFamilyCache(f, s)
           \/ SetLock \/ SetInit \/ SetStore \/ SetUnlock
           \/ FlushLock \/ FlushUnlock

---------------------------------------------------------------------------
(* A handler: BufferFromCache.                                             *)

Request(r, c, w) ==
  /\ Move(r, "idle", "lock")
  /\ cloud' = [cloud EXCEPT ![r] = c]
  /\ want' = [want EXCEPT ![r] = w]
  /\ UNCHANGED <<mu, CloudCaches, mem, ref, placed, visit, seen, out>>

\* Mutant of GetLock: GetCloudCache without the mutex.
GetNoLock(r) ==
  /\ Move(r, "lock", "get")
  /\ UNCHANGED <<mu, CloudCaches, mem, cloud, ref, placed, visit, want, seen, out>>

GetLock(r) ==
  /\ mu = Free
  /\ mu' = r
  /\ Move(r, "lock", "get")
  /\ UNCHANGED <<CloudCaches, mem, cloud, ref, placed, visit, want, seen, out>>

\* return *cacheData, true, or an empty CloudCache, false
GetCopy(r) ==
  /\ Move(r, "get", "got")
  /\ ref' = [ref EXCEPT ![r] = IF cloud[r] \in DOMAIN CloudCaches
                                 THEN CloudCaches[cloud[r]].ref ELSE NoRef]
  /\ UNCHANGED <<mu, CloudCaches, mem, cloud, placed, visit, want, seen, out>>

\* Mutant of GetUnlock: no deferred Unlock on the path without an entry.
GetUnlockFound(r) ==
  /\ mu' = IF ref[r] # NoRef THEN Free ELSE mu
  /\ Move(r, "got", "encode")
  /\ UNCHANGED <<CloudCaches, mem, cloud, ref, placed, visit, want, seen, out>>

GetUnlock(r) ==
  /\ mu' = Free
  /\ Move(r, "got", "encode")
  /\ UNCHANGED <<CloudCaches, mem, cloud, ref, placed, visit, want, seen, out>>

Held(r) == IF ref[r] = NoRef THEN EmptyMap ELSE mem[ref[r]]

\* One iteration of the range over MetricFamilyCaches.
Encode(r, f) ==
  /\ pc[r] = "encode"
  /\ f \in DOMAIN Held(r) \ seen[r]
  /\ seen' = [seen EXCEPT ![r] = @ \cup {f}]
  /\ out' = IF Held(r)[f] \in want[r] THEN [out EXCEPT ![r] = @ \cup {f}] ELSE out
  /\ UNCHANGED <<mu, CloudCaches, mem, pc, cloud, ref, placed, visit, want>>

\* MetricFamilyToText fails: the handler answers with status 500.
EncodeFails(r) ==
  /\ Move(r, "encode", "failed")
  /\ DOMAIN Held(r) \ seen[r] # {}
  /\ UNCHANGED <<mu, CloudCaches, mem, cloud, ref, placed, visit, want, seen, out>>

EncodeEnd(r) ==
  /\ Move(r, "encode", "answer")
  /\ DOMAIN Held(r) \subseteq seen[r]
  /\ UNCHANGED <<mu, CloudCaches, mem, cloud, ref, placed, visit, want, seen, out>>

Respond(r) ==
  /\ pc[r] \in {"answer", "failed"}
  /\ pc' = [pc EXCEPT ![r] = "idle"]
  /\ cloud' = [cloud EXCEPT ![r] = NoCloud]
  /\ ref' = [ref EXCEPT ![r] = NoRef]
  /\ want' = [want EXCEPT ![r] = {}]
  /\ seen' = [seen EXCEPT ![r] = {}]
  /\ out' = [out EXCEPT ![r] = {}]
  /\ UNCHANGED <<mu, CloudCaches, placed, visit>>
  /\ KeepReachable

Handle(r) == \/ \E c \in Clouds, w \in SUBSET Services : Request(r, c, w)
             \/ GetLock(r) \/ GetCopy(r) \/ GetUnlock(r)
             \/ \E f \in Families : Encode(r, f)
             \/ EncodeFails(r) \/ EncodeEnd(r) \/ Respond(r)

---------------------------------------------------------------------------
\* The TTL of a cached entry runs out.
GrowOld(c) ==
  /\ c \in DOMAIN CloudCaches
  /\ ~CloudCaches[c].old
  /\ CloudCaches' = [CloudCaches EXCEPT ![c].old = TRUE]
  /\ UNCHANGED <<mu, mem, pc, cloud, ref, placed, visit, want, seen, out>>

Next == Collect \/ (\E r \in Readers : Handle(r)) \/ (\E c \in Clouds : GrowOld(c))

Spec == Init /\ [][Next]_vars

\* Goroutines keep running, a sync.Mutex does not starve a waiter, a range ends.
Fairness ==
  /\ SF_vars(SetLock) /\ WF_vars(SetInit) /\ WF_vars(SetStore) /\ WF_vars(SetUnlock)
  /\ WF_vars(\E c \in Clouds : FlushKey(c)) /\ WF_vars(FlushUnlock)
  /\ \A r \in Readers :
       /\ SF_vars(GetLock(r)) /\ WF_vars(GetCopy(r)) /\ WF_vars(GetUnlock(r))
       /\ WF_vars(\E f \in Families : Encode(r, f)) /\ WF_vars(EncodeEnd(r))
       /\ WF_vars(Respond(r))

FairSpec == Spec /\ Fairness

---------------------------------------------------------------------------
(* Properties.                                                             *)

FamilyMaps == UNION {[D -> Services] : D \in SUBSET Families}

TypeOK ==
  /\ mu \in Processes \cup {Free}
  /\ DOMAIN CloudCaches \subseteq Clouds
  /\ \A c \in DOMAIN CloudCaches : CloudCaches[c] \in [ref : Refs, old : BOOLEAN]
  /\ DOMAIN mem = Reachable
  /\ \A a \in DOMAIN mem : mem[a] \in FamilyMaps
  /\ pc \in [Processes -> {"idle", "build", "init", "store", "set", "flush", "lock",
                           "get", "got", "encode", "answer", "failed"}]
  /\ cloud \in [Processes -> Clouds \cup {NoCloud}]
  /\ ref \in [Processes -> Refs \cup {NoRef}]
  /\ placed \in Clouds \cup {NoCloud}
  /\ visit \subseteq Clouds
  /\ want \in [Readers -> SUBSET Services]
  /\ seen \in [Readers -> SUBSET Families]
  /\ out \in [Readers -> SUBSET Families]

\* CloudCaches is a plain Go map: the process dies when a handler looks a cloud
\* up while the collector inserts or deletes one (cache.go:103-137), so every
\* access to it must lie inside a critical section.
MapGuarded ==
  \A r \in Readers :
    pc[r] = "get" => pc[Collector] \notin {"init", "store", "flush"}

\* The map the collector still writes to is nobody else's: a handler may range
\* over its map without the mutex, and never meets "concurrent map iteration and
\* map write" (cache.go:103-112, utils.go:65, 88 and 118).  Two clouds never share a map
\* either: a write for one is no write to the other.
OnlyCollectorWrites ==
  /\ pc[Collector] = "build" =>
       /\ \A r \in Readers : ref[r] # ref[Collector]
       /\ \A c \in DOMAIN CloudCaches : CloudCaches[c].ref # ref[Collector]
  /\ \A c, d \in DOMAIN CloudCaches :
       CloudCaches[c].ref = CloudCaches[d].ref => c = d

\* Every request is answered, whatever the collector does with the mutex.
RequestsAnswered ==
  \A r \in Readers : pc[r] = "lock" ~> pc[r] = "idle"

\* The store that callers see: init's empty placeholder is not part of it, and an
\* answer is fixed when the entry is copied, though it is written out later.
StoredClouds == DOMAIN CloudCaches \ {placed}

SeenBy(r) ==
  CASE pc[r] \in {"idle", "lock", "get"} -> NoAnswer
    [] pc[r] \in {"got", "encode"} ->
         {f \in DOMAIN Held(r) : Held(r)[f] \in want[r]}
    [] pc[r] = "answer" -> out[r]
    [] pc[r] = "failed" -> Failed

PublishedSnapshots == [c \in Clouds |-> IF c \in StoredClouds
                                          THEN mem[CloudCaches[c].ref]
                                          ELSE NoSnapshot]

StaleClouds == {c \in StoredClouds : CloudCaches[c].old}

Answers == [r \in Readers |-> SeenBy(r)]

Store == INSTANCE CloudStore WITH
  published <- PublishedSnapshots,
  stale <- StaleClouds,
  answer <- Answers

\* The mutex and the shared maps together behave like CloudStore.
ImplementsStore == Store!Spec
============================================================================
