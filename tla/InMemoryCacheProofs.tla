----------------------- MODULE InMemoryCacheProofs -----------------------
(***************************************************************************)
(* Proofs about InMemoryCache, for any number of clouds, handlers,         *)
(* families, services and addresses.                                       *)
(***************************************************************************)
EXTENDS InMemoryCache, Integers, FiniteSetTheorems, TLAPS

CollectorPlaces == {"idle", "build", "init", "store", "set", "flush"}
ReaderPlaces == {"idle", "lock", "get", "got", "encode", "answer", "failed"}

---------------------------------------------------------------------------
(* The mutex.                                                              *)

\* Every process is at a place of its own code, and the mutex is held by exactly
\* the process that is between a Lock and its Unlock.
Sections ==
  /\ mu \in Processes \cup {Free}
  /\ pc \in [Processes -> CollectorPlaces \cup ReaderPlaces]
  /\ pc[Collector] \in CollectorPlaces
  /\ \A r \in Readers : pc[r] \in ReaderPlaces
  /\ mu = Collector <=> pc[Collector] \in {"init", "store", "set", "flush"}
  /\ \A r \in Readers : mu = r <=> pc[r] \in {"get", "got"}

LEMMA SectionsInvariant == Spec => []Sections
<1> USE ProcessAssumption DEF Processes, CollectorPlaces, ReaderPlaces
<1>1. Init => Sections
  BY DEF Init, Sections
<1>2. Sections /\ [Next]_vars => Sections'
  <2> SUFFICES ASSUME Sections, [Next]_vars PROVE Sections'
    OBVIOUS
  <2> USE DEF Sections, Move
  <2>1. ASSUME NEW c \in Clouds, NewCloudCache(c) PROVE Sections'
    BY <2>1 DEF NewCloudCache
  <2>2. CASE SetLock
    BY <2>2 DEF SetLock
  <2>3. CASE SetInit
    BY <2>3 DEF SetInit
  <2>4. CASE SetStore
    BY <2>4 DEF SetStore
  <2>5. CASE SetUnlock
    BY <2>5 DEF SetUnlock
  <2>6. CASE FlushLock
    BY <2>6 DEF FlushLock
  <2>7. CASE FlushUnlock
    BY <2>7 DEF FlushUnlock
  <2>8. ASSUME NEW r \in Readers, NEW c \in Clouds, NEW w \in SUBSET Services,
               Request(r, c, w)
        PROVE  Sections'
    BY <2>8 DEF Request
  <2>9. ASSUME NEW r \in Readers, GetLock(r) PROVE Sections'
    BY <2>9 DEF GetLock
  <2>10. ASSUME NEW r \in Readers, GetCopy(r) PROVE Sections'
    BY <2>10 DEF GetCopy
  <2>11. ASSUME NEW r \in Readers, GetUnlock(r) PROVE Sections'
    BY <2>11 DEF GetUnlock
  <2>12. ASSUME NEW r \in Readers, EncodeFails(r) \/ EncodeEnd(r) \/ Respond(r)
         PROVE  Sections'
    BY <2>12 DEF EncodeFails, EncodeEnd, Respond
  <2>13. CASE UNCHANGED <<mu, pc>>
    BY <2>13
  <2> HIDE DEF Sections, Move, Processes, CollectorPlaces, ReaderPlaces
  <2>14. QED
    BY <2>1, <2>2, <2>3, <2>4, <2>5, <2>6, <2>7, <2>8, <2>9, <2>10, <2>11, <2>12,
       <2>13
    DEF Next, Collect, Handle, SetMetricFamilyCache, FlushKey, Encode, GrowOld, vars
<1>3. QED
  BY <1>1, <1>2, PTL DEF Spec

\* No handler looks a cloud up while the collector inserts or deletes one.
THEOREM MapIsGuarded == Spec => []MapGuarded
<1>1. Sections => MapGuarded
  BY ProcessAssumption DEF Sections, MapGuarded
<1>2. QED
  BY <1>1, SectionsInvariant, PTL

---------------------------------------------------------------------------
(* The maps that are shared by reference.                                  *)

Building == pc[Collector] \in {"build", "init", "store"}

\* From NewCloudCache to SetStore the collector holds a map that nothing else
\* refers to; otherwise it holds none.
OwnMap ==
  /\ Building => /\ ref[Collector] \in Refs
                 /\ \A r \in Readers : ref[r] # ref[Collector]
                 /\ \A c \in DOMAIN CloudCaches : CloudCaches[c].ref # ref[Collector]
  /\ ~Building => ref[Collector] = NoRef

\* Every cloud has a map of its own.
Apart == \A c, d \in DOMAIN CloudCaches :
           CloudCaches[c].ref = CloudCaches[d].ref => c = d

\* What a process works for, and that a handler holds nothing before its copy.
Errands ==
  /\ Building => cloud[Collector] \in Clouds
  /\ \A r \in Readers : pc[r] # "idle" => cloud[r] \in Clouds
  /\ \A r \in Readers : pc[r] \in {"idle", "lock", "get"} => ref[r] = NoRef

\* TypeOK and OnlyCollectorWrites are not inductive alone: a map becomes that of
\* a cloud in the step that takes it away from the collector, and the flush may
\* only look at clouds that are still there.
Sharing ==
  /\ TypeOK
  /\ OwnMap
  /\ Apart
  /\ Errands
  /\ visit \subseteq DOMAIN CloudCaches

\* What TypeOK says of the entries.
Entries(C) == /\ DOMAIN C \subseteq Clouds
              /\ \A c \in DOMAIN C : C[c] \in [ref : Refs, old : BOOLEAN]

LEMMA PutIsEntries ==
  ASSUME NEW C, Entries(C), NEW c \in Clouds, NEW a \in Refs
  PROVE  LET D == Put(C, c, [ref |-> a, old |-> FALSE]) IN
         /\ Entries(D)
         /\ DOMAIN D = DOMAIN C \cup {c}
         /\ D[c] = [ref |-> a, old |-> FALSE]
         /\ \A d \in DOMAIN C \ {c} : D[d] = C[d]
<1> DEFINE e == [ref |-> a, old |-> FALSE]
           D == Put(C, c, e)
<1>1. e \in [ref : Refs, old : BOOLEAN]
  OBVIOUS
<1> HIDE DEF e
<1>2. DOMAIN D = DOMAIN C \cup {c} /\ D[c] = e /\ \A d \in DOMAIN C \ {c} : D[d] = C[d]
  BY DEF Put
<1> HIDE DEF D
<1>3. \A d \in DOMAIN D : D[d] \in [ref : Refs, old : BOOLEAN]
  <2>1. ASSUME NEW d \in DOMAIN D PROVE D[d] \in [ref : Refs, old : BOOLEAN]
    <3>1. CASE d = c
      BY <1>1, <1>2, <3>1
    <3>2. CASE d # c
      BY <1>2, <3>2 DEF Entries
    <3>3. QED
      BY <3>1, <3>2
  <2>2. QED
    BY <2>1
<1>4. QED
  BY <1>2, <1>3 DEF D, e, Entries

LEMMA EmptyMapIsFamilyMap == EmptyMap \in FamilyMaps
  BY DEF EmptyMap, FamilyMaps

LEMMA PutIsFamilyMap ==
  ASSUME NEW m \in FamilyMaps, NEW f \in Families, NEW s \in Services
  PROVE  Put(m, f, s) \in FamilyMaps
<1>1. PICK D \in SUBSET Families : m \in [D -> Services]
  BY DEF FamilyMaps
<1>2. Put(m, f, s) \in [D \cup {f} -> Services]
  BY <1>1 DEF Put
<1>3. QED
  BY <1>2 DEF FamilyMaps

\* Who refers to an address.
LEMMA ReachableBy ==
  ASSUME NEW a
  PROVE  a \in Reachable <=>
           /\ a # NoRef
           /\ \/ \E c \in DOMAIN CloudCaches : CloudCaches[c].ref = a
              \/ \E p \in Processes : ref[p] = a
  BY DEF Reachable

\* What the collection of garbage leaves.
LEMMA KeptMaps ==
  ASSUME TypeOK, KeepReachable, Reachable' \subseteq Reachable
  PROVE  /\ DOMAIN mem' = Reachable'
         /\ \A a \in DOMAIN mem' : mem'[a] = mem[a] /\ mem'[a] \in FamilyMaps
  BY DEF TypeOK, KeepReachable

\* What a new, empty map at address a adds.
LEMMA NewMap ==
  ASSUME TypeOK, NEW a \in Unused, mem' = Put(mem, a, EmptyMap),
         Reachable' = Reachable \cup {a}
  PROVE  /\ DOMAIN mem' = Reachable'
         /\ \A b \in DOMAIN mem' : mem'[b] \in FamilyMaps
         /\ \A b \in DOMAIN mem : mem'[b] = mem[b]
<1>1. a \in Refs /\ a \notin DOMAIN mem
  BY DEF Unused
<1>2. DOMAIN mem' = DOMAIN mem \cup {a}
  BY DEF Put
<1>3. mem'[a] = EmptyMap
  BY DEF Put
<1>4. \A b \in DOMAIN mem : mem'[b] = mem[b]
  BY <1>1 DEF Put
<1>5. QED
  BY <1>2, <1>3, <1>4, EmptyMapIsFamilyMap DEF TypeOK

LEMMA SharingInvariant == Spec => []Sharing
<1>1. Init => Sharing
  <2> SUFFICES ASSUME Init PROVE Sharing
    OBVIOUS
  <2>1. DOMAIN CloudCaches = {} /\ DOMAIN mem = {}
    BY DEF Init, EmptyMap
  <2>2. Reachable = {}
    BY <2>1 DEF Init, Reachable
  <2>3. TypeOK
    BY <2>1, <2>2, ProcessAssumption DEF Init, TypeOK, Processes
  <2>4. QED
    BY <2>1, <2>3, ProcessAssumption
    DEF Init, Sharing, OwnMap, Apart, Errands, Building, Processes
<1>2. Sections /\ Sections' /\ Sharing /\ [Next]_vars => Sharing'
  <2> SUFFICES ASSUME Sections, Sections', Sharing, [Next]_vars PROVE Sharing'
    OBVIOUS
  <2>0. /\ mu' \in Processes \cup {Free}
        /\ pc' \in [Processes -> {"idle", "build", "init", "store", "set", "flush",
                                  "lock", "get", "got", "encode", "answer", "failed"}]
    BY DEF Sections, CollectorPlaces, ReaderPlaces
  <2>1. ASSUME NEW c \in Clouds, NewCloudCache(c) PROVE Sharing'
    <3>1. PICK a \in Unused : /\ ref' = [ref EXCEPT ![Collector] = a]
                              /\ mem' = Put(mem, a, EmptyMap)
      BY <2>1 DEF NewCloudCache
    <3>2. a \in Refs /\ a # NoRef /\ a \notin DOMAIN mem
      BY <3>1, ProcessAssumption DEF Unused
    <3>3. ref[Collector] = NoRef
      BY <2>1 DEF NewCloudCache, Move, Sharing, OwnMap, Building
    <3>4. Reachable' = Reachable \cup {a}
      BY <2>1, <3>1, <3>2, <3>3
      DEF NewCloudCache, Reachable, Sharing, TypeOK, Processes
    <3>5. /\ DOMAIN mem' = Reachable'
          /\ \A b \in DOMAIN mem' : mem'[b] \in FamilyMaps
      BY <3>1, <3>4, NewMap DEF Sharing
    <3>6. TypeOK'
      BY <2>0, <2>1, <3>1, <3>2, <3>5 DEF NewCloudCache, Sharing, TypeOK, Processes
    <3>7. a \notin Reachable
      BY <3>2 DEF Sharing, TypeOK
    <3>8. OwnMap'
      BY <2>1, <3>1, <3>2, <3>7, ReachableBy, ProcessAssumption
      DEF NewCloudCache, Move, Sharing, TypeOK, OwnMap, Building, Processes, Sections
    <3>9. QED
      BY <2>1, <3>1, <3>6, <3>8, ProcessAssumption
      DEF NewCloudCache, Move, Sharing, TypeOK, Apart, Errands, Building, Processes,
          Sections
  <2>2. ASSUME NEW f \in Families, NEW s \in Services, SetMetricFamilyCache(f, s)
        PROVE  Sharing'
    <3>1. ref[Collector] \in DOMAIN mem
      BY <2>2, ReachableBy, ProcessAssumption
      DEF SetMetricFamilyCache, Sharing, TypeOK, OwnMap, Building, Processes
    <3>2. Reachable' = Reachable
      BY <2>2 DEF SetMetricFamilyCache, Reachable
    <3>3. \A a \in DOMAIN mem' : a \in DOMAIN mem /\ mem'[a] \in FamilyMaps
      BY <2>2, <3>1, PutIsFamilyMap DEF SetMetricFamilyCache, Sharing, TypeOK
    <3>4. TypeOK'
      BY <2>0, <2>2, <3>2, <3>3 DEF SetMetricFamilyCache, Sharing, TypeOK
    <3>5. QED
      BY <2>2, <3>4 DEF SetMetricFamilyCache, Sharing, OwnMap, Apart, Errands, Building
  <2>3. CASE SetLock \/ SetUnlock \/ FlushLock \/ FlushUnlock
    <3>1. UNCHANGED <<CloudCaches, mem, ref, placed, want, seen, out>>
      BY <2>3 DEF SetLock, SetUnlock, FlushLock, FlushUnlock
    <3>2. /\ \A r \in Readers : pc'[r] = pc[r] /\ cloud'[r] = cloud[r]
          /\ Building' <=> Building
          /\ Building => cloud'[Collector] = cloud[Collector]
      BY <2>3, ProcessAssumption
      DEF SetLock, SetUnlock, FlushLock, FlushUnlock, Move, Sections, Sharing, TypeOK,
          Building, Processes
    <3>3. cloud' \in [Processes -> Clouds \cup {NoCloud}]
      BY <2>3 DEF SetLock, SetUnlock, FlushLock, FlushUnlock, Sharing, TypeOK
    <3>4. visit' \subseteq DOMAIN CloudCaches
      BY <2>3 DEF SetLock, SetUnlock, FlushLock, FlushUnlock, Sharing
    <3>5. Reachable' = Reachable
      BY <3>1 DEF Reachable
    <3>6. TypeOK'
      BY <2>0, <3>1, <3>3, <3>4, <3>5 DEF Sharing, TypeOK
    <3>7. OwnMap' /\ Apart'
      BY <3>1, <3>2 DEF Sharing, OwnMap, Apart
    <3>8. Errands'
      BY <3>1, <3>2 DEF Sharing, Errands
    <3>9. QED
      BY <3>1, <3>4, <3>6, <3>7, <3>8 DEF Sharing
  <2>4. CASE SetInit
    <3>1. CASE cloud[Collector] \in DOMAIN CloudCaches
      BY <2>0, <2>4, <3>1, ProcessAssumption
      DEF SetInit, Move, Sharing, TypeOK, OwnMap, Apart, Errands, Building, Reachable,
          Processes, Sections
    <3>2. CASE cloud[Collector] \notin DOMAIN CloudCaches
      <4> DEFINE c == cloud[Collector]
      <4>1. PICK a \in Unused :
              /\ CloudCaches' = Put(CloudCaches, c, [ref |-> a, old |-> FALSE])
              /\ mem' = Put(mem, a, EmptyMap)
              /\ placed' = c
        BY <2>4, <3>2 DEF SetInit
      <4>2. a \in Refs /\ a # NoRef /\ a \notin Reachable
        BY <4>1, ProcessAssumption DEF Unused, Sharing, TypeOK
      <4>3. c \in Clouds
        BY <2>4 DEF SetInit, Move, Sharing, Errands, Building
      <4>4. /\ DOMAIN CloudCaches' = DOMAIN CloudCaches \cup {c}
            /\ CloudCaches'[c] = [ref |-> a, old |-> FALSE]
            /\ \A d \in DOMAIN CloudCaches : CloudCaches'[d] = CloudCaches[d]
        <5>1. Entries(CloudCaches)
          BY DEF Sharing, TypeOK, Entries
        <5>2. QED
          BY <3>2, <4>1, <4>2, <4>3, <5>1, PutIsEntries
      <4>5. UNCHANGED <<mu, cloud, ref, visit, want, seen, out>>
            /\ pc[Collector] = "init" /\ pc' = [pc EXCEPT ![Collector] = "store"]
        BY <2>4 DEF SetInit, Move
      <4> HIDE DEF c
      <4>6. Reachable' = Reachable \cup {a}
        BY <3>2, <4>2, <4>4, <4>5 DEF Reachable
      <4>7. /\ DOMAIN mem' = Reachable'
            /\ \A b \in DOMAIN mem' : mem'[b] \in FamilyMaps
        BY <4>1, <4>6, NewMap DEF Sharing
      <4>8. TypeOK'
        <5>1. /\ DOMAIN CloudCaches' \subseteq Clouds
              /\ \A d \in DOMAIN CloudCaches' :
                   CloudCaches'[d] \in [ref : Refs, old : BOOLEAN]
          BY <4>1, <4>2, <4>3, PutIsEntries DEF Sharing, TypeOK, Entries
        <5>2. placed' \in Clouds \cup {NoCloud}
          BY <4>1, <4>3
        <5>3. QED
          BY <2>0, <4>5, <4>7, <5>1, <5>2 DEF Sharing, TypeOK
      <4>9. \A d \in DOMAIN CloudCaches : CloudCaches[d].ref # a
        BY <4>2, ReachableBy
      <4>10. ref[Collector] # a
        BY <4>2, ReachableBy, ProcessAssumption DEF Processes
      <4>11. OwnMap' /\ Apart'
        BY <4>4, <4>5, <4>9, <4>10, ProcessAssumption
        DEF Sharing, OwnMap, Apart, Building, Processes, Sections
      <4>12. QED
        BY <4>4, <4>5, <4>8, <4>11, ProcessAssumption
        DEF Sharing, Errands, Building, Processes, Sections
    <3>3. QED
      BY <3>1, <3>2
  <2>5. CASE SetStore
    <3> DEFINE c == cloud[Collector]
               a == ref[Collector]
    <3>1. c \in Clouds /\ a \in Refs /\ a # NoRef
      BY <2>5, ProcessAssumption
      DEF SetStore, Move, Sharing, OwnMap, Errands, Building
    <3>2. /\ DOMAIN CloudCaches' = DOMAIN CloudCaches \cup {c}
          /\ CloudCaches'[c] = [ref |-> a, old |-> FALSE]
          /\ \A d \in DOMAIN CloudCaches \ {c} : CloudCaches'[d] = CloudCaches[d]
          /\ Entries(CloudCaches')
      <4>1. Entries(CloudCaches)
        BY DEF Sharing, TypeOK, Entries
      <4>2. CloudCaches' = Put(CloudCaches, c, [ref |-> a, old |-> FALSE])
        BY <2>5 DEF SetStore
      <4> HIDE DEF c, a
      <4>3. QED
        BY <3>1, <4>1, <4>2, PutIsEntries
    <3>3. /\ UNCHANGED <<mu, cloud, visit, want, seen, out>>
          /\ placed' = NoCloud /\ KeepReachable
          /\ ref' = [ref EXCEPT ![Collector] = NoRef]
          /\ pc[Collector] = "store" /\ pc' = [pc EXCEPT ![Collector] = "set"]
      BY <2>5 DEF SetStore, Move
    <3>4. a \in Reachable
      BY <3>1, ReachableBy, ProcessAssumption DEF Processes
    <3> HIDE DEF c
    <3>5. Reachable' \subseteq Reachable
      BY <3>2, <3>3, <3>4, ProcessAssumption
      DEF Reachable, Sharing, TypeOK, Processes
    <3>6. TypeOK'
      BY <2>0, <3>2, <3>3, <3>5, KeptMaps DEF Sharing, TypeOK, Entries
    <3>7. Apart'
      <4>1. \A d \in DOMAIN CloudCaches \ {c} : CloudCaches'[d].ref # a
        BY <3>2, <3>3 DEF Sharing, OwnMap, Building
      <4>2. CloudCaches'[c].ref = a
        BY <3>2
      <4>3. ASSUME NEW d \in DOMAIN CloudCaches', NEW e \in DOMAIN CloudCaches',
                   CloudCaches'[d].ref = CloudCaches'[e].ref
            PROVE  d = e
        <5>1. CASE d = c \/ e = c
          BY <3>2, <4>1, <4>2, <4>3, <5>1
        <5>2. CASE d # c /\ e # c
          <6>1. /\ d \in DOMAIN CloudCaches /\ CloudCaches'[d] = CloudCaches[d]
                /\ e \in DOMAIN CloudCaches /\ CloudCaches'[e] = CloudCaches[e]
            BY <3>2, <5>2
          <6>2. QED
            BY <4>3, <6>1 DEF Sharing, Apart
        <5>3. QED
          BY <5>1, <5>2
      <4>4. QED
        BY <4>3 DEF Apart
    <3>8. OwnMap'
      BY <3>3, ProcessAssumption
      DEF Sharing, TypeOK, OwnMap, Building, Processes, Sections
    <3>9. QED
      BY <3>2, <3>3, <3>6, <3>7, <3>8, ProcessAssumption
      DEF Sharing, TypeOK, Errands, Building, Processes, Sections
  <2>6. ASSUME NEW c \in Clouds, FlushKey(c) PROVE Sharing'
    <3>1. /\ DOMAIN CloudCaches' \subseteq DOMAIN CloudCaches
          /\ DOMAIN CloudCaches \ {c} \subseteq DOMAIN CloudCaches'
          /\ \A d \in DOMAIN CloudCaches' : CloudCaches'[d] = CloudCaches[d]
      BY <2>6 DEF FlushKey, Delete
    <3>2. UNCHANGED <<mu, pc, cloud, ref, placed, want, seen, out>>
          /\ visit' = visit \ {c} /\ KeepReachable
      BY <2>6 DEF FlushKey
    <3>3. Reachable' \subseteq Reachable
      BY <3>1, <3>2 DEF Reachable
    <3>4. TypeOK'
      BY <2>0, <3>1, <3>2, <3>3, KeptMaps DEF Sharing, TypeOK
    <3>5. QED
      BY <3>1, <3>2, <3>4 DEF Sharing, OwnMap, Apart, Errands, Building
  <2>7. ASSUME NEW r \in Readers, NEW c \in Clouds, NEW w \in SUBSET Services,
               Request(r, c, w)
        PROVE  Sharing'
    BY <2>0, <2>7, ProcessAssumption
    DEF Request, Move, Sharing, TypeOK, OwnMap, Apart, Errands, Building, Reachable,
        Processes, Sections
  <2>8. ASSUME NEW r \in Readers,
               GetLock(r) \/ GetUnlock(r) \/ EncodeFails(r) \/ EncodeEnd(r)
        PROVE  Sharing'
    <3>1. UNCHANGED <<CloudCaches, mem, cloud, ref, placed, visit, want, seen, out>>
      BY <2>8 DEF GetLock, GetUnlock, EncodeFails, EncodeEnd
    <3>2. /\ \A p \in Processes \ {r} : pc'[p] = pc[p]
          /\ pc[r] # "idle"
          /\ pc'[r] \in {"idle", "lock", "get"} => pc[r] = "lock"
      BY <2>8 DEF GetLock, GetUnlock, EncodeFails, EncodeEnd, Move, Sections
    <3>3. TypeOK'
      BY <2>0, <3>1 DEF Sharing, TypeOK, Reachable
    <3>4. Building' = Building
      BY <3>2, ProcessAssumption DEF Building, Processes
    <3>5. QED
      BY <3>1, <3>2, <3>3, <3>4 DEF Sharing, OwnMap, Apart, Errands, Processes
  <2>9. ASSUME NEW r \in Readers, GetCopy(r) PROVE Sharing'
    <3> DEFINE a == IF cloud[r] \in DOMAIN CloudCaches
                      THEN CloudCaches[cloud[r]].ref ELSE NoRef
    <3>1. /\ UNCHANGED <<mu, CloudCaches, mem, cloud, placed, visit, want, seen, out>>
          /\ ref' = [ref EXCEPT ![r] = a]
          /\ pc[r] = "get" /\ pc' = [pc EXCEPT ![r] = "got"]
      BY <2>9 DEF GetCopy, Move
    <3>2. a \in Refs \cup {NoRef} /\ (a # NoRef => a \in Reachable)
      BY ReachableBy DEF Sharing, TypeOK
    <3>3. Building => a # ref[Collector]
      BY ProcessAssumption DEF Sharing, OwnMap
    <3>4. ref[r] = NoRef
      BY <3>1 DEF Sharing, Errands
    <3> HIDE DEF a
    <3>5. Reachable' = Reachable
      BY <3>1, <3>2, <3>4 DEF Reachable, Sharing, TypeOK, Processes
    <3>6. TypeOK'
      BY <2>0, <3>1, <3>2, <3>5 DEF Sharing, TypeOK
    <3>7. QED
      BY <3>1, <3>3, <3>6, ProcessAssumption
      DEF Sharing, TypeOK, OwnMap, Apart, Errands, Building, Processes, Sections
  <2>10. ASSUME NEW r \in Readers, NEW f \in Families, Encode(r, f) PROVE Sharing'
    BY <2>0, <2>10 
    DEF Encode, Sharing, TypeOK, OwnMap, Apart, Errands, Building, Reachable
  <2>11. ASSUME NEW r \in Readers, Respond(r) PROVE Sharing'
    <3>1. /\ UNCHANGED <<mu, CloudCaches, placed, visit>>
          /\ KeepReachable
          /\ cloud' = [cloud EXCEPT ![r] = NoCloud]
          /\ ref' = [ref EXCEPT ![r] = NoRef]
          /\ want' = [want EXCEPT ![r] = {}]
          /\ seen' = [seen EXCEPT ![r] = {}]
          /\ out' = [out EXCEPT ![r] = {}]
          /\ pc' = [pc EXCEPT ![r] = "idle"]
      BY <2>11 DEF Respond
    <3>2. Reachable' \subseteq Reachable
      BY <3>1 DEF Reachable, Sharing, TypeOK, Processes
    <3>3. TypeOK'
      BY <2>0, <3>1, <3>2, KeptMaps DEF Sharing, TypeOK
    <3>4. QED
      BY <3>1, <3>3, ProcessAssumption
      DEF Sharing, TypeOK, OwnMap, Apart, Errands, Building, Processes, Sections
  <2>12. ASSUME NEW c \in Clouds, GrowOld(c) PROVE Sharing'
    <3>1. /\ DOMAIN CloudCaches' = DOMAIN CloudCaches
          /\ \A d \in DOMAIN CloudCaches :
               /\ CloudCaches'[d] \in [ref : Refs, old : BOOLEAN]
               /\ CloudCaches'[d].ref = CloudCaches[d].ref
      BY <2>12 DEF GrowOld, Sharing, TypeOK
    <3>2. UNCHANGED <<mu, mem, pc, cloud, ref, placed, visit, want, seen, out>>
      BY <2>12 DEF GrowOld
    <3>3. Reachable' = Reachable
      BY <3>1, <3>2 DEF Reachable
    <3>4. TypeOK'
      BY <2>0, <3>1, <3>2, <3>3 DEF Sharing, TypeOK
    <3>5. QED
      BY <3>1, <3>2, <3>4 DEF Sharing, OwnMap, Apart, Errands, Building
  <2>13. CASE UNCHANGED vars
    BY <2>13 DEF vars, Sharing, TypeOK, OwnMap, Apart, Errands, Building, Reachable
  <2>14. QED
    BY <2>1, <2>2, <2>3, <2>4, <2>5, <2>6, <2>7, <2>8, <2>9, <2>10, <2>11, <2>12,
       <2>13
    DEF Next, Collect, Handle
<1>3. QED
  BY <1>1, <1>2, SectionsInvariant, PTL DEF Spec

\* Every variable keeps its type: above all, every map that something refers to
\* exists and maps families to services.
THEOREM TypeCorrect == Spec => []TypeOK
<1>1. Sharing => TypeOK
  BY DEF Sharing
<1>2. QED
  BY <1>1, SharingInvariant, PTL

\* A handler never ranges over a map that the collector writes to, and no write
\* for one cloud is a write for another.
THEOREM MapsAreOwned == Spec => []OnlyCollectorWrites
<1>1. Sharing => OnlyCollectorWrites
  BY DEF Sharing, OwnMap, Apart, Building, OnlyCollectorWrites
<1>2. QED
  BY <1>1, SharingInvariant, PTL

---------------------------------------------------------------------------
(* The refinement of CloudStore.                                           *)

\* No step changes a map that exists before and after it, but that under
\* construction.
LEMMA MapsKept ==
  ASSUME Sharing, [Next]_vars,
         NEW a \in DOMAIN mem, a \in DOMAIN mem', Building => a # ref[Collector]
  PROVE  mem'[a] = mem[a]
<1>1. CASE UNCHANGED mem
  BY <1>1
<1>2. CASE KeepReachable
  BY <1>2 DEF KeepReachable
<1>3. ASSUME NEW b \in Unused, mem' = Put(mem, b, EmptyMap) PROVE mem'[a] = mem[a]
  BY <1>3 DEF Put, Unused
<1>4. ASSUME NEW f \in Families, NEW s \in Services, SetMetricFamilyCache(f, s)
      PROVE  mem'[a] = mem[a]
  BY <1>4 DEF SetMetricFamilyCache, Building
<1>5. QED
  BY <1>1, <1>2, <1>3, <1>4
  DEF Next, Collect, Handle, NewCloudCache, SetLock, SetInit, SetStore, SetUnlock,
      FlushLock, FlushKey, FlushUnlock, Request, GetLock, GetCopy, GetUnlock, Encode,
      EncodeFails, EncodeEnd, Respond, GrowOld, vars

\* So a handler that keeps its copy keeps what it can range over,
LEMMA HeldKept ==
  ASSUME Sharing, Sharing', [Next]_vars, NEW r \in Readers, ref'[r] = ref[r]
  PROVE  Held(r)' = Held(r)
<1>1. CASE ref[r] = NoRef
  BY <1>1 DEF Held
<1>2. CASE ref[r] # NoRef
  <2>1. ref[r] \in DOMAIN mem /\ ref[r] \in DOMAIN mem'
    BY <1>2, ReachableBy DEF Sharing, TypeOK, Processes, Reachable
  <2>2. Building => ref[r] # ref[Collector]
    BY DEF Sharing, OwnMap
  <2>3. mem'[ref[r]] = mem[ref[r]]
    BY <2>1, <2>2, MapsKept
  <2>4. QED
    BY <1>2, <2>3 DEF Held
<1>3. QED
  BY <1>1, <1>2

\* and a cloud that keeps its map keeps its snapshot.
LEMMA EntryKept ==
  ASSUME Sharing, Sharing', [Next]_vars,
         NEW c \in DOMAIN CloudCaches, c \in DOMAIN CloudCaches',
         CloudCaches'[c].ref = CloudCaches[c].ref
  PROVE  mem'[CloudCaches'[c].ref] = mem[CloudCaches[c].ref]
<1> DEFINE a == CloudCaches[c].ref
<1>1. a \in Refs /\ a # NoRef
  BY ProcessAssumption DEF Sharing, TypeOK
<1>2. a \in DOMAIN mem /\ a \in DOMAIN mem'
  BY <1>1 DEF Sharing, TypeOK, Reachable
<1>3. Building => a # ref[Collector]
  BY DEF Sharing, OwnMap
<1>4. QED
  BY <1>2, <1>3, MapsKept

\* The placeholder that init puts in the map is only there while the collector is
\* about to replace it.
Placeholder ==
  /\ pc[Collector] = "store" => /\ cloud[Collector] \in DOMAIN CloudCaches
                                /\ placed \in {NoCloud, cloud[Collector]}
  /\ pc[Collector] # "store" => placed = NoCloud

\* What a handler has written of the families it has ranged over.
Written ==
  \A r \in Readers :
    /\ pc[r] \in {"idle", "lock", "get", "got"} => seen[r] = {} /\ out[r] = {}
    /\ pc[r] = "encode" =>
         out[r] = {f \in seen[r] \cap DOMAIN Held(r) : Held(r)[f] \in want[r]}

LEMMA PlaceholderInvariant == Spec => []Placeholder
<1>1. Init => Placeholder
  BY ProcessAssumption DEF Init, Placeholder, Processes
<1>2. Sections /\ Sharing /\ Placeholder /\ [Next]_vars => Placeholder'
  <2> SUFFICES ASSUME Sections, Sharing, Placeholder, [Next]_vars
               PROVE  Placeholder'
    OBVIOUS
  <2>1. CASE SetInit
    <3>1. /\ pc[Collector] = "init" /\ pc'[Collector] = "store"
          /\ cloud'[Collector] = cloud[Collector]
      BY <2>1, ProcessAssumption DEF SetInit, Move, Sections, Processes
    <3>2. placed = NoCloud
      BY <3>1 DEF Placeholder
    <3>3. CASE cloud[Collector] \in DOMAIN CloudCaches
      BY <2>1, <3>1, <3>2, <3>3 DEF SetInit, Placeholder
    <3>4. CASE cloud[Collector] \notin DOMAIN CloudCaches
      <4>1. placed' = cloud[Collector] /\ cloud[Collector] \in DOMAIN CloudCaches'
        BY <2>1, <3>4 DEF SetInit, Put
      <4>2. QED
        BY <3>1, <4>1 DEF Placeholder
    <3>5. QED
      BY <3>3, <3>4
  <2>2. CASE SetStore
    BY <2>2, ProcessAssumption DEF SetStore, Move, Placeholder, Sections, Processes
  <2>3. ASSUME NEW c \in Clouds, FlushKey(c) PROVE Placeholder'
    BY <2>3 DEF FlushKey, Placeholder
  <2>4. ASSUME NEW c \in Clouds, GrowOld(c) PROVE Placeholder'
    BY <2>4 DEF GrowOld, Placeholder
  <2>5. CASE SetLock \/ SetUnlock \/ FlushLock \/ FlushUnlock
             \/ \E c \in Clouds : NewCloudCache(c)
    BY <2>5, ProcessAssumption
    DEF SetLock, SetUnlock, FlushLock, FlushUnlock, NewCloudCache, Move, Placeholder,
        Sections, Processes
  <2>6. ASSUME NEW r \in Readers, Handle(r) PROVE Placeholder'
    <3>1. /\ pc'[Collector] = pc[Collector] /\ cloud'[Collector] = cloud[Collector]
          /\ UNCHANGED <<CloudCaches, placed>>
      BY <2>6, ProcessAssumption
      DEF Handle, Request, GetLock, GetCopy, GetUnlock, Encode, EncodeFails, EncodeEnd,
          Respond, Move, Sections, Sharing, TypeOK, Processes
    <3>2. QED
      BY <3>1 DEF Placeholder
  <2>7. CASE UNCHANGED <<CloudCaches, pc, cloud, placed>>
    BY <2>7 DEF Placeholder
  <2>8. QED
    BY <2>1, <2>2, <2>3, <2>4, <2>5, <2>6, <2>7
    DEF Next, Collect, SetMetricFamilyCache, vars
<1>3. QED
  BY <1>1, <1>2, SectionsInvariant, SharingInvariant, PTL DEF Spec

LEMMA WrittenInvariant == Spec => []Written
<1>1. Init => Written
  BY DEF Init, Written, Processes
<1>2. Sections /\ Sharing /\ Sharing' /\ Written /\ [Next]_vars => Written'
  <2> SUFFICES ASSUME Sections, Sharing, Sharing', Written, [Next]_vars,
                      NEW q \in Readers
               PROVE  /\ pc'[q] \in {"idle", "lock", "get", "got"}
                           => seen'[q] = {} /\ out'[q] = {}
                      /\ pc'[q] = "encode" =>
                           out'[q] = {f \in seen'[q] \cap DOMAIN Held(q)' :
                                        Held(q)'[f] \in want'[q]}
    BY DEF Written
  <2>1. CASE UNCHANGED <<pc[q], ref[q], want[q], seen[q], out[q]>>
    BY <2>1, HeldKept DEF Written
  <2>2. ASSUME NEW c \in Clouds, NEW w \in SUBSET Services, Request(q, c, w)
        PROVE  pc'[q] = "lock" /\ seen'[q] = {} /\ out'[q] = {}
    BY <2>2 DEF Request, Move, Written, Sections, Processes
  <2>3. CASE GetLock(q) \/ GetCopy(q)
    BY <2>3 DEF GetLock, GetCopy, Move, Written, Sections, Processes
  <2>4. CASE GetUnlock(q)
    BY <2>4 DEF GetUnlock, Move, Written, Sections, Processes
  <2>5. ASSUME NEW f \in Families, Encode(q, f)
        PROVE  /\ pc'[q] = "encode"
               /\ out'[q] = {g \in seen'[q] \cap DOMAIN Held(q)' :
                               Held(q)'[g] \in want'[q]}
    <3>1. Held(q)' = Held(q)
      BY <2>5, HeldKept DEF Encode
    <3>2. /\ out[q] = {g \in seen[q] \cap DOMAIN Held(q) : Held(q)[g] \in want[q]}
          /\ pc'[q] = "encode" /\ want' = want
          /\ f \in DOMAIN Held(q)
          /\ seen'[q] = seen[q] \cup {f}
          /\ out'[q] = IF Held(q)[f] \in want[q] THEN out[q] \cup {f} ELSE out[q]
      BY <2>5 DEF Encode, Written, Sharing, TypeOK
    <3>3. QED
      BY <3>1, <3>2
  <2>6. CASE EncodeFails(q) \/ EncodeEnd(q)
    BY <2>6 DEF EncodeFails, EncodeEnd, Move, Sections, Processes
  <2>7. CASE Respond(q)
    BY <2>7 DEF Respond, Sharing, TypeOK, Sections, Processes
  <2>8. ASSUME NEW r \in Readers \ {q}, Handle(r)
        PROVE  UNCHANGED <<pc[q], ref[q], want[q], seen[q], out[q]>>
    BY <2>8
    DEF Handle, Request, GetLock, GetCopy, GetUnlock, Encode, EncodeFails, EncodeEnd,
        Respond, Move, Sections, Sharing, TypeOK, Processes
  <2>9. CASE Collect
    <3>1. pc'[q] = pc[q] /\ ref'[q] = ref[q]
      BY <2>9, ProcessAssumption
      DEF Collect, NewCloudCache, SetMetricFamilyCache, SetLock, SetInit, SetStore,
          SetUnlock, FlushLock, FlushKey, FlushUnlock, Move, Sections, Sharing, TypeOK,
          Processes
    <3>2. UNCHANGED <<want, seen, out>>
      BY <2>9
      DEF Collect, NewCloudCache, SetMetricFamilyCache, SetLock, SetInit, SetStore,
          SetUnlock, FlushLock, FlushKey, FlushUnlock
    <3>3. QED
      BY <2>1, <3>1, <3>2
  <2>10. CASE (\E c \in Clouds : GrowOld(c)) \/ UNCHANGED vars
    BY <2>1, <2>10 DEF GrowOld, vars
  <2>11. QED
    BY <2>1, <2>2, <2>3, <2>4, <2>5, <2>6, <2>7, <2>8, <2>9, <2>10 DEF Next, Handle
<1>3. QED
  BY <1>1, <1>2, SectionsInvariant, SharingInvariant, PTL DEF Spec

\* What callers see of the cache while no entry changes,
LEMMA StoreKept ==
  ASSUME Sharing, Sharing', [Next]_vars, UNCHANGED <<CloudCaches, placed>>
  PROVE  PublishedSnapshots' = PublishedSnapshots /\ StaleClouds' = StaleClouds
<1>1. \A c \in StoredClouds : mem'[CloudCaches'[c].ref] = mem[CloudCaches[c].ref]
  BY EntryKept DEF StoredClouds
<1>2. StoredClouds' = StoredClouds
  BY DEF StoredClouds
<1>3. QED
  BY <1>1, <1>2 DEF PublishedSnapshots, StaleClouds

\* and of a handler that takes no step.
LEMMA SeenKept ==
  ASSUME Sharing, Sharing', [Next]_vars, NEW r \in Readers,
         UNCHANGED <<pc[r], ref[r], want[r], out[r]>>
  PROVE  SeenBy(r)' = SeenBy(r)
<1>1. Held(r)' = Held(r)
  BY HeldKept
<1>2. QED
  BY <1>1 DEF SeenBy

\* A handler that has looked the cloud up has an answer.
LEMMA SeenIsAnswer ==
  ASSUME Sections, Sharing, NEW r \in Readers
  PROVE  SeenBy(r) = NoAnswer <=> pc[r] \in {"idle", "lock", "get"}
<1>1. CASE pc[r] \in {"idle", "lock", "get"}
  BY <1>1 DEF SeenBy
<1>2. CASE pc[r] \in {"got", "encode"}
  <2>1. SeenBy(r) = {f \in DOMAIN Held(r) : Held(r)[f] \in want[r]}
    BY <1>2 DEF SeenBy
  <2>2. Held(r) \in FamilyMaps
    <3>1. CASE ref[r] = NoRef
      BY <3>1, EmptyMapIsFamilyMap DEF Held
    <3>2. CASE ref[r] # NoRef
      <4>1. ref[r] \in DOMAIN mem
        BY <3>2, ReachableBy DEF Sharing, TypeOK, Processes
      <4>2. QED
        BY <3>2, <4>1 DEF Held, Sharing, TypeOK
    <3>3. QED
      BY <3>1, <3>2
  <2>3. SeenBy(r) \in SUBSET Families
    BY <2>1, <2>2 DEF FamilyMaps
  <2>4. QED
    BY <1>2, <2>3, AnswerAssumption
<1>3. CASE pc[r] = "answer"
  BY <1>3, AnswerAssumption DEF SeenBy, Sharing, TypeOK
<1>4. CASE pc[r] = "failed"
  BY <1>4, AnswerAssumption DEF SeenBy
<1>5. QED
  BY <1>1, <1>2, <1>3, <1>4 DEF Sections, ReaderPlaces

\* One handler takes a step: the store does not change, and of the answers that
\* of this handler alone may.
LEMMA HandlerStep ==
  ASSUME Sections, Sharing, Sharing', NEW r \in Readers, Handle(r)
  PROVE  /\ PublishedSnapshots' = PublishedSnapshots
         /\ StaleClouds' = StaleClouds
         /\ Answers' = [Answers EXCEPT ![r] = SeenBy(r)']
<1>1. [Next]_vars
  BY DEF Next
<1>2. UNCHANGED <<CloudCaches, placed>>
  BY DEF Handle, Request, GetLock, GetCopy, GetUnlock, Encode, EncodeFails, EncodeEnd,
         Respond
<1>3. ASSUME NEW q \in Readers \ {r} PROVE SeenBy(q)' = SeenBy(q)
  <2>1. UNCHANGED <<pc[q], ref[q], want[q], out[q]>>
    BY <1>3
    DEF Handle, Request, GetLock, GetCopy, GetUnlock, Encode, EncodeFails, EncodeEnd,
        Respond, Move, Sections, Sharing, TypeOK, Processes
  <2>2. QED
    BY <1>1, <2>1, SeenKept
<1>4. Answers' = [Answers EXCEPT ![r] = SeenBy(r)']
  BY <1>3 DEF Answers
<1>5. QED
  BY <1>1, <1>2, <1>4, StoreKept

\* The collector takes a step, or the TTL of an entry runs out: no answer changes.
LEMMA AnswersKept ==
  ASSUME Sections, Sharing, Sharing', Collect \/ \E c \in Clouds : GrowOld(c)
  PROVE  Answers' = Answers
<1>1. [Next]_vars
  BY DEF Next
<1>2. ASSUME NEW r \in Readers PROVE SeenBy(r)' = SeenBy(r)
  <2>1. pc'[r] = pc[r] /\ ref'[r] = ref[r]
    BY <1>2, ProcessAssumption
    DEF Collect, NewCloudCache, SetMetricFamilyCache, SetLock, SetInit, SetStore,
        SetUnlock, FlushLock, FlushKey, FlushUnlock, GrowOld, Move, Sections, Sharing,
        TypeOK, Processes
  <2>2. UNCHANGED <<want, out>>
    BY DEF Collect, NewCloudCache, SetMetricFamilyCache, SetLock, SetInit, SetStore,
           SetUnlock, FlushLock, FlushKey, FlushUnlock, GrowOld
  <2>3. QED
    BY <1>1, <2>1, <2>2, SeenKept
<1>3. QED
  BY <1>2 DEF Answers

\* SetCloudCache publishes in the step that puts the finished map in place.
LEMMA StorePublishes ==
  ASSUME Sections, Sharing, Sharing', Placeholder, Placeholder', SetStore
  PROVE  \E c \in Clouds, m \in Store!Snapshots : Store!Publish(c, m)
<1> DEFINE c == cloud[Collector]
           a == ref[Collector]
<1>0. [Next]_vars
  BY DEF Next, Collect
<1>1. /\ c \in DOMAIN CloudCaches /\ c \in Clouds /\ a \in Refs
      /\ placed \in {NoCloud, c} /\ placed' = NoCloud
  BY DEF SetStore, Move, Placeholder, Sharing, TypeOK, OwnMap, Building
<1>2. /\ CloudCaches' = Put(CloudCaches, c, [ref |-> a, old |-> FALSE])
      /\ KeepReachable
  BY DEF SetStore
<1> HIDE DEF c, a
<1>3. /\ DOMAIN CloudCaches' = DOMAIN CloudCaches
      /\ CloudCaches'[c] = [ref |-> a, old |-> FALSE]
      /\ \A d \in DOMAIN CloudCaches \ {c} : CloudCaches'[d] = CloudCaches[d]
  <2>1. Entries(CloudCaches)
    BY DEF Sharing, TypeOK, Entries
  <2>2. QED
    BY <1>1, <1>2, <2>1, PutIsEntries
<1>4. mem[a] \in Store!Snapshots /\ mem'[a] = mem[a]
  <2>1. a \in DOMAIN mem
    BY <1>1, ReachableBy, ProcessAssumption DEF a, Sharing, TypeOK, Processes
  <2>2. a \in Reachable'
    BY <1>1, <1>3, ProcessAssumption DEF Reachable
  <2>3. QED
    BY <1>2, <2>1, <2>2
    DEF KeepReachable, Sharing, TypeOK, FamilyMaps, Store!Snapshots
<1>5. /\ StoredClouds' = DOMAIN CloudCaches
      /\ StoredClouds \cup {c} = DOMAIN CloudCaches
      /\ StoredClouds \subseteq DOMAIN CloudCaches
      /\ DOMAIN CloudCaches \subseteq Clouds
  <2>1. DOMAIN CloudCaches \subseteq Clouds /\ NoCloud \notin DOMAIN CloudCaches
    BY ProcessAssumption DEF Sharing, TypeOK
  <2>2. QED
    BY <1>1, <1>3, <2>1 DEF StoredClouds
<1>6. \A d \in DOMAIN CloudCaches \ {c} :
        mem'[CloudCaches'[d].ref] = mem[CloudCaches[d].ref]
  <2>1. ASSUME NEW d \in DOMAIN CloudCaches \ {c}
        PROVE  mem'[CloudCaches'[d].ref] = mem[CloudCaches[d].ref]
    <3>1. d \in DOMAIN CloudCaches' /\ CloudCaches'[d].ref = CloudCaches[d].ref
      BY <1>3, <2>1
    <3>2. QED
      BY <1>0, <2>1, <3>1, EntryKept
  <2>2. QED
    BY <2>1
<1>7. PublishedSnapshots' = [PublishedSnapshots EXCEPT ![c] = mem[a]]
  <2>1. PublishedSnapshots'[c] = mem[a]
    BY <1>1, <1>3, <1>4, <1>5 DEF PublishedSnapshots
  <2>2. ASSUME NEW d \in Clouds \ {c}
        PROVE  PublishedSnapshots'[d] = PublishedSnapshots[d]
    <3>1. d \in StoredClouds <=> d \in StoredClouds'
      BY <1>5, <2>2
    <3>2. d \in StoredClouds => mem'[CloudCaches'[d].ref] = mem[CloudCaches[d].ref]
      BY <1>5, <1>6, <2>2
    <3>3. QED
      BY <3>1, <3>2 DEF PublishedSnapshots
  <2>3. QED
    BY <2>1, <2>2 DEF PublishedSnapshots
<1>8. StaleClouds' = StaleClouds \ {c}
  BY <1>3, <1>5 DEF StaleClouds
<1>9. Answers' = Answers
  BY AnswersKept DEF Collect
<1>10. Store!Publish(c, mem[a])
  BY <1>7, <1>8, <1>9 DEF Store!Publish
<1>11. QED
  BY <1>1, <1>4, <1>10

\* FlushExpiredCloudCaches expires one cloud at a time, or none.
LEMMA FlushExpires ==
  ASSUME Sections, Sharing, Sharing', Placeholder, Placeholder',
         NEW c \in Clouds, FlushKey(c)
  PROVE  Store!Expire({c}) \/ UNCHANGED <<PublishedSnapshots, StaleClouds, Answers>>
<1>0. [Next]_vars
  BY DEF Next, Collect
<1>1. Answers' = Answers
  BY AnswersKept DEF Collect
<1>2. /\ pc[Collector] = "flush" /\ pc' = pc /\ c \in DOMAIN CloudCaches
      /\ placed = NoCloud /\ placed' = NoCloud
  BY DEF FlushKey, Sharing, Placeholder
<1>3. StoredClouds = DOMAIN CloudCaches /\ StoredClouds' = DOMAIN CloudCaches'
  <2>1. NoCloud \notin DOMAIN CloudCaches /\ NoCloud \notin DOMAIN CloudCaches'
    BY ProcessAssumption DEF Sharing, TypeOK
  <2>2. QED
    BY <1>2, <2>1 DEF StoredClouds
<1>4. CASE CloudCaches[c].old
  <2>1. /\ DOMAIN CloudCaches' = DOMAIN CloudCaches \ {c}
        /\ \A d \in DOMAIN CloudCaches' : CloudCaches'[d] = CloudCaches[d]
    BY <1>4 DEF FlushKey, Delete
  <2>2. \A d \in DOMAIN CloudCaches' :
          mem'[CloudCaches'[d].ref] = mem[CloudCaches[d].ref]
    BY <1>0, <2>1, EntryKept
  <2>3. c \in StaleClouds
    BY <1>2, <1>3, <1>4 DEF StaleClouds
  <2>4. StaleClouds' = StaleClouds \ {c}
    BY <1>3, <2>1 DEF StaleClouds
  <2>5. PublishedSnapshots' =
          [d \in Clouds |-> IF d \in {c} THEN NoSnapshot ELSE PublishedSnapshots[d]]
    BY <1>3, <2>1, <2>2 DEF PublishedSnapshots
  <2>6. QED
    BY <1>1, <2>3, <2>4, <2>5 DEF Store!Expire
<1>5. CASE ~CloudCaches[c].old
  <2>1. UNCHANGED <<CloudCaches, placed>>
    BY <1>5 DEF FlushKey
  <2>2. QED
    BY <1>0, <1>1, <2>1, StoreKept
<1>6. QED
  BY <1>4, <1>5

\* An entry whose TTL runs out is stale, unless it is the placeholder.
LEMMA EntryAges ==
  ASSUME Sections, Sharing, Sharing', NEW c \in Clouds, GrowOld(c)
  PROVE  Store!Age({c}) \/ UNCHANGED <<PublishedSnapshots, StaleClouds, Answers>>
<1>0. [Next]_vars
  BY DEF Next
<1>1. Answers' = Answers
  BY AnswersKept
<1>2. /\ c \in DOMAIN CloudCaches /\ placed' = placed
      /\ DOMAIN CloudCaches' = DOMAIN CloudCaches
      /\ CloudCaches'[c].old = TRUE
      /\ \A d \in DOMAIN CloudCaches :
           /\ CloudCaches'[d].ref = CloudCaches[d].ref
           /\ d # c => CloudCaches'[d] = CloudCaches[d]
  BY DEF GrowOld, Sharing, TypeOK
<1>3. StoredClouds' = StoredClouds /\ StoredClouds \subseteq DOMAIN CloudCaches
  BY <1>2 DEF StoredClouds
<1>4. \A d \in StoredClouds : mem'[CloudCaches'[d].ref] = mem[CloudCaches[d].ref]
  BY <1>0, <1>2, <1>3, EntryKept
<1>5. PublishedSnapshots' = PublishedSnapshots
  BY <1>3, <1>4 DEF PublishedSnapshots
<1>6. CASE c \in StoredClouds
  <2>1. StaleClouds' = StaleClouds \cup {c}
    BY <1>2, <1>3, <1>6 DEF StaleClouds
  <2>2. PublishedSnapshots[c] # NoSnapshot
    <3>1. CloudCaches[c].ref \in DOMAIN mem
      BY <1>2, ReachableBy, ProcessAssumption DEF Sharing, TypeOK
    <3>2. mem[CloudCaches[c].ref] \in FamilyMaps
      BY <3>1 DEF Sharing, TypeOK
    <3>3. QED
      BY <1>6, <3>2, AnswerAssumption DEF PublishedSnapshots, FamilyMaps
  <2>3. QED
    BY <1>1, <1>5, <2>1, <2>2 DEF Store!Age
<1>7. CASE c \notin StoredClouds
  <2>1. StaleClouds' = StaleClouds
    BY <1>2, <1>3, <1>7 DEF StaleClouds
  <2>2. QED
    BY <1>1, <1>5, <2>1
<1>8. QED
  BY <1>6, <1>7

\* The placeholder of init is none of the store's.
LEMMA InitIsInvisible ==
  ASSUME Sections, Sharing, Sharing', Placeholder, SetInit
  PROVE  PublishedSnapshots' = PublishedSnapshots /\ StaleClouds' = StaleClouds
<1> DEFINE c == cloud[Collector]
<1>0. [Next]_vars
  BY DEF Next, Collect
<1>1. placed = NoCloud
  BY DEF SetInit, Move, Placeholder
<1>2. CASE c \in DOMAIN CloudCaches
  BY <1>0, <1>2, StoreKept DEF SetInit
<1>3. CASE c \notin DOMAIN CloudCaches
  <2>1. /\ placed' = c
        /\ DOMAIN CloudCaches' = DOMAIN CloudCaches \cup {c}
        /\ \A d \in DOMAIN CloudCaches : CloudCaches'[d] = CloudCaches[d]
    BY <1>3 DEF SetInit, Put
  <2>2. NoCloud \notin DOMAIN CloudCaches
    BY ProcessAssumption DEF Sharing, TypeOK
  <2>3. StoredClouds' = StoredClouds /\ StoredClouds = DOMAIN CloudCaches
    BY <1>1, <1>3, <2>1, <2>2 DEF StoredClouds
  <2>4. \A d \in StoredClouds : mem'[CloudCaches'[d].ref] = mem[CloudCaches[d].ref]
    BY <1>0, <2>1, <2>3, EntryKept
  <2>5. QED
    BY <2>1, <2>3, <2>4 DEF PublishedSnapshots, StaleClouds
<1>4. QED
  BY <1>2, <1>3

\* GetCloudCache reads one snapshot: what the handler writes out later is chosen
\* in the step that copies the entry.
LEMMA CopyReads ==
  ASSUME Sections, Sharing, Sharing', Placeholder, NEW r \in Readers, GetCopy(r)
  PROVE  \E c \in Clouds, w \in SUBSET Services : Store!Read(r, c, w)
<1> DEFINE c == cloud[r]
<1>1. /\ pc[r] = "get" /\ pc'[r] = "got"
      /\ UNCHANGED <<CloudCaches, mem, placed, want>>
      /\ ref'[r] = IF c \in DOMAIN CloudCaches THEN CloudCaches[c].ref ELSE NoRef
  BY DEF GetCopy, Move, Sections, Sharing, TypeOK, Processes
<1>2. c \in Clouds /\ want[r] \in SUBSET Services
  BY <1>1 DEF Sharing, TypeOK, Errands
<1>3. placed = NoCloud
  BY <1>1, ProcessAssumption DEF Sections, Placeholder
<1>4. SeenBy(r) = NoAnswer
  BY <1>1 DEF SeenBy
<1>5. SeenBy(r)' = {f \in DOMAIN Held(r)' : Held(r)'[f] \in want[r]}
  BY <1>1 DEF SeenBy
<1>6. SeenBy(r)' = Store!Select(PublishedSnapshots[c], want[r])
  <2>1. CASE c \in DOMAIN CloudCaches
    <3>1. CloudCaches[c].ref \in DOMAIN mem /\ CloudCaches[c].ref # NoRef
      BY <2>1, ReachableBy, ProcessAssumption DEF Sharing, TypeOK
    <3>2. Held(r)' = mem[CloudCaches[c].ref]
      BY <1>1, <2>1, <3>1 DEF Held
    <3>3. PublishedSnapshots[c] = mem[CloudCaches[c].ref]
      BY <1>2, <1>3, <2>1, ProcessAssumption DEF PublishedSnapshots, StoredClouds
    <3>4. mem[CloudCaches[c].ref] # NoSnapshot
      BY <3>1, AnswerAssumption DEF Sharing, TypeOK, FamilyMaps
    <3>5. QED
      BY <1>5, <3>2, <3>3, <3>4 DEF Store!Select
  <2>2. CASE c \notin DOMAIN CloudCaches
    <3>1. Held(r)' = EmptyMap
      BY <1>1, <2>2 DEF Held
    <3>2. PublishedSnapshots[c] = NoSnapshot
      BY <1>2, <2>2 DEF PublishedSnapshots, StoredClouds
    <3>3. QED
      BY <1>5, <3>1, <3>2 DEF Store!Select, EmptyMap
  <2>3. QED
    BY <2>1, <2>2
<1>7. Answers[r] = NoAnswer
  BY <1>4 DEF Answers
<1>8. Store!Read(r, c, want[r])
  <2>1. Handle(r)
    BY DEF Handle
  <2>2. QED
    BY <1>6, <1>7, <2>1, HandlerStep DEF Store!Read
<1>9. QED
  BY <1>2, <1>8

\* The other steps of a handler.
LEMMA HandlerSteps ==
  ASSUME Sections, Sharing, Sharing', Written, NEW r \in Readers, Handle(r),
         ~GetCopy(r)
  PROVE  \/ UNCHANGED <<PublishedSnapshots, StaleClouds, Answers>>
         \/ Store!Fail(r)
         \/ Store!Close(r)
<1>0. [Next]_vars
  BY DEF Next
<1>1. CASE SeenBy(r)' = SeenBy(r)
  <2>1. Answers' = Answers
    BY <1>1, HandlerStep DEF Answers
  <2>2. QED
    BY <2>1, HandlerStep
<1>2. CASE GetLock(r) \/ \E c \in Clouds, w \in SUBSET Services : Request(r, c, w)
  <2>1. SeenBy(r) = NoAnswer /\ SeenBy(r)' = NoAnswer
    BY <1>2 DEF GetLock, Request, Move, SeenBy, Sections, Processes
  <2>2. QED
    BY <1>1, <2>1
<1>3. CASE GetUnlock(r)
  <2>1. /\ pc[r] = "got" /\ pc'[r] = "encode" /\ want' = want /\ ref' = ref
    BY <1>3 DEF GetUnlock, Move, Sections, Processes
  <2>2. Held(r)' = Held(r)
    BY <1>0, <2>1, HeldKept
  <2>3. SeenBy(r)' = SeenBy(r)
    BY <2>1, <2>2 DEF SeenBy
  <2>4. QED
    BY <1>1, <2>3
<1>4. CASE \E f \in Families : Encode(r, f)
  <2>1. /\ pc[r] = "encode" /\ pc' = pc /\ want' = want /\ ref' = ref
    BY <1>4 DEF Encode
  <2>2. Held(r)' = Held(r)
    BY <1>0, <2>1, HeldKept
  <2>3. SeenBy(r)' = SeenBy(r)
    BY <2>1, <2>2 DEF SeenBy
  <2>4. QED
    BY <1>1, <2>3
<1>5. CASE EncodeEnd(r)
  <2>1. /\ pc[r] = "encode" /\ pc'[r] = "answer" /\ out' = out
        /\ DOMAIN Held(r) \subseteq seen[r]
    BY <1>5 DEF EncodeEnd, Move, Sections, Processes
  <2>2. out[r] = {f \in DOMAIN Held(r) : Held(r)[f] \in want[r]}
    BY <2>1 DEF Written
  <2>3. SeenBy(r)' = SeenBy(r)
    BY <2>1, <2>2 DEF SeenBy
  <2>4. QED
    BY <1>1, <2>3
<1>6. CASE EncodeFails(r)
  <2>1. pc[r] = "encode" /\ SeenBy(r)' = Failed
    BY <1>6 DEF EncodeFails, Move, SeenBy, Sections, Processes
  <2>2. Answers[r] # NoAnswer
    BY <2>1, SeenIsAnswer DEF Answers
  <2>3. Store!Fail(r)
    BY <2>1, <2>2, HandlerStep DEF Store!Fail
  <2>4. QED
    BY <2>3
<1>7. CASE Respond(r)
  <2>1. pc[r] \in {"answer", "failed"} /\ SeenBy(r)' = NoAnswer
    BY <1>7 DEF Respond, SeenBy, Sections, Processes
  <2>2. Answers[r] # NoAnswer
    BY <2>1, SeenIsAnswer DEF Answers
  <2>3. Store!Close(r)
    BY <2>1, <2>2, HandlerStep DEF Store!Close
  <2>4. QED
    BY <2>3
<1>8. QED
  BY <1>2, <1>3, <1>4, <1>5, <1>6, <1>7 DEF Handle

\* The mutex and the maps that are shared without it behave like a store that is
\* written and read in one step each, for any number of handlers.
THEOREM SharedMapsAreCloudStore == Spec => ImplementsStore
<1>1. Init => Store!Init
  <2> SUFFICES ASSUME Init PROVE Store!Init
    OBVIOUS
  <2>1. DOMAIN CloudCaches = {}
    BY DEF Init, EmptyMap
  <2>2. PublishedSnapshots = [c \in Clouds |-> NoSnapshot] /\ StaleClouds = {}
    BY <2>1 DEF PublishedSnapshots, StaleClouds, StoredClouds
  <2>3. Answers = [r \in Readers |-> NoAnswer]
    BY DEF Init, Answers, SeenBy, Processes
  <2>4. QED
    BY <2>2, <2>3 DEF Store!Init
<1>2. Sections /\ Sharing /\ Sharing' /\ Placeholder /\ Placeholder' /\ Written
        /\ [Next]_vars => [Store!Next]_(Store!storeVars)
  <2> SUFFICES ASSUME Sections, Sharing, Sharing', Placeholder, Placeholder',
                      Written, [Next]_vars
               PROVE  \/ Store!Next
                      \/ UNCHANGED <<PublishedSnapshots, StaleClouds, Answers>>
    BY DEF Store!storeVars
  <2>1. CASE SetStore
    BY <2>1, StorePublishes DEF Store!Next
  <2>2. ASSUME NEW c \in Clouds, FlushKey(c)
        PROVE  \/ Store!Next
               \/ UNCHANGED <<PublishedSnapshots, StaleClouds, Answers>>
    BY <2>2, FlushExpires DEF Store!Next
  <2>3. ASSUME NEW c \in Clouds, GrowOld(c)
        PROVE  \/ Store!Next
               \/ UNCHANGED <<PublishedSnapshots, StaleClouds, Answers>>
    BY <2>3, EntryAges DEF Store!Next
  <2>4. CASE SetInit
    BY <2>4, InitIsInvisible, AnswersKept DEF Collect
  <2>5. CASE Collect /\ UNCHANGED <<CloudCaches, placed>>
    BY <2>5, StoreKept, AnswersKept
  <2>6. ASSUME NEW r \in Readers, Handle(r)
        PROVE  \/ Store!Next
               \/ UNCHANGED <<PublishedSnapshots, StaleClouds, Answers>>
    BY <2>6, CopyReads, HandlerSteps DEF Store!Next
  <2>7. CASE UNCHANGED vars
    <3>1. Answers' = Answers
      BY <2>7, SeenKept DEF vars, Answers
    <3>2. QED
      BY <2>7, <3>1, StoreKept DEF vars
  <2>8. QED
    BY <2>1, <2>2, <2>3, <2>4, <2>5, <2>6, <2>7
    DEF Next, Collect, NewCloudCache, SetMetricFamilyCache, SetLock, SetUnlock,
        FlushLock, FlushUnlock
<1>3. QED
  BY <1>1, <1>2, SectionsInvariant, SharingInvariant, PlaceholderInvariant,
     WrittenInvariant, PTL
  DEF Spec, ImplementsStore, Store!Spec

---------------------------------------------------------------------------
(* Every request comes to its end.                                         *)

\* The steps a handler has still to take, those of Encode apart.
Stage(r) == CASE pc[r] = "lock"               -> 5
              [] pc[r] = "get"                -> 4
              [] pc[r] = "got"                -> 3
              [] pc[r] = "encode"             -> 2
              [] pc[r] \in {"answer", "failed"} -> 1
              [] OTHER                        -> 0

\* The families that it has still to range over.
Unwritten(r) == DOMAIN Held(r) \ seen[r]

Advances ==
  \A r \in Readers : pc[r] # "idle" =>
    \/ Stage(r)' < Stage(r)
    \/ /\ Stage(r)' = Stage(r)
       /\ pc[r] = "encode" => /\ Unwritten(r)' \subseteq Unwritten(r)
                              /\ seen'[r] # seen[r] => Unwritten(r)' # Unwritten(r)

\* A request goes only forward: no step of the collector or of another handler sets it
\* back, and none gives it more to write, though it ranges over its map without the
\* mutex (cache/cache.go:103-112, cache/utils.go:108-130).
THEOREM RequestsAdvance == Spec => [][Advances]_vars
<1>1. ASSUME Sections, Sharing, Sharing', [Next]_vars, NEW q \in Readers, pc[q] # "idle"
      PROVE  \/ Stage(q)' < Stage(q)
             \/ /\ Stage(q)' = Stage(q)
                /\ pc[q] = "encode" => /\ Unwritten(q)' \subseteq Unwritten(q)
                                       /\ seen'[q] # seen[q] => Unwritten(q)' # Unwritten(q)
  <2>1. CASE UNCHANGED <<pc[q], ref[q], seen[q]>>
    <3>1. Held(q)' = Held(q)
      BY <1>1, <2>1, HeldKept
    <3>2. QED
      BY <2>1, <3>1 DEF Stage, Unwritten
  <2>2. CASE GetLock(q) \/ GetCopy(q) \/ GetUnlock(q)
    BY <1>1, <2>2 DEF GetLock, GetCopy, GetUnlock, Move, Sections, Processes, Stage
  <2>3. ASSUME NEW f \in Families, Encode(q, f)
        PROVE  /\ Stage(q)' = Stage(q)
               /\ Unwritten(q)' \subseteq Unwritten(q) /\ Unwritten(q)' # Unwritten(q)
    <3>1. Held(q)' = Held(q)
      BY <1>1, <2>3, HeldKept DEF Encode
    <3>2. /\ pc' = pc /\ f \in DOMAIN Held(q) /\ f \notin seen[q]
          /\ seen'[q] = seen[q] \cup {f}
      BY <1>1, <2>3 DEF Encode, Sharing, TypeOK
    <3>3. QED
      BY <3>1, <3>2 DEF Stage, Unwritten
  <2>4. CASE EncodeFails(q) \/ EncodeEnd(q)
    BY <1>1, <2>4 DEF EncodeFails, EncodeEnd, Move, Sections, Processes, Stage
  <2>5. CASE Respond(q)
    BY <1>1, <2>5 DEF Respond, Sections, Processes, Stage
  <2>6. ~ \E c \in Clouds, w \in SUBSET Services : Request(q, c, w)
    BY <1>1 DEF Request, Move
  <2>7. ASSUME NEW r \in Readers \ {q}, Handle(r)
        PROVE  UNCHANGED <<pc[q], ref[q], seen[q]>>
    BY <1>1, <2>7
    DEF Handle, Request, GetLock, GetCopy, GetUnlock, Encode, EncodeFails, EncodeEnd,
        Respond, Move, Sections, Sharing, TypeOK, Processes
  <2>8. CASE Collect
    <3>1. pc'[q] = pc[q] /\ ref'[q] = ref[q]
      BY <1>1, <2>8, ProcessAssumption
      DEF Collect, NewCloudCache, SetMetricFamilyCache, SetLock, SetInit, SetStore,
          SetUnlock, FlushLock, FlushKey, FlushUnlock, Move, Sections, Sharing, TypeOK,
          Processes
    <3>2. seen' = seen
      BY <2>8
      DEF Collect, NewCloudCache, SetMetricFamilyCache, SetLock, SetInit, SetStore,
          SetUnlock, FlushLock, FlushKey, FlushUnlock
    <3>3. QED
      BY <2>1, <3>1, <3>2
  <2>9. CASE (\E c \in Clouds : GrowOld(c)) \/ UNCHANGED vars
    BY <2>1, <2>9 DEF GrowOld, vars
  <2>10. QED
    BY <1>1, <2>1, <2>2, <2>3, <2>4, <2>5, <2>6, <2>7, <2>8, <2>9 DEF Next, Handle
<1>2. Sections /\ Sharing /\ Sharing' /\ [Next]_vars => [Advances]_vars
  BY <1>1 DEF Advances
<1>3. QED
  BY <1>2, SectionsInvariant, SharingInvariant, PTL DEF Spec

\* An address for each cloud, for each handler and for the map being built.
EnoughRefs ==
  /\ IsFiniteSet(Clouds) /\ IsFiniteSet(Readers) /\ IsFiniteSet(Refs)
  /\ Cardinality(Refs) > Cardinality(Clouds) + Cardinality(Readers)

\* The holder of the mutex never waits: init finds an address, the flush its keys.
NeverWaits ==
  /\ pc[Collector] = "idle" => Unused # {}
  /\ pc[Collector] = "init" => cloud[Collector] \in DOMAIN CloudCaches \/ Unused # {}
  /\ pc[Collector] = "flush" => visit \subseteq DOMAIN CloudCaches

\* The number of maps a function of a finite set takes.
LEMMA ImageCounts ==
  ASSUME NEW S, IsFiniteSet(S), NEW f, DOMAIN f = S
  PROVE  LET T == {f[x] : x \in S} IN
         /\ IsFiniteSet(T)
         /\ Cardinality(T) \in Nat /\ Cardinality(T) <= Cardinality(S)
<1> DEFINE T == {f[x] : x \in S}
           g == [x \in S |-> f[x]]
<1>1. g \in Surjection(S, T)
  BY DEF Surjection
<1> HIDE DEF g, T
<1>2. IsFiniteSet(T) /\ Cardinality(T) <= Cardinality(S)
  BY <1>1, FS_Surjection
<1>3. Cardinality(T) \in Nat
  BY <1>2, FS_CardinalityType
<1>4. QED
  BY <1>2, <1>3 DEF T

\* One more than the sum, at most.
LEMMA ThreeParts ==
  ASSUME NEW A, IsFiniteSet(A), NEW B, IsFiniteSet(B), NEW x
  PROVE  /\ IsFiniteSet(A \cup B \cup {x})
         /\ Cardinality(A) \in Nat /\ Cardinality(B) \in Nat
         /\ Cardinality(A \cup B \cup {x}) \in Nat
         /\ Cardinality(A \cup B) \in Nat
         /\ Cardinality(A \cup B) <= Cardinality(A) + Cardinality(B)
         /\ Cardinality(A \cup B \cup {x}) <= Cardinality(A) + Cardinality(B) + 1
<1>1. Cardinality(A) \in Nat /\ Cardinality(B) \in Nat
  BY FS_CardinalityType
<1>2. Cardinality(A \cap B) \in Nat
  BY FS_Subset, FS_CardinalityType
<1>3. /\ IsFiniteSet(A \cup B)
      /\ Cardinality(A \cup B) = Cardinality(A) + Cardinality(B) - Cardinality(A \cap B)
  BY FS_Union
<1>4. Cardinality(A \cup B) \in Nat
  BY <1>3, FS_CardinalityType
<1>5. /\ IsFiniteSet(A \cup B \cup {x})
      /\ Cardinality(A \cup B \cup {x}) \in {Cardinality(A \cup B), Cardinality(A \cup B) + 1}
  BY <1>3, FS_AddElement
<1>6. QED
  BY <1>1, <1>2, <1>3, <1>4, <1>5

\* With an address for every cloud, every handler and one map more, nobody ever waits
\* for an address: the bound takes away no step of SetCloudCache, whose holder of the
\* mutex can always go on to its Unlock (cache/cache.go:89-100 and 116-137).
THEOREM AddressesSuffice ==
  ASSUME EnoughRefs
  PROVE  Spec => []NeverWaits
<1> DEFINE A == {CloudCaches[c].ref : c \in DOMAIN CloudCaches}
           B == {ref[r] : r \in Readers}
<1>1. ASSUME Sharing
      PROVE  /\ IsFiniteSet(A) /\ IsFiniteSet(B) /\ IsFiniteSet(DOMAIN CloudCaches)
             /\ Cardinality(A) \in Nat /\ Cardinality(B) \in Nat
             /\ Cardinality(A) <= Cardinality(DOMAIN CloudCaches)
             /\ Cardinality(B) <= Cardinality(Readers)
  <2>1. DOMAIN CloudCaches \subseteq Clouds
    BY <1>1 DEF Sharing, TypeOK
  <2>2. IsFiniteSet(DOMAIN CloudCaches)
    BY <2>1, FS_Subset DEF EnoughRefs
  <2>3. IsFiniteSet(A) /\ Cardinality(A) \in Nat /\ Cardinality(A) <= Cardinality(DOMAIN CloudCaches)
    <3> DEFINE f == [c \in DOMAIN CloudCaches |-> CloudCaches[c].ref]
    <3>1. A = {f[c] : c \in DOMAIN CloudCaches}
      OBVIOUS
    <3>2. DOMAIN f = DOMAIN CloudCaches
      OBVIOUS
    <3> HIDE DEF f, A
    <3>3. QED
      BY <2>2, <3>1, <3>2, ImageCounts
  <2>4. IsFiniteSet(B) /\ Cardinality(B) \in Nat /\ Cardinality(B) <= Cardinality(Readers)
    <3> DEFINE f == [r \in Readers |-> ref[r]]
    <3>1. B = {f[r] : r \in Readers}
      OBVIOUS
    <3>2. DOMAIN f = Readers
      OBVIOUS
    <3> HIDE DEF f, B
    <3>3. QED
      BY <3>1, <3>2, ImageCounts DEF EnoughRefs
  <2>5. QED
    BY <2>2, <2>3, <2>4
<1>2. /\ Cardinality(Clouds) \in Nat /\ Cardinality(Readers) \in Nat /\ Cardinality(Refs) \in Nat
      /\ Cardinality(Refs) > Cardinality(Clouds) + Cardinality(Readers)
  BY FS_CardinalityType DEF EnoughRefs
<1>3. ASSUME Sharing PROVE DOMAIN mem \subseteq A \cup B \cup {ref[Collector]}
  BY <1>3 DEF Sharing, TypeOK, Reachable, Processes
<1>4. ASSUME NEW S, IsFiniteSet(S), DOMAIN mem \subseteq S, Cardinality(S) < Cardinality(Refs)
      PROVE  Unused # {}
  <2> SUFFICES ASSUME Refs \subseteq S PROVE FALSE
    BY <1>4 DEF Unused
  <2>1. Cardinality(Refs) <= Cardinality(S) /\ Cardinality(S) \in Nat
    BY <1>4, FS_Subset, FS_CardinalityType
  <2>2. QED
    BY <1>2, <1>4, <2>1
<1>5. ASSUME Sections, Sharing, pc[Collector] = "idle" PROVE Unused # {}
  <2>1. ref[Collector] = NoRef
    BY <1>5 DEF Sharing, OwnMap, Building
  <2>2. DOMAIN mem \subseteq A \cup B
    BY <1>5, <2>1 DEF Sharing, TypeOK, Reachable, Processes
  <2>3. /\ IsFiniteSet(A) /\ IsFiniteSet(B)
        /\ Cardinality(A) <= Cardinality(Clouds) /\ Cardinality(B) <= Cardinality(Readers)
        /\ Cardinality(A) \in Nat /\ Cardinality(B) \in Nat
    <3>1. Cardinality(DOMAIN CloudCaches) <= Cardinality(Clouds)
      BY <1>5, FS_Subset DEF EnoughRefs, Sharing, TypeOK
    <3>2. Cardinality(DOMAIN CloudCaches) \in Nat
      BY <1>1, <1>5, FS_CardinalityType
    <3> HIDE DEF A, B
    <3>3. QED
      BY <1>1, <1>2, <1>5, <3>1, <3>2
  <2> HIDE DEF A, B
  <2>4. /\ Cardinality(A \cup B) <= Cardinality(A) + Cardinality(B)
        /\ Cardinality(A \cup B) \in Nat
    BY <2>3, ThreeParts
  <2>5. IsFiniteSet(A \cup B)
    BY <2>3, FS_Union
  <2>6. Cardinality(A \cup B) < Cardinality(Refs)
    BY <1>2, <2>3, <2>4
  <2>7. QED
    BY <1>4, <2>2, <2>5, <2>6
<1>6. ASSUME Sections, Sharing, pc[Collector] = "init", cloud[Collector] \notin DOMAIN CloudCaches
      PROVE  Unused # {}
  <2> DEFINE c == cloud[Collector]
             D == DOMAIN CloudCaches
  <2>1. c \in Clouds /\ D \subseteq Clouds \ {c}
    BY <1>6 DEF Sharing, TypeOK, Errands, Building
  <2> HIDE DEF c
  <2>2. /\ IsFiniteSet(Clouds \ {c})
        /\ Cardinality(Clouds \ {c}) = Cardinality(Clouds) - 1
    BY <2>1, FS_RemoveElement DEF EnoughRefs
  <2>3. Cardinality(D) <= Cardinality(Clouds) - 1 /\ Cardinality(D) \in Nat
    BY <2>1, <2>2, FS_Subset, FS_CardinalityType
  <2>4. /\ IsFiniteSet(A) /\ IsFiniteSet(B)
        /\ Cardinality(A) \in Nat /\ Cardinality(B) \in Nat
        /\ Cardinality(A) <= Cardinality(D)
        /\ Cardinality(B) <= Cardinality(Readers)
    BY <1>1, <1>6
  <2>5. DOMAIN mem \subseteq A \cup B \cup {ref[Collector]}
    BY <1>3, <1>6
  <2> HIDE DEF A, B, D
  <2>6. /\ IsFiniteSet(A \cup B \cup {ref[Collector]})
        /\ Cardinality(A \cup B \cup {ref[Collector]}) \in Nat
        /\ Cardinality(A \cup B \cup {ref[Collector]}) <= Cardinality(A) + Cardinality(B) + 1
    BY <2>4, ThreeParts
  <2>7. Cardinality(A \cup B \cup {ref[Collector]}) < Cardinality(Refs)
    BY <1>2, <2>3, <2>4, <2>6
  <2>8. QED
    BY <1>4, <2>5, <2>6, <2>7
<1>7. Sections /\ Sharing => NeverWaits
  BY <1>5, <1>6 DEF NeverWaits, Sharing
<1>8. QED
  BY <1>7, SectionsInvariant, SharingInvariant, PTL

===========================================================================
