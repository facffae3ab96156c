--------------------------- MODULE EndpointOpts ---------------------------
(***************************************************************************)
(* The process-wide map endpointOptsV2 (exporters/exporter.go): enabling   *)
(* an exporter stores the EndpointOpts of its cloud under the name of the  *)
(* service (NewServiceClientV2, exporters/utils.go), under a mutex; the    *)
(* list functions that need the projects of the cloud look the options of  *)
(* the identity service up, or else their own, without the mutex           *)
(* (newIdentityV3ClientV2FromExporter, exporters/keystone.go).             *)
(*                                                                         *)
(* A scrape is a cloud that CollectCache visits, or a request.  The two    *)
(* differ in order: CollectCache gathers every exporter as soon as it is   *)
(* enabled, a handler enables them all and gathers them together.          *)
(***************************************************************************)
EXTENDS Naturals, Sequences, FiniteSets

CONSTANTS
  Clouds,
  CloudArg,   \* the one cloud of mode "metrics"
  Handlers,   \* goroutines that scrape
  Collector,  \* the one of them that runs when the cache is enabled
  Orders,     \* lists of services that a request may ask for
  Configured, \* the configured services, in the order of SupportedExporters
  Readers,    \* services with a list function that calls GetProjects
  Free,       \* nobody holds endpointOptsV2Mu
  NoCloud     \* the lookup has found no options

ASSUME OptsAssumption ==
  /\ CloudArg \in Clouds
  /\ Collector \in Handlers
  /\ Free \notin Handlers
  /\ NoCloud \notin Clouds
  /\ Configured \in Orders
  /\ \A o \in Orders : o \in Seq(STRING)

VARIABLES
  mode,        \* "cached", "probe" (--multi-cloud) or "metrics" (one cloud)
  opts,        \* endpointOptsV2; the options are named by their cloud
  mu,          \* endpointOptsV2Mu
  pc,          \* of each scrape
  cloud, order, next,
  registered,  \* services whose exporter is enabled and not gathered yet
  pending,     \* gathered exporters whose GetProjects has not been called yet
  reading,     \* those that read endpointOptsV2 now
  written,     \* services whose options this scrape has stored
  used,        \* history: <<service, cloud of the options, trusted>>
  overlapped,  \* history: two scrapes have run at the same time
  exited       \* os.Exit

vars == <<mode, opts, mu, pc, cloud, order, next, registered, pending, reading,
          written, used, overlapped, exited>>

Services == UNION {{o[i] : i \in 1..Len(o)} : o \in Orders}

Init ==
  /\ mode \in {"cached", "probe", "metrics"}
  /\ opts = [s \in {} |-> NoCloud]
  /\ mu = Free
  /\ pc = [h \in Handlers |-> "idle"]
  /\ cloud = [h \in Handlers |-> CloudArg]
  /\ order = [h \in Handlers |-> <<>>]
  /\ next = [h \in Handlers |-> 1]
  /\ registered = [h \in Handlers |-> {}]
  /\ pending = [h \in Handlers |-> {}]
  /\ reading = [h \in Handlers |-> {}]
  /\ written = [h \in Handlers |-> {}]
  /\ used = [h \in Handlers |-> {}]
  /\ overlapped = FALSE
  /\ exited = FALSE

---------------------------------------------------------------------------
(* Enabling the exporters.                                                 *)

Service(h) == order[h][next[h]]

\* CollectCache takes up a cloud, or a request comes in; /metrics has one cloud.
Begin(h, c, o) ==
  /\ ~exited
  /\ pc[h] = "idle"
  /\ mode = "cached" => h = Collector
  /\ mode = "metrics" => c = CloudArg
  /\ mode # "probe" => o = Configured
  /\ pc' = [pc EXCEPT ![h] = "enable"]
  /\ cloud' = [cloud EXCEPT ![h] = c]
  /\ order' = [order EXCEPT ![h] = o]
  /\ next' = [next EXCEPT ![h] = 1]
  /\ registered' = [registered EXCEPT ![h] = {}]
  /\ written' = [written EXCEPT ![h] = {}]
  /\ used' = [used EXCEPT ![h] = {}]
  /\ overlapped' = (overlapped \/ \E g \in Handlers \ {h} : pc[g] # "idle")
  /\ UNCHANGED <<mode, opts, mu, pending, reading, exited>>

\* Clouds.yaml or the authentication fails: continue with the next service.
EnableFails(h) ==
  /\ ~exited
  /\ pc[h] = "enable"
  /\ next[h] <= Len(order[h])
  /\ next' = [next EXCEPT ![h] = @ + 1]
  /\ UNCHANGED <<mode, opts, mu, pc, cloud, order, registered, pending, reading,
                 written, used, overlapped, exited>>

\* The goroutine has authenticated and has the options of its cloud in hand.
Authenticated(h) ==
  /\ ~exited
  /\ pc[h] = "enable"
  /\ next[h] <= Len(order[h])
  /\ pc' = [pc EXCEPT ![h] = "lock"]
  /\ UNCHANGED <<mode, opts, mu, cloud, order, next, registered, pending, reading,
                 written, used, overlapped, exited>>

\* endpointOptsV2Mu.Lock
Lock(h) ==
  /\ ~exited
  /\ pc[h] = "lock"
  /\ mu = Free
  /\ mu' = h
  /\ pc' = [pc EXCEPT ![h] = "write"]
  /\ UNCHANGED <<mode, opts, cloud, order, next, registered, pending, reading,
                 written, used, overlapped, exited>>

\* Mutants of Stored: a new map each time; an entry is only made once.
StoredAlone(s, c) == [t \in {s} |-> c]

StoredOnce(s, c) ==
  [t \in DOMAIN opts \cup {s} |-> IF t \in DOMAIN opts THEN opts[t] ELSE c]

\* endpointOptsV2[service] = eo
Stored(s, c) ==
  [t \in DOMAIN opts \cup {s} |-> IF t = s THEN c ELSE opts[t]]

\* Mutant of Write: the mutex is not given back.
WriteLocked(h) ==
  /\ ~exited
  /\ pc[h] = "write"
  /\ opts' = Stored(Service(h), cloud[h])
  /\ written' = [written EXCEPT ![h] = @ \cup {Service(h)}]
  /\ pc' = [pc EXCEPT ![h] = "client"]
  /\ UNCHANGED <<mode, mu, cloud, order, next, registered, pending, reading, used,
                 overlapped, exited>>

\* The map is written and the mutex given back.
Write(h) ==
  /\ ~exited
  /\ pc[h] = "write"
  /\ opts' = Stored(Service(h), cloud[h])
  /\ written' = [written EXCEPT ![h] = @ \cup {Service(h)}]
  /\ mu' = Free
  /\ pc' = [pc EXCEPT ![h] = "client"]
  /\ UNCHANGED <<mode, cloud, order, next, registered, pending, reading, used,
                 overlapped, exited>>

\* The client and the exporter are made; the cached collector gathers it at once.
Enabled(h) ==
  /\ ~exited
  /\ pc[h] = "client"
  /\ next' = [next EXCEPT ![h] = @ + 1]
  /\ IF mode = "cached"
       THEN /\ pc' = [pc EXCEPT ![h] = "gather"]
            /\ pending' = [pending EXCEPT ![h] = {Service(h)} \cap Readers]
            /\ UNCHANGED registered
       ELSE /\ pc' = [pc EXCEPT ![h] = "enable"]
            /\ registered' = [registered EXCEPT ![h] = @ \cup {Service(h)}]
            /\ UNCHANGED pending
  /\ UNCHANGED <<mode, opts, mu, cloud, order, reading, written, used, overlapped,
                 exited>>

\* Mutant of ClientFails: the service after the one that failed is left out.
ClientFailsTwice(h) ==
  /\ ~exited
  /\ pc[h] = "client"
  /\ next' = [next EXCEPT ![h] = @ + 2]
  /\ pc' = [pc EXCEPT ![h] = "enable"]
  /\ UNCHANGED <<mode, opts, mu, cloud, order, registered, pending, reading, written,
                 used, overlapped, exited>>

\* The endpoint is not in the catalog, or the constructor of the exporter fails:
\* the options stay in the map.
ClientFails(h) ==
  /\ ~exited
  /\ pc[h] = "client"
  /\ next' = [next EXCEPT ![h] = @ + 1]
  /\ pc' = [pc EXCEPT ![h] = "enable"]
  /\ UNCHANGED <<mode, opts, mu, cloud, order, registered, pending, reading, written,
                 used, overlapped, exited>>

\* The end of the list: the next cloud, or the answer to the request.
AllEnabled(h) ==
  /\ ~exited
  /\ pc[h] = "enable"
  /\ next[h] > Len(order[h])
  /\ IF mode = "cached"
       THEN /\ pc' = [pc EXCEPT ![h] = "idle"]
            /\ UNCHANGED <<registered, pending, exited>>
       ELSE IF mode = "metrics" /\ registered[h] = {}
       THEN /\ exited' = TRUE
            /\ UNCHANGED <<pc, registered, pending>>
       ELSE /\ pc' = [pc EXCEPT ![h] = "gather"]
            /\ pending' = [pending EXCEPT ![h] = registered[h] \cap Readers]
            /\ registered' = [registered EXCEPT ![h] = {}]
            /\ UNCHANGED exited
  /\ UNCHANGED <<mode, opts, mu, cloud, order, next, reading, written, used, overlapped>>

---------------------------------------------------------------------------
(* Gathering: the list functions of the exporters run side by side.        *)

\* newIdentityV3ClientV2FromExporter begins to read the map, without the mutex.
ReadStart(h, s) ==
  /\ ~exited
  /\ pc[h] = "gather"
  /\ s \in pending[h]
  /\ pending' = [pending EXCEPT ![h] = @ \ {s}]
  /\ reading' = [reading EXCEPT ![h] = @ \cup {s}]
  /\ UNCHANGED <<mode, opts, mu, pc, cloud, order, next, registered, written, used,
                 overlapped, exited>>

\* The list functions that call GetProjects are disabled.
ReadSkipped(h, s) ==
  /\ ~exited
  /\ pc[h] = "gather"
  /\ s \in pending[h]
  /\ pending' = [pending EXCEPT ![h] = @ \ {s}]
  /\ UNCHANGED <<mode, opts, mu, pc, cloud, order, next, registered, reading, written,
                 used, overlapped, exited>>

\* The options of identity, else those of the service itself.
LookedUp(s) ==
  IF "identity" \in DOMAIN opts THEN opts["identity"]
  ELSE IF s \in DOMAIN opts THEN opts[s] ELSE NoCloud

\* Nothing of another scrape can be under the name that is looked up.
Trusted(h) == "identity" \in written[h] \/ "identity" \notin DOMAIN opts

ReadEnd(h, s) ==
  /\ ~exited
  /\ s \in reading[h]
  /\ reading' = [reading EXCEPT ![h] = @ \ {s}]
  /\ used' = [used EXCEPT ![h] = @ \cup {<<s, LookedUp(s), Trusted(h)>>}]
  /\ UNCHANGED <<mode, opts, mu, pc, cloud, order, next, registered, pending, written,
                 overlapped, exited>>

\* Mutant of Gathered: Collect does not wait for its goroutines.
GatheredEarly(h) ==
  /\ ~exited
  /\ pc[h] = "gather"
  /\ pending[h] = {}
  /\ pc' = [pc EXCEPT ![h] = IF mode = "cached" THEN "enable" ELSE "idle"]
  /\ UNCHANGED <<mode, opts, mu, cloud, order, next, registered, pending, reading,
                 written, used, overlapped, exited>>

\* registry.Gather returns when all Collect have returned.
Gathered(h) ==
  /\ ~exited
  /\ pc[h] = "gather"
  /\ pending[h] = {}
  /\ reading[h] = {}
  /\ pc' = [pc EXCEPT ![h] = IF mode = "cached" THEN "enable" ELSE "idle"]
  /\ UNCHANGED <<mode, opts, mu, cloud, order, next, registered, pending, reading,
                 written, used, overlapped, exited>>

---------------------------------------------------------------------------
Step(h) == \/ EnableFails(h) \/ Authenticated(h) \/ Write(h) \/ Enabled(h)
           \/ ClientFails(h) \/ AllEnabled(h) \/ Gathered(h)
           \/ \E s \in Services : ReadStart(h, s) \/ ReadSkipped(h, s) \/ ReadEnd(h, s)

Stopped == exited /\ UNCHANGED vars

Next == \/ \E h \in Handlers : \/ \E c \in Clouds, o \in Orders : Begin(h, c, o)
                               \/ Lock(h) \/ Step(h)
        \/ Stopped

Spec == Init /\ [][Next]_vars

\* Every goroutine runs and every API call answers or fails.  A sync.Mutex is
\* handed over to a goroutine that has waited for long, hence the strong fairness.
Fairness == \A h \in Handlers : WF_vars(Step(h)) /\ SF_vars(Lock(h))

FairSpec == Spec /\ Fairness

---------------------------------------------------------------------------
(* Properties.                                                             *)

OptsOK == /\ DOMAIN opts \subseteq Services
          /\ \A s \in DOMAIN opts : opts[s] \in Clouds

\* Nobody is past the end of its list.
ListsOK == /\ order \in [Handlers -> Orders \cup {<<>>}]
           /\ next \in [Handlers -> Nat \ {0}]
           /\ \A h \in Handlers : next[h] <= Len(order[h]) + 1

ScrapesOK ==
  /\ pc \in [Handlers -> {"idle", "enable", "lock", "write", "client", "gather"}]
  /\ cloud \in [Handlers -> Clouds]
  /\ registered \in [Handlers -> SUBSET Services]
  /\ pending \in [Handlers -> SUBSET Readers]
  /\ reading \in [Handlers -> SUBSET Readers]
  /\ written \in [Handlers -> SUBSET Services]
  /\ used \in [Handlers -> SUBSET (Readers \X (Clouds \cup {NoCloud}) \X BOOLEAN)]

TypeOK ==
  /\ mode \in {"cached", "probe", "metrics"}
  /\ mu \in Handlers \cup {Free}
  /\ overlapped \in BOOLEAN
  /\ exited \in BOOLEAN
  /\ OptsOK
  /\ ListsOK
  /\ ScrapesOK

\* endpointOptsV2 is a Go map: two writers, or a writer and a reader, at the same
\* time end the process.  Writers always exclude each other, a reader never meets
\* a writer of its own scrape, since the collection of an exporter is over before
\* the next one is enabled, and it meets no writer at all unless two scrapes have
\* overlapped, which the cached mode excludes (utils.go:133-139, keystone.go:165-167).
Excluded ==
  \A h \in Handlers : pc[h] = "write" =>
    /\ \A g \in Handlers \ {h} : pc[g] # "write"
    /\ reading[h] = {}
    /\ ~overlapped \/ mode = "cached" => \A g \in Handlers : reading[g] = {}

\* Whoever is gathered finds options: its own are there, however many other
\* scrapes have written the map, so that "no EndpointOpts available to create
\* Identity client" (keystone.go:170) never happens.
OptionsFound ==
  \A h \in Handlers : \A u \in used[h] : u[2] # NoCloud

\* As long as scrapes do not overlap, a scrape that has stored the options of
\* identity itself, or finds none of them stored, uses the options of its own cloud,
\* whatever the scrapes before it left in the map and whichever exporters failed
\* (utils.go:138, keystone.go:165-168).
OwnWhenTrusted ==
  ~overlapped =>
    \A h \in Handlers : \A u \in used[h] : u[3] => u[2] = cloud[h]

\* Every scrape comes to its end, although all of them need the one mutex and
\* enabling an exporter fails in several places.
ScrapesEnd ==
  \A h \in Handlers : pc[h] = "enable" ~> (pc[h] = "idle" \/ exited)

\* What is gathered for a cloud is asked from that cloud's options, in the cached
\* mode, where scrapes never overlap: "Keep a map of the EndpointOpts for each
\* service" (utils.go:133), "Name or id of the cloud to gather metrics from"
\* (README.md).
OwnCloud ==
  mode = "cached" => \A h \in Handlers : \A u \in used[h] : u[2] = cloud[h]
===========================================================================
