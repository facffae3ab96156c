# A TLA+ verification of openstack-exporter

The exporter reads the APIs of one or more OpenStack clouds and answers HTTP
requests with Prometheus metrics. This directory holds TLA+ models of the parts
of it where interleavings, failures and time matter, TLC configurations that
check them on small instances, and theorems about them with proofs that TLAPS
checks. Source paths below are relative to the repository.

    tlc -config cache_content.cfg MCCacheService     # one run
    tlapm CacheServiceProofs.tla                     # one module of proofs

## 1. Inventory

| part | state | operations | hard behaviour | what makes it correct |
|---|---|---|---|---|
| cached collection: `cacheBackgroundService` (main.go), `CollectCache` (cache/utils.go) | two tickers, the clouds still to visit, the snapshot being built | collect every cloud, flush expired entries, stop | one goroutine does both; collections may outlast the periods; clouds.yaml is edited meanwhile; exporters fail | snapshots are never mixed; ages are bounded; a failure costs only its own service; removed clouds are forgotten; the process does not survive the goroutine |
| in-memory cache (cache/cache.go, `BufferFromCache`) | a mutex, a map of clouds, a map of families per cloud shared by reference | `SetCloudCache`, `GetCloudCache`, `FlushExpiredCloudCaches` | handlers range over a map after the mutex is released | behaves like a store whose operations are atomic; nobody writes a map that somebody else may read |
| exporters: registration and collection (exporters/exporter.go) | the map of metrics, a failure counter | `AddMetric`, `Collect`, `RunCollection` | a goroutine per list function; some fail, some panic | `up` says whether anything was collected; nothing is sent after `Collect` has returned |
| exporters: tables (exporters/*.go) | none | fifteen tables of metrics; the list function of one metric emits others | switches leave descriptors out | no list function looks up a descriptor that is not there |
| designate (exporters/designate.go, `ListZonesAndRecordsets`) | an errgroup with a limit, a cancelled context | list the recordsets of every zone | zones fail at any moment; more zones than slots | a zone is reported in full or not at all; the error is the cause |
| options map `endpointOptsV2` (exporters/exporter.go, utils.go, keystone.go) | a process-wide map and its mutex | `NewServiceClientV2` writes, `newIdentityV3ClientV2FromExporter` reads | written by every exporter of every cloud, read without the mutex | writers and readers exclude each other; a cloud is asked with its own options |
| service selection (main.go, exporters/utils.go) | a state per service | flags, autodetection, include and exclude lists | two passes over the states; empty and repeated parts of a list | what README.md describes; no exporter is registered twice |
| subnet pools (exporters/neutron.go:682-808) | none | free, used and total prefixes of each length | subnets longer or shorter than the length asked for; two requests, with edits of neutron between them | the counts agree with each other and with a count by enumeration |
| servers of nova (exporters/nova.go:352-437, 534-564) | none | the servers, and the flavors if the servers come without flavor ids | two formats of an answer, two requests, with edits of nova between them | every server is reported with the id of its flavor |
| API microversions (utils/microversion.go) | the microversion of a client | `SetupClientMicroversionV2`, `IsMicroversionAtLeast` | several version documents, some without a range | the service supports what the client asks for |
| label mapping flag (utils/kingpin_parser.go) | labels and keys | `Set`, `Extract` | repeated flags, empty parts, bad names | no label twice, a value for each |
| values of the other list functions, Vault password, HTTP server and TLS, packaging | — | — | — | not modelled, see section 8 |

How they meet. In cached mode the background goroutine runs `CollectCache`; it
enables one exporter at a time (which writes `endpointOptsV2`), gathers it through
a registry of its own (which calls `Collect`, whose goroutines may read
`endpointOptsV2`), copies the families into a map and stores that map in the
in-memory cache, from which the handlers read. Without the cache a handler enables
the selected exporters itself, all of them first, and gathers them together. `main`
waits for the context: a signal, an error of the web server, or an error of
`CollectCache` ends it. Before all that `main` parses the command line (switches of the
services, label mapping, switches of the metrics) and resolves the services. Making
the exporter of nova or ironic settles the microversion of its client; the list
functions run in the goroutines of `Collect`, and designate's starts goroutines of
its own.

## 2. Modules

| module | models | its state is |
|---|---|---|
| `CloudStore` | the contract of `CacheBackend`: publish, expire, read, each atomic | snapshots per cloud, answers per reader |
| `CacheService` | `cacheBackgroundService`, `CollectCache`, the three cache operations as atomic steps, the end of `main` | `CloudCaches` with an age for the time stamp; `pc` of the goroutine; the variables of `CollectCache`; two tickers with their one-place channels; `cause` and `exited` |
| `CacheTiming` | `CacheService` on a machine that keeps up | how long the collection runs, which clouds the last two listed |
| `InMemoryCache` | `cache/cache.go` step by step, `BufferFromCache` | the mutex, the map, the maps by address, and where every goroutine is |
| `MetricTable` | what `AddMetric` keeps and what a list function looks up | (operators only) |
| `ExporterTables` | the fifteen tables | (constants only) |
| `ExporterCollect` | the flags that select metrics, `AddMetric`, `Collect` and `RunCollection` | the switches, the loop, a place per goroutine, the counters, what was sent for `up` |
| `ZoneFanout` | `ListZonesAndRecordsets` | a place per zone, samples sent, the context, the error of the group |
| `Exporters` | `ExporterCollect` with `ZoneFanout` as the list function of designate | that of both |
| `SubnetPools` | `ListSubnetsPerPool` and the three functions it calls | neutron's pools and subnets, the two answers, the samples |
| `EndpointOpts` | `endpointOptsV2` under the three modes | the map, the mutex, the place of each scrape, who reads |
| `ServiceSelection` | `resolveServiceConfig`, `AutodetectServicesFromCatalog`, `selectServicesForRequest` | the flags, the catalog, the configured services, a request |
| `NovaServers` | `LabelMappingFlag`, `SetupClientMicroversionV2`, `ListAllServers` | labels and keys, the microversion, nova's flavors and servers, the answer, the map of flavors, the samples |
| `Startup` | `ServiceSelection` with `NovaServers`: from the command line to the samples of nova | that of both |

`MC*` modules give the constants values for TLC; `*Proofs` modules hold the
theorems. `CacheService` and `InMemoryCache` are both shown to implement
`CloudStore`, from two sides: the first lets the store be atomic and looks at what
is put into it, the second looks at the locking and the sharing inside it. The
refinement mappings are at the end of each module. In `InMemoryCache` the empty entry
that `init` puts in the map (cache.go:89-101) is not part of the abstract store, and
the answer of a handler is fixed when it has copied the entry.

Correspondence. An action is a piece of code between two points where another
goroutine can act or where a branch is taken: for `CollectCache` reading clouds.yaml,
enabling an exporter, gathering it, and publishing; for the cache every access to
the map. `SkipService` is both `continue`s of cache/utils.go:71-85. `pc` names the
place. History variables (`got`, `placed`, `causes`, `used`, `overlapped`) are read by
properties and by no guard. `PROJECT.json` maps every definition to its lines.

What is abstract. Samples are a family name, the service and whether the
running or an earlier collection gathered them. Time is in ticks; a time stamp is the
age of its entry, and ages saturate one above twice the TTL, past every comparison of
the code. The requests to an API are one step that succeeds or fails. A name in a
list of services is one of the exporters, an unknown one, or blank. A label name is a
sequence of characters, so that the regular expression is modelled by what it matches.
A prefix of addresses is a block of integers; neutron's own rules (pools only grow and
are compacted, the subnets of a pool are disjoint and lie in it) and the two formats of
nova's answer are external, and stated in the headers of `SubnetPools` and `NovaServers`.

Composition. `Exporters` and `Startup` extend the modules they compose and have
actions that are steps of one part, or of both: `StartZones` starts the goroutine of
the list function and calls it, `ZonesListed` and `ZonesFailed` hand its result to
`RunCollection`, `ZonePanics` lets a goroutine of a zone end the process when its
metric is not registered. `Startup` lets the exporter of nova be made only once the
services are resolved and compute is one of them.

## 3. Runs

| run | instance | what it shows |
|---|---|---|
| `cache_content` | one cloud, two services that both return the collection-time family, TTL of 2 ticks, clouds.yaml with, without the cloud and unreadable | snapshots never mix collections (`NoMix`), a failed service costs the others nothing (`NothingLost`), no entry is as old as twice the TTL unless a flush is due (`StaleBound`), and the cache is a `CloudStore` (`ImplementsStore`) |
| `cache_timing` | two clouds, the second comes and goes, TTL of 4, collections of up to 4 ticks | the cache has no gap for a listed cloud (`NoGap`), and the age of what is served is bounded (`ListedAgeBound`) |
| `cache_live` | two clouds, the second comes and goes and the file may be unreadable, TTL of 2 | every listed cloud is published, a due flush runs, a removed cloud is forgotten, the process ends when its goroutine has |
| `cache_seconds` | as `cache_content` | violation, see section 6 |
| `store` | two clouds, collector and one handler, four map addresses | the shared maps implement `CloudStore`, the collector alone writes a map, no two clouds share one, no lookup meets a write, every request is answered |
| `exporters` | the real tables of all fifteen exporters, both group switches, up to two disabled metrics; the goroutines of every collection of up to three list functions, and of cinder; in designate three zones of zero or one recordset, limit of 2 | no switch makes a list function look up a descriptor that is not there, as long as the disabled metrics have a list function or a guard of their own (`SwitchesSafe`); `up` is right and is sent, nothing runs after it; the fan-out is complete, never partial, reports a cause, and returns; what `up` says of the zones (`DesignateUp`) |
| `exporter_disabled` | cinder with `--disable-metric cinder-volume_gb` | violation, see section 6 |
| `opts` | two clouds, two scrapes, two services in either order, all three modes | writers exclude each other and the readers of their own scrape, and all readers until two scrapes overlap; a lookup finds options, and the right ones once identity is stored |
| `opts_cloud` | as `opts` | violation, see section 6 |
| `startup` | two exporters, four catalog types, include lists of up to three parts, exclude lists of up to two; with one cloud, up to two labels out of seven mappings, five answers of version documents, three requested microversions or none, one server and two flavors, four edits of nova | the configured set is the documented one, requests are answered from it or rejected, no exporter twice; labels are distinct, well formed and have a value each; the microversion is supported; a server whose flavor still exists is reported with its id |
| `startup_flavor` | as `startup` | violation, see section 6 |
| `subnet_pools` | two pools in four addresses, three ranges of lengths, five edits of neutron | the free count is exact, free and used fit in the total, and at the greatest length nothing is lost or counted twice |

Every property of a passing run has a mutant in `PROJECT.json`: a change to the
modelled code, such as a dropped guard or a swapped order, under which the run fails.
The mutants are defined beside the definitions they replace.

**Bounds and why they are enough.** One cloud is enough for `cache_content`
because clouds only meet in `todo` and in the domain of `CloudCaches`; the age and
content properties speak of one cloud at a time, and the theorems of section 5
cover any number. Two services and a family that both return are the least that can
mix, lose or overwrite. A TTL of 2 ticks makes a collect tick and a flush tick due
together and lets either ticker drop a tick during a long collection; 4 ticks in
`cache_timing` separate the two periods from the length of a collection. Three zones
under a limit of 2 are the least where the loop waits for a slot while another zone
fails. Two scrapes are the least that can overlap; their orders include identity
first, last and absent. In `store` the cache holds at most one map per cloud, the
collector builds one and the handler keeps one: four addresses. With one family and
one service a handler's range is empty, or has one step before or after any other
step. The include lists have three parts so that a repeat need not be adjacent. Two
bits of address give blocks of three sizes, so that a subnet can be longer than, shorter
than, or as long as what is asked for, and five edits make a pool, two subnets, and grow
the pool or change its range; three bits with four edits pass too and take four
minutes. In `exporters` the goroutines of a collection of more than three list functions
are not interleaved, cinder excepted: they only meet in the counter and in the wait
group, and the theorems of section 5 hold for any number. The panics, the registered
metrics and the flags are those of all fifteen tables. In `startup` two flavors, one
name for both in turn, and one server are what a race between the two requests needs;
the documents end before, between and after the two microversions that matter (2.46
and 2.87). Only in the mode with one cloud does `startup` go on to nova: the exporter is made in
the same way in the others.

**Deadlock** is checked except in the runs of `CacheService` and `CacheTiming`, where
the process really ends (`exited`), and of `Startup`, which follows one request or one
scrape to its end. Other modules say with a stuttering step (`Done`) where they may
stop, so that everything else that stops is found.

## 4. Fairness

* Goroutines run, and the requests to the APIs answer or fail: weak fairness of
  `Collection`, of "some step of the collection" in `Exporters` (whose goroutines are
  finitely many and take each finitely many steps), of the steps of a scrape. The code
  sets no timeout on those requests (`context.TODO()`, exporter.go:117), so this is an
  assumption about the clouds; a server that accepts and never answers stops the
  background goroutine for good.
* `select` picks among its ready cases at random (Go specification): a case that is
  ready again and again is taken, strong fairness of `SelectCollect`, `SelectFlush` and
  `SelectDone`. `DueFlushRuns` needs it when collections last longer than the TTL.
* A `sync.Mutex` hands itself to a waiter that has waited for more than a millisecond:
  strong fairness of the `Lock` actions.
* Nothing is assumed of signals, edits of clouds.yaml, requests, or which of several
  failures happens.

## 5. What is proved

All theorems hold for every value of the constants under the ASSUMEs of their
modules, which the runs evaluate; what each property says is written in its comment.

**CacheServiceProofs** (any clouds, services, families and outcomes, single-cloud or
multi-cloud, TTL of at least two ticks). `TypeCorrect`. `SnapshotsDoNotMix`: `NoMix` is
not inductive, because a snapshot is published from `building`; `NoMixInv` adds that
everything in `building` was gathered by the running collection. `CacheAgeIsBounded`:
between two flushes an entry grows by what `toFlush` shrinks, so `StaleInv` says that,
unless a flush is due, the age and `toFlush` add up to at most twice the TTL.
`FailuresLoseNothing` (inductive with the types).
`CacheIsCloudStore`: each step is a step of `CloudStore` or a stutter: `Publish` is
its `Publish`, `Tick` its `Age`, `Flush` its `Expire`. `CollectionsDescend`: a collection
takes finitely many steps, in the order of the clouds not visited, the services not taken
up and the place in the service. `ListedCloudsAreStored` and `NoSilentReturn` are the
safety halves of `ListedCloudPublished` and `NoOrphanedServer`: a listed cloud leaves
`todo` only to be visited and the visit stores it, and a goroutine that has returned has
left the context cancelled.

**CacheTimingProofs** (as above, any length of collections). `TimingImplementsService`:
`CacheTiming` only delays `CacheService`, so that all of the above holds of it.
`ListedAgesAreBounded`: the bound of `ListedAgeBound` is not inductive, because an entry
grows in every phase of the service. `Clock` ties the length of the running collection to
the collect ticker, as no tick is lost while its channel is empty, and `Ages` bounds the
entries of the listed clouds phase by phase: grown since the collection before, refreshed
by this one, or waiting for the next. `ListedCloudsStay` is `NoGap`, under the hypothesis
that its comment states, `MaxBusy <= TTL`: the one collection that outlasts the TTL may
lose what it has not reached yet.

**InMemoryCacheProofs** (any clouds, handlers, families, services and addresses).
`MapIsGuarded`: the mutex is held exactly by the process between a Lock and its Unlock
(`Sections`). `TypeCorrect` and `MapsAreOwned`: a map becomes that of a cloud in the step
that takes it away from the collector, so that `Sharing` adds that the collector's map is
referred to by nothing else (`OwnMap`), that no two clouds have the same (`Apart`) and
that the flush only visits clouds that are there. `SharedMapsAreCloudStore`: each step is
one of `CloudStore` or a stutter, from these and two more. The empty entry that `init`
puts in the map is there only while the collector is about to replace it
(`Placeholder`), and a handler has written what it has ranged over of the map it copied
(`Written`), which nobody has changed meanwhile, whether or not the cloud still has it.
`RequestsAdvance`: nobody sets a request back, or gives it more to write, though it ranges
over its map without the mutex. `AddressesSuffice`: the addresses in use are those of the
cached clouds and of the handlers, so that with one more than both together (four in
`store`) nobody waits for one, and the bound on `Refs` takes no behaviour away.

**ExporterCollectProofs** (any finite table, any switches). `TypeCorrect`, `UpIsSome`,
`NothingAfterUp`. The counters are the cardinalities of the sets of goroutines started
and counted (`Counters`); when all are at rest, `failures >= metricsCount` then means
that none of them succeeded. `SafeToSwitch`: `SwitchesSafe` for any number of disabled
metrics, of every table that satisfies `SwitchesFit`. That hypothesis speaks of a table
alone, and `MCExporters` assumes it of the fifteen, so that TLC evaluates it on them.
`PanicsExplained`: with such tables `Collect` panics only when the switches leave out
every metric, or disable one that has neither a list function nor a guard of its own.

**ExportersProofs** (any finite set of zones, any limit but 0; then any tables and switches).
Of the fan-out `FanoutTypeCorrect`, with the limit, `SuccessIsComplete`, `NeverInPart`,
`FirstErrorIsCause`. The invariant ties the samples sent to the place of the goroutine
(`SentByPlace`), the zones still to be started to those without a goroutine
(`StartedOnce`), a failure to its cause or to the cancellation (`ErrorTraced`), and the
result to the error (`ReturnedRight`). `ImplementsParts`: every behaviour of `Exporters` is
one of `ExporterCollect` and one of `ZoneFanout`, because each of its steps is a step of
both or leaves a part as it is; so all theorems of the two hold of the whole
(`ExportersTypeCorrect`, `PartsHold`, `ExportersSafeToSwitch`). `UpIsOfZones`:
`DesignateUp`, from the invariants of the two and `Linked`, which says what
`RunCollection` has seen of the list function. `CollectionsDescend`: once the switches
are chosen, every step makes three numbers smaller in lexicographic order: the steps that
`Collect` and its list functions have left (`CollectWork`), those of the fan-out
(`ZonesWork`), and the samples listed and not sent (`Unsent`). The first two are sizes of
sets of pairs (`WorkSet`), which only lose elements, so that no sum over goroutines is
needed. `NobodyIsStuck`: before the end of `Collect` the guard of some step holds. A full
limit means that a goroutine is running, which can go on; with no zone left and none
running `g.Wait` returns, and with it the list function that `Collect` waits for.

**StartupProofs** (any lists of services, flags, catalog and parameters of a request; any
mappings, names, version documents, flavors, servers and number of edits). What the code
computes in a loop the models write with `FoldLeft`, and a loop needs induction. The
library's induction theorems cannot be used here, because they take an operator; but every
set of naturals that is not empty has a least element (`LeastNatural`), and so a set with
0, and with k + 1 for every k of it, has them all (`UpTo`). With that a fold is shown to
exist (`FoldExists`) and to go step by step (`FoldSteps`), which gives what the loops
compute: `KeptFacts` and `UniqueFacts` for those over lists of services, `MaximumSteps`
and `DetectedFacts` for the one over the version documents. From these, `ResolvedRight`,
`AnsweredRight` and `NeverTwice` (`Selected` is inductive) and `SupportedIsChosen`
(`Settled`: the client's microversion is what was asked for, or the default for these
documents). `LabelsAreKept`: a name that `labelNameConstraintRe` matches is not empty and
starts with neither a digit nor two underscores (`AcceptedIsGood`), and labels only grow by
such names that are new (`Mapped`). `FlavorIdIsFound`: the flavors that exist have ids and
names of their own (`Catalog`); what was answered is what nova answers at the microversion
of the client, and the mapper is that of the flavors which exist, since nothing is edited
that matters after the second answer (`Answered`). `Startup` implements `ServiceSelection`
and `NovaServers` (`ImplementsParts`), so that all this holds of it (`StartupServesRight`,
`StartupKeepsLabels`, `StartupFindsFlavorIds`).

**EndpointOptsProofs** (any number of clouds, scrapes and services). `TypeCorrect`,
`WritersExclude`, `LookupSucceeds`, `OwnOptions`. The invariant: the mutex is held
exactly by the scrape that writes (`Mutex`), no scrape but the collector's ever runs in
cached mode (`OnlyCollector`), a scrape reads only while it gathers
(`Places`), an exporter that may still look options up has stored its own and nothing
is ever deleted (`Stores`), and without an overlap one scrape is at work at most, so
that what it has stored is still there (`Alone`). `ScrapesDescend`: each step of a scrape
leaves fewer services (`Rest`), steps for this one (`Place`) or exporters to gather, and no
step of another scrape sets it back. `MutexComesFree`: a scrape that has no step waits
for the mutex, which is free or held by another one that is about to unlock it.

**SubnetPoolsProofs** (any number of bits, pools, subnets and edits). `FreeCounted`,
`FreeAndUsedAreParts` and `SubnetsAccounted` are the three properties. What the library
says of the number of subsets of a set gives the arithmetic of `2^n`: `PowerSum` maps the
pairs of subsets of two sets to the subsets of their union. Two prefixes are nested or
apart (`Nested`); so every prefix within a set of addresses lies in one of the largest
(`InLargest`), these are apart (`LargestApart`), and each holds `2^(l - bits)` of length l
(`WithinCount`). `MapThenSumSet` picks a function that satisfies the equations of the sum.
There is one, as the sizes of the unions satisfy them (`SumExists`), and whichever is picked
gives the size of the union, by the order of the finite sets under inclusion (`SumIsSize`).
With that `calculateFreeSubnets` is the size of the set that `FreeIsExact` names, for any
arguments (`FreeCount`), the used ones are other prefixes of the same length
(`CountsFit`), and scaled to the greatest length they are those that a subnet takes
(`UsedCount`). The last needs the state: the subnets of a pool are apart and lie in its
addresses, in neutron and, because the subnets are asked for first and pools only grow,
across the two answers (`Answered`, inductive).

**Only model-checked:** the liveness properties (`cache_live`, `UpIsSent`,
`FanoutReturns`, `ScrapesEnd`, `RequestsAnswered`), because the proof system has no rule
for fairness and none for ENABLED. What they rest on is proved for any constants, with the
fairness left to TLC: that collections, the fan-out and scrapes cannot go on for ever, that
none of them is stuck before its end, and that a request is never set back. "Not stuck" is
stated as a disjunction of guards; that a step whose guard holds can be taken is read off
the actions, and TLC's check for deadlock in `exporters`, `opts` and `store` agrees.
Every invariant, action property and refinement that a passing run checks is a theorem;
`NoGap` and `SwitchesSafe` with the hypotheses named above.

## 6. Disagreements between the code and its documentation

Four runs end in a counterexample, and the findings of `PROJECT.json` quote the lines.

* `cache_seconds`: families are cached by name alone (cache.go:151). With
  `--collect-metric-time` all exporters return a family of the same name, and of each
  cloud only the last one's collection times are served.
* `exporter_disabled`: a list function emits several metrics, and most of them do not
  ask `MetricIsDisabled`. Disabling a metric that another one's function emits makes
  that function dereference nil, in a goroutine, which ends the process.
* `opts_cloud`: options are stored by service and identity's are preferred. In cached
  multi-cloud mode the exporters that come before identity use the options of the cloud
  collected before.
* `startup_flavor`: `ListAllServers` searches flavors by name from 2.46 on, where the
  comment above it says "greater than 2.46". At 2.46 itself the answer has the id and no
  name to search by: `flavor_id` is empty for every server.

Other observations, which no run is spent on:

* README.md:286 says that no data is returned if the cache is expired. `GetCloudCache`
  does not look at the time stamp: an expired entry is served until the next flush. How
  long that may be is `StaleBound`, below twice the TTL unless a flush is due.
* README.md:283 says that the cache is updated after a collection cycle; each cloud is
  published as soon as it has been visited (`Publish`).
* README.md:191 says that `include_services` overrides the configured services. With the
  cache, only configured services were collected, so that others are answered with
  nothing.
* A service enabled with `--no-disable-service.x` does not save the start of the process
  when autodetection finds none (`ResolveFails`, utils.go:301-303).
* Requests to /probe enable exporters in goroutines of their own. The lookup at
  keystone.go:165 reads the map without the mutex, so that a write by another request
  races with it. `Excluded` states what holds: between writers always, with readers
  within one scrape.
* The list function of ports asks `MetricIsDisabled("port")` (neutron.go:353), but
  `port` is the metric that carries the function: disabling it takes the function away,
  with `ports`, `ports_no_ips` and `ports_lb_not_active`, so the guard never applies.
* A flavor that is deleted, and made again under the same name, gives the servers of the
  old one the id of the new one (nova.go:549); from 2.47 on nothing in the answer tells
  them apart.
* The comment at kingpin_parser.go:18-21 allows only latin letters, digits and
  underscores in a label. The first alternative of the regular expression below it takes
  anything but an underscore or a digit as first character and anything but an
  underscore as second: "--a" is accepted.
* A mapped label that is already one of server_status (`id`, `status`, ...) is not
  refused; the metric is then invalid, and registering it panics (nova.go:129-130).
* A list function that fails after some of its samples were sent leaves them in the
  answer (`ListComputeLimits`, `ListNetworkQuotas`): only `up` and its missing
  collection time tell.
* When the cache's goroutine or a signal ends `main`, it returns without waiting for
  `srv.Shutdown` (main.go:306-309): requests in flight may be cut.
* `--dns-concurrent-count 0` makes the first `g.Go` wait for ever. `FanoutAssumption`
  excludes 0.

## 7. Plan

Done: the modules above, with eight modules of proofs, the theorems on termination and
waiting included. What is left, and why:

1. Liveness as theorems. The step from "each step leaves less to do" and "some step can be
   taken" to "it ends" needs fairness, ENABLED and induction over the measure, none of
   which the proof system offers; TLC checks it on the instances of section 3.
2. The end of every request in `InMemoryCache`: `RequestsAdvance` says that a request is
   never set back, but a handler may have to wait for the mutex as long as others take it,
   which only the fairness of section 4 bounds.
3. Further list functions (section 8), should one of them get state or goroutines of
   its own.

## 8. Not modelled

* What the other list functions compute (`ListZonesAndRecordsets`, `ListSubnetsPerPool`
  and `ListAllServers` are modelled): a sequential translation from the format of an API
  to samples, which the recorded responses of the tests cover.
* The Vault password (main.go:450-510): once, at the start, pure I/O.
* The HTTP server, TLS, the landing page: libraries. That the server ends with the
  context, and the context with an error of the server, is in `CacheService`.
* `CommonMetricsExporter` (exporters/common_metrics.go): nothing outside its test makes
  one.
* Packaging, the integration environment and the scripts: no program logic.
* kingpin's parsing and gophercloud's search of the catalog are external to
  `ServiceSelection`, net/netip and go4.org/netipx to `SubnetPools`. Counts are exact
  integers in `SubnetPools` and float64 in the code, which rounds those above 2^53: an
  IPv6 pool of more than 53 bits of prefixes. Microversions have one major. clouds.yaml
  is read as a whole or not at all.
