------------------------- MODULE ServiceSelection -------------------------
(***************************************************************************)
(* Which exporters run: the service flags and the autodetection of main.go *)
(* (resolveServiceConfig) and exporters/utils.go, once at the start, and   *)
(* include_services and exclude_services of a request to /probe            *)
(* (selectServicesForRequest).  A parameter is the sequence of its parts   *)
(* between commas, trimmed; a part may be blank or name nothing.           *)
(***************************************************************************)
EXTENDS Naturals, SequencesExt

CONSTANTS
  SupportedExporters,  \* in their order
  CatalogTypes,        \* the catalog types each of them goes by
  Types,               \* catalog types that a cloud may offer
  Unknown,             \* a name that is no exporter's
  Blank,               \* nothing between two commas
  NoParameter,         \* the parameter is empty
  MaxIncluded,         \* bounds on the parts of the two parameters
  MaxExcluded

Services == Range(SupportedExporters)
Parts == Services \cup {Unknown, Blank}

ASSUME SupportedAssumption ==
  /\ SupportedExporters \in Seq(Services)
  /\ \A i, j \in 1..Len(SupportedExporters) :
       SupportedExporters[i] = SupportedExporters[j] => i = j
  /\ CatalogTypes \in [Services -> SUBSET Types]
  /\ Unknown \notin Services /\ Blank \notin Services
  /\ MaxIncluded \in Nat /\ MaxExcluded \in Nat

VARIABLES
  pc,          \* of main: "flags", "resolved", or "failed" (os.Exit)
  multiCloud,  \* --multi-cloud
  strict,      \* --disable-service-autodetect
  flags,       \* what the command line says of each service
  catalog,     \* the types that have an endpoint in the catalog of the cloud
  services,    \* the configured services
  request,     \* the request to /probe: include and exclude
  status,      \* of the answer
  answer       \* its services

vars == <<pc, multiCloud, strict, flags, catalog, services, request, status, answer>>

NoRequest == [include |-> NoParameter, exclude |-> NoParameter]

Init ==
  /\ pc = "flags"
  /\ multiCloud \in BOOLEAN
  /\ strict \in BOOLEAN
  /\ flags = [s \in Services |-> "auto"]
  /\ catalog \in IF multiCloud THEN {{}} ELSE SUBSET Types
  /\ services = <<>>
  /\ request = NoRequest
  /\ status = "none"
  /\ answer = <<>>

\* --disable-service.s, or --no-disable-service.s
SetFlag(s, disable) ==
  /\ pc = "flags"
  /\ flags[s] = "auto"
  /\ flags' = [flags EXCEPT ![s] = IF disable THEN "disabled" ELSE "enabled"]
  /\ UNCHANGED <<pc, multiCloud, strict, catalog, services, request, status, answer>>

---------------------------------------------------------------------------
(* resolveServiceConfig                                                    *)

\* The loop that appends the elements of list that belong to wanted, in their order.
Kept(list, wanted) ==
  FoldLeft(LAMBDA res, s : IF s \in wanted THEN Append(res, s) ELSE res, <<>>, list)

setAutoServicesState(states, state) ==
  [s \in Services |-> IF states[s] = "auto" THEN state ELSE states[s]]

\* isServiceAvailable for every exporter
Detected == {s \in Services : CatalogTypes[s] \cap catalog # {}}

\* Mutant of applyAutodetection: what is detected is enabled.
applyToAll(states, detected) ==
  setAutoServicesState(
    [s \in Services |-> IF s \in detected THEN "enabled" ELSE states[s]], "disabled")

applyAutodetection(states, detected) ==
  setAutoServicesState(
    [s \in Services |-> IF s \in detected /\ states[s] = "auto" THEN "enabled"
                                                               ELSE states[s]],
    "disabled")

getEnabledServicesFromStates(states) ==
  Kept(SupportedExporters, {s \in Services : states[s] = "enabled"})

Resolved ==
  getEnabledServicesFromStates(
    IF multiCloud \/ strict THEN setAutoServicesState(flags, "enabled")
                            ELSE applyAutodetection(flags, Detected))

Resolve ==
  /\ pc = "flags"
  /\ multiCloud \/ strict \/ Detected # {}
  /\ Resolved # <<>>
  /\ services' = Resolved
  /\ pc' = "resolved"
  /\ UNCHANGED <<multiCloud, strict, flags, catalog, request, status, answer>>

\* No service is left, none is in the catalog, or there is no catalog to be had.
ResolveFails ==
  /\ pc = "flags"
  /\ ~(multiCloud \/ strict) \/ Resolved = <<>>
  /\ pc' = "failed"
  /\ UNCHANGED <<multiCloud, strict, flags, catalog, services, request, status, answer>>

---------------------------------------------------------------------------
(* selectServicesForRequest                                                *)

parseServiceList(raw) ==
  IF raw = NoParameter THEN <<>> ELSE Kept(raw, Parts \ {Blank})

invalidExporterNames(list) == Kept(list, Parts \ Services)

RemoveElements(list, drop) == Kept(list, Parts \ Range(drop))

\* Mutant of UniqueElements: only neighbours are compared.
UniqueNeighbours(list) ==
  FoldLeft(LAMBDA res, s : IF res # <<>> /\ Last(res) = s THEN res ELSE Append(res, s),
           <<>>, list)

UniqueElements(list) ==
  FoldLeft(LAMBDA res, s : IF s \in Range(res) THEN res ELSE Append(res, s), <<>>, list)

\* Mutant of Base: an include list of nothing but commas selects the configured ones.
BaseUnlessEmpty(include) ==
  IF parseServiceList(include) = <<>> THEN services ELSE parseServiceList(include)

\* The services before those excluded are taken out.
Base(include) == IF include = NoParameter THEN services ELSE parseServiceList(include)

\* Mutant of Invalid: only the names to exclude are looked at.
InvalidExclude(include, exclude) == invalidExporterNames(parseServiceList(exclude)) # <<>>

Invalid(include, exclude) ==
  \/ invalidExporterNames(parseServiceList(include)) # <<>>
  \/ invalidExporterNames(parseServiceList(exclude)) # <<>>

\* A request leaves nothing behind, so one of them is enough.
Request(include, exclude) ==
  /\ pc = "resolved" /\ multiCloud
  /\ status = "none"
  /\ request' = [include |-> include, exclude |-> exclude]
  /\ UNCHANGED <<pc, multiCloud, strict, flags, catalog, services>>

\* StatusBadRequest
Reject(include, exclude) ==
  /\ Request(include, exclude)
  /\ Invalid(include, exclude)
  /\ status' = "bad request"
  /\ UNCHANGED answer

Probe(include, exclude) ==
  /\ Request(include, exclude)
  /\ ~Invalid(include, exclude)
  /\ status' = "ok"
  /\ answer' = UniqueElements(RemoveElements(Base(include), parseServiceList(exclude)))

Parameters(max) == {NoParameter} \cup UNION {[1..n -> Parts] : n \in 1..max}

\* What main and a handler of /probe do.
Select ==
  \/ Resolve \/ ResolveFails
  \/ \E include \in Parameters(MaxIncluded), exclude \in Parameters(MaxExcluded) :
       Probe(include, exclude) \/ Reject(include, exclude)

Next == (\E s \in Services, d \in BOOLEAN : SetFlag(s, d)) \/ Select

Spec == Init /\ [][Next]_vars

---------------------------------------------------------------------------
(* Properties.                                                             *)

\* The configured set is what README.md describes, whatever the order in which
\* the states of the services were changed: a flag decides, and a service without
\* one is enabled by the catalog, or always if there is no autodetection.
ResolvedAsDescribed ==
  pc = "resolved" =>
    \A s \in Services :
      s \in Range(services) <=>
        \/ flags[s] = "enabled"
        \/ /\ flags[s] = "auto"
           /\ multiCloud \/ strict \/ s \in Detected

\* The services that a parameter names.
Named(parameter) == IF parameter = NoParameter THEN {} ELSE Range(parameter) \ {Blank}

\* A request is answered from the services it asks for, or else from the
\* configured ones, without those it excludes: a list of nothing but commas asks
\* for none.  It is rejected if and only if one of the two parameters has a name
\* that is no exporter's (main.go:402-421).
AnsweredAsAsked ==
  status # "none" =>
    /\ status = "bad request" <=>
         Unknown \in Named(request.include) \cup Named(request.exclude)
    /\ status = "ok" =>
         Range(answer) = (IF request.include = NoParameter THEN Range(services)
                                                          ELSE Named(request.include))
                           \ Named(request.exclude)

\* registry.MustRegister panics on an exporter that is registered twice: no list
\* of services that a handler runs through names one twice, in whatever order a
\* request repeats it (main.go:337-345, 377-386).
RegisteredOnce == IsInjective(services) /\ IsInjective(answer)
===========================================================================
