---------------------------- MODULE NovaServers ----------------------------
(***************************************************************************)
(* How openstack_nova_server_status gets its labels: the mapping of server *)
(* metadata from the command line (utils/kingpin_parser.go), the           *)
(* microversion that NewNovaExporter settles on (utils/microversion.go),   *)
(* and the two requests of ListAllServers (exporters/nova.go), for the     *)
(* servers and then, if the first answer has no flavor ids, for the        *)
(* flavors.  Nova may be edited before and between the two.                *)
(*                                                                         *)
(* A name is a sequence of characters.  A microversion is the minor of     *)
(* 2.minor: nova has had no other major with microversions.                *)
(***************************************************************************)
EXTENDS Integers, SequencesExt, FiniteSetsExt

CONSTANTS
  Characters, Letters, Digits, Underscore,
  Mappings,    \* [label, key]: the parts of the flag between two commas
  Keys,        \* that the metadata of a server may have
  MaxLabels,   \* bound on the mappings that are accepted
  NoVersion,   \* the empty microversion, or an environment without one
  Requested,   \* what OS_COMPUTE_API_VERSION may ask for
  Unranged,    \* a version document without a range of microversions
  Documents,   \* the lists of version documents that nova may answer
  Latest,      \* novaLatestSupportedMicroversion
  ServerNames, FlavorIds, FlavorNames,
  Absent,      \* a field that an answer does not have, or a key without a value
  MaxEdits     \* bound on the edits of nova

\* The last microversion at which a server has the id of its flavor and not its name.
LastWithId == 46

ASSUME NovaAssumption ==
  /\ Letters \cup Digits \cup {Underscore} \subseteq Characters
  /\ Letters \cap Digits = {} /\ Underscore \notin Letters \cup Digits
  /\ Mappings \subseteq [label : Seq(Characters), key : Seq(Characters)]
  /\ NoVersion \notin Nat /\ Requested \subseteq Nat
  /\ Absent \notin FlavorIds
  /\ \A names \in SUBSET FlavorNames : Absent \notin [names -> FlavorIds]
  /\ Latest \in Nat /\ MaxLabels \in Nat /\ MaxEdits \in Nat
  /\ Unranged \notin [min : Nat, max : Nat]
  /\ Documents \subseteq Seq({Unranged} \cup [min : Nat, max : Nat])
  /\ \A list \in Documents : \A i \in DOMAIN list :
       list[i] # Unranged => list[i].min <= list[i].max

VARIABLES
  labels, mappedKeys,  \* LabelMappingFlag
  stage,               \* of the exporter
  env, supportedVersions, Microversion,
  flavors, servers,    \* nova's
  created,             \* the ids that a flavor has had; none is used again
  edits,
  allServers,          \* the answer
  mapper,              \* flavorIDMapper; Absent when it is nil
  statuses             \* the samples sent

mapping == <<labels, mappedKeys>>
version == <<env, supportedVersions, Microversion>>
nova == <<flavors, servers, created, edits>>
answers == <<allServers, mapper, statuses>>
novaVars == <<mapping, stage, version, nova, answers>>

NovaInit ==
  /\ labels = <<>> /\ mappedKeys = <<>>
  /\ stage = "flags"
  /\ env = NoVersion /\ supportedVersions = <<>> /\ Microversion = NoVersion
  /\ flavors = {} /\ servers = {} /\ created = {} /\ edits = 0
  /\ allServers = {} /\ mapper = Absent /\ statuses = {}

---------------------------------------------------------------------------
(* LabelMappingFlag.Set, for one part of the flag's value; the flag is     *)
(* cumulative, so that its parts may come in one value or in several.      *)

WordFrom(i, name) ==
  \A j \in i..Len(name) : name[j] \in Letters \cup Digits \cup {Underscore}

\* labelNameConstraintRe
Matches(name) ==
  \/ /\ Len(name) >= 3
     /\ name[1] \notin Digits \cup {Underscore}
     /\ name[2] # Underscore
     /\ name[3] \in Letters
     /\ WordFrom(4, name)
  \/ /\ Len(name) >= 2
     /\ name[1] = Underscore
     /\ name[2] \in Letters \cup Digits
     /\ WordFrom(3, name)
  \/ /\ Len(name) >= 1
     /\ name[1] \in Letters
     /\ WordFrom(2, name)

\* Mutant of Accepts: the label is looked for among the keys.
AcceptsByKey(label) == label \notin Range(mappedKeys) /\ Matches(label)

Accepts(label) == label \notin Range(labels) /\ Matches(label)

Map(m) ==
  /\ stage = "flags"
  /\ Len(labels) < MaxLabels
  /\ Accepts(m.label)
  /\ labels' = Append(labels, m.label)
  /\ mappedKeys' = Append(mappedKeys, m.key)
  /\ UNCHANGED <<stage, version, nova, answers>>

\* kingpin ends the process when Set returns an error.
RefuseMapping(m) ==
  /\ stage = "flags"
  /\ ~Accepts(m.label)
  /\ stage' = "failed"
  /\ UNCHANGED <<mapping, version, nova, answers>>

\* Mutant of Extract: a key that the server does not have is skipped.
ExtractPresent(m) == SelectSeq(mappedKeys, LAMBDA k : k \in m)

\* m: the keys of a server's metadata; the value of a key is named by the key.
Extract(m) == [i \in DOMAIN mappedKeys |-> IF mappedKeys[i] \in m THEN mappedKeys[i]
                                                               ELSE Absent]

---------------------------------------------------------------------------
(* SetupClientMicroversionV2                                               *)

IsSupported(document, v) ==
  document # Unranged /\ v \in document.min..document.max

Supported(list, v) == \E i \in DOMAIN list : IsSupported(list[i], v)

MaxMinor(document) == IF document = Unranged THEN 0 ELSE document.max

\* Mutant of DetectedMaximum: the last document decides.
LastMaximum(list) == MaxMinor(Last(list))

\* prevMaxMinor after the loop, which has met no document that supports Latest.
DetectedMaximum(list) == FoldLeft(LAMBDA max, d : IF MaxMinor(d) > max THEN MaxMinor(d)
                                                                       ELSE max, 0, list)

\* An environment without the variable: the best that nova has.
Default(list) ==
  IF Supported(list, Latest) THEN Latest
  ELSE IF \A i \in DOMAIN list : list[i] = Unranged THEN NoVersion
  ELSE DetectedMaximum(list)

NewNovaExporter(requested, list) ==
  /\ stage = "flags"
  /\ list # <<>>
  /\ requested # NoVersion => Supported(list, requested)
  /\ env' = requested
  /\ supportedVersions' = list
  /\ Microversion' = IF requested = NoVersion THEN Default(list) ELSE requested
  /\ stage' = "new"
  /\ UNCHANGED <<mapping, nova, answers>>

\* No answer, no document, or none that supports what is requested.
NewNovaExporterFails ==
  /\ stage = "flags"
  /\ stage' = "failed"
  /\ UNCHANGED <<mapping, version, nova, answers>>

AtLeast(v) == Microversion # NoVersion /\ Microversion >= v

---------------------------------------------------------------------------
(* Nova is edited, as long as that can change an answer.                   *)

Edit ==
  /\ stage \in {"new", "half"}
  /\ edits < MaxEdits
  /\ edits' = edits + 1
  /\ UNCHANGED <<mapping, stage, version, answers>>

CreateFlavor(id, name) ==
  /\ Edit
  /\ id \notin created
  /\ \A f \in flavors : f.name # name
  /\ flavors' = flavors \cup {[id |-> id, name |-> name]}
  /\ created' = created \cup {id}
  /\ UNCHANGED servers

\* Servers of the flavor stay as they are.
DeleteFlavor(f) ==
  /\ Edit
  /\ flavors' = flavors \ {f}
  /\ UNCHANGED <<servers, created>>

CreateServer(name, f, metadata) ==
  /\ Edit
  /\ \A s \in servers : s.name # name
  /\ servers' = servers \cup {[name |-> name, flavor |-> f, metadata |-> metadata]}
  /\ UNCHANGED <<flavors, created>>

\* What nova answers of a server, at the microversion of the client.
Answer(s) ==
  [server |-> s,
   id |-> IF AtLeast(LastWithId + 1) THEN Absent ELSE s.flavor.id,
   original_name |-> IF AtLeast(LastWithId + 1) THEN s.flavor.name ELSE Absent]

---------------------------------------------------------------------------
(* ListAllServers                                                          *)

\* Mutant of Requests: the flavors first.
RequestsSwapped == <<"flavors", "servers">>

Requests == <<"servers", "flavors">>

\* The n-th request is r; stage is "half" between the two.
Ask(r) ==
  /\ \/ stage = "new" /\ Requests[1] = r /\ stage' = "half"
     \/ stage = "half" /\ Requests[2] = r /\ stage' = "listed"
  /\ UNCHANGED <<mapping, version, nova, statuses>>

ListServers ==
  /\ Ask("servers")
  /\ allServers' = {Answer(s) : s \in servers}
  /\ UNCHANGED mapper

\* mvAtLeast246 || mapperRequired
MapperRequired == AtLeast(46) \/ \E a \in allServers : a.id = Absent

newFlavorIDMapper ==
  [n \in {f.name : f \in flavors} |-> (CHOOSE f \in flavors : f.name = n).id]

ListFlavors ==
  /\ Ask("flavors")
  /\ mapper' = IF MapperRequired THEN newFlavorIDMapper ELSE Absent
  /\ UNCHANGED allServers

RequestFails ==
  /\ \/ stage = "new"
     \/ stage = "half" /\ MapperRequired
  /\ stage' = "failed"
  /\ UNCHANGED <<mapping, version, nova, answers>>

Search(name) == IF name \in DOMAIN mapper THEN mapper[name] ELSE Absent

FlavorId(a) == IF mapper = Absent THEN a.id ELSE Search(a.original_name)

Send ==
  /\ stage = "listed"
  /\ statuses' = {[answer |-> a, flavor_id |-> FlavorId(a),
                   values |-> Extract(a.server.metadata)] : a \in allServers}
  /\ stage' = "sent"
  /\ UNCHANGED <<mapping, version, nova, allServers, mapper>>

\* What kingpin, a scrape, and others do.
MapStep == \E m \in Mappings : Map(m) \/ RefuseMapping(m)

NovaStep ==
  \/ \E r \in Requested \cup {NoVersion}, list \in Documents : NewNovaExporter(r, list)
  \/ NewNovaExporterFails
  \/ ListServers \/ ListFlavors \/ RequestFails \/ Send

EditStep ==
  \/ \E id \in FlavorIds, n \in FlavorNames : CreateFlavor(id, n)
  \/ \E f \in flavors :
       \/ DeleteFlavor(f)
       \/ \E n \in ServerNames, keys \in SUBSET Keys :
            CreateServer(n, f, keys)

NovaNext == MapStep \/ NovaStep \/ EditStep

NovaSpec == NovaInit /\ [][NovaNext]_novaVars

---------------------------------------------------------------------------
(* Properties.                                                             *)

\* Every label of the mapping is a name that Prometheus takes, other than any before
\* it, and every server has a value for each: registering the metric or making a
\* sample would panic otherwise (kingpin_parser.go:51-66, 90-97; nova.go:430-433).
LabelsKept ==
  /\ IsInjective(labels)
  /\ \A i \in DOMAIN labels :
       /\ labels[i] # <<>>
       /\ labels[i][1] \notin Digits
       /\ ~IsPrefix(<<Underscore, Underscore>>, labels[i])
  /\ \A x \in statuses : Len(x.values) = Len(labels)

\* The client asks for a microversion that some document of nova supports, the one of
\* the environment if it names one, and for none only if no document has a range
\* (microversion.go:45-82).
MicroversionSupported ==
  stage \in {"new", "half", "listed", "sent"} =>
    /\ env # NoVersion => Microversion = env
    /\ Microversion # NoVersion => Supported(supportedVersions, Microversion)
    /\ Microversion = NoVersion =>
         \A i \in DOMAIN supportedVersions : supportedVersions[i] = Unranged

\* A server whose flavor still exists is reported with its flavor's id, whatever was
\* created or deleted before and between the two requests, and whatever microversion
\* the client has; but see FlavorIdKept for 2.46 (nova.go:359-433).
FlavorIdFound ==
  Microversion # LastWithId =>
    \A x \in statuses :
      x.answer.server.flavor \in flavors => x.flavor_id = x.answer.server.flavor.id

\* "If micro-version is greater than 2.46, we need to retrieve all flavors once again
\* and search for flavor_id by name, as flavor_id are only available in server's detail
\* data up to that version": an id that the answer has is the id that is reported
\* (nova.go:382-384).
FlavorIdKept ==
  \A x \in statuses : x.answer.id # Absent => x.flavor_id = x.answer.id
============================================================================
