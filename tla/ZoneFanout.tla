---------------------------- MODULE ZoneFanout ----------------------------
(***************************************************************************)
(* ListZonesAndRecordsets (exporters/designate.go): the recordsets of      *)
(* every zone are listed by goroutines of an errgroup with a limit.  The   *)
(* first failure cancels the context that the requests of the other zones  *)
(* use; their goroutines are started all the same.  Exporters.tla has the  *)
(* exporter around it.                                                     *)
(***************************************************************************)
EXTENDS Integers, FiniteSets

CONSTANTS
  Zones,
  RecordCounts,  \* how many recordsets a zone may have
  Limit,         \* --dns-concurrent-count: negative for no limit
  NoZone         \* no goroutine has failed

\* SetLimit(0) would let no goroutine start: g.Go would wait for ever.
ASSUME FanoutAssumption ==
  /\ IsFiniteSet(Zones)
  /\ RecordCounts \subseteq Nat
  /\ Limit \in Int \ {0}
  /\ NoZone \notin Zones

VARIABLES
  listing,   \* the place of ListZonesAndRecordsets
  zonesLeft, \* zones without a goroutine yet
  zpc,       \* of the goroutine of each zone
  records,   \* recordsets that the request of a zone has returned
  sent,      \* samples sent for a zone
  cancelled, \* gCtx
  err,       \* the zone whose error g.Wait returns
  causes     \* history: the zones whose failure is not a cancelled request

fanoutVars == <<listing, zonesLeft, zpc, records, sent, cancelled, err, causes>>

\* recordsets, one recordsets_status for each of them, zone_status
Samples(z) == records[z] + 2

Active == {z \in Zones : zpc[z] \in {"list", "send", "failed"}}

FanoutInit ==
  /\ listing = "idle"
  /\ zonesLeft = {}
  /\ zpc = [z \in Zones |-> "none"]
  /\ records = [z \in Zones |-> 0]
  /\ sent = [z \in Zones |-> 0]
  /\ cancelled = FALSE
  /\ err = NoZone
  /\ causes = {}

\* metric.Fn
Call ==
  /\ listing = "idle"
  /\ listing' = "zones"
  /\ UNCHANGED <<zonesLeft, zpc, records, sent, cancelled, err, causes>>

\* zones.List answers with some of the zones; the sample of their number follows.
ListZones(zs) ==
  /\ listing = "zones"
  /\ listing' = "loop"
  /\ zonesLeft' = zs
  /\ UNCHANGED <<zpc, records, sent, cancelled, err, causes>>

ListZonesFails ==
  /\ listing = "zones"
  /\ listing' = "failed"
  /\ UNCHANGED <<zonesLeft, zpc, records, sent, cancelled, err, causes>>

\* Mutant of Go: SetLimit is missing.
GoAlways(z) ==
  /\ listing = "loop"
  /\ z \in zonesLeft
  /\ zonesLeft' = zonesLeft \ {z}
  /\ zpc' = [zpc EXCEPT ![z] = "list"]
  /\ UNCHANGED <<listing, records, sent, cancelled, err, causes>>

\* g.Go: waits while as many goroutines as the limit are active.
Go(z) ==
  /\ listing = "loop"
  /\ z \in zonesLeft
  /\ Limit > 0 => Cardinality(Active) < Limit
  /\ zonesLeft' = zonesLeft \ {z}
  /\ zpc' = [zpc EXCEPT ![z] = "list"]
  /\ UNCHANGED <<listing, records, sent, cancelled, err, causes>>

---------------------------------------------------------------------------
(* The goroutine of a zone.                                                *)

\* recordsets.ListByZone and ExtractRecordSets
ListRecordsets(z, n) ==
  /\ zpc[z] = "list"
  /\ zpc' = [zpc EXCEPT ![z] = "send"]
  /\ records' = [records EXCEPT ![z] = n]
  /\ UNCHANGED <<listing, zonesLeft, sent, cancelled, err, causes>>

\* The API answers with an error, the zone is gone by now for one.
ListRecordsetsFails(z) ==
  /\ zpc[z] = "list"
  /\ zpc' = [zpc EXCEPT ![z] = "failed"]
  /\ causes' = causes \cup {z}
  /\ UNCHANGED <<listing, zonesLeft, records, sent, cancelled, err>>

\* The request ends because gCtx is cancelled.
RequestCancelled(z) ==
  /\ cancelled
  /\ zpc[z] = "list"
  /\ zpc' = [zpc EXCEPT ![z] = "failed"]
  /\ UNCHANGED <<listing, zonesLeft, records, sent, cancelled, err, causes>>

\* Mutant of Send: a cancelled goroutine stops between two samples.
SendUntilCancelled(z) ==
  /\ zpc[z] = "send"
  /\ sent' = [sent EXCEPT ![z] = @ + 1]
  /\ zpc' = [zpc EXCEPT ![z] = IF sent[z] + 1 = Samples(z) \/ cancelled
                                 THEN "done" ELSE "send"]
  /\ UNCHANGED <<listing, zonesLeft, records, cancelled, err, causes>>

Send(z) ==
  /\ zpc[z] = "send"
  /\ sent' = [sent EXCEPT ![z] = @ + 1]
  /\ zpc' = [zpc EXCEPT ![z] = IF sent[z] + 1 = Samples(z) THEN "done" ELSE "send"]
  /\ UNCHANGED <<listing, zonesLeft, records, cancelled, err, causes>>

\* Mutants of Report: the error is only logged; the last error is kept; the slot
\* is not given back.
ReportNothing(z) ==
  /\ zpc[z] = "failed"
  /\ zpc' = [zpc EXCEPT ![z] = "gone"]
  /\ UNCHANGED <<listing, zonesLeft, records, sent, cancelled, err, causes>>

ReportLast(z) ==
  /\ zpc[z] = "failed"
  /\ zpc' = [zpc EXCEPT ![z] = "gone"]
  /\ cancelled' = TRUE
  /\ err' = z
  /\ UNCHANGED <<listing, zonesLeft, records, sent, causes>>

ReportInPlace(z) ==
  /\ zpc[z] = "failed"
  /\ err = NoZone
  /\ cancelled' = TRUE
  /\ err' = z
  /\ UNCHANGED <<listing, zonesLeft, zpc, records, sent, causes>>

\* The goroutine returns an error: errgroup keeps the first one and cancels.
Report(z) ==
  /\ zpc[z] = "failed"
  /\ zpc' = [zpc EXCEPT ![z] = "gone"]
  /\ cancelled' = TRUE
  /\ err' = IF err = NoZone THEN z ELSE err
  /\ UNCHANGED <<listing, zonesLeft, records, sent, causes>>

---------------------------------------------------------------------------
\* Mutant of Return: only the goroutines that hold the error are waited for.
ReturnOnError ==
  /\ listing = "loop"
  /\ zonesLeft = {}
  /\ Active = {} \/ err # NoZone
  /\ listing' = IF err = NoZone THEN "listed" ELSE "failed"
  /\ UNCHANGED <<zonesLeft, zpc, records, sent, cancelled, err, causes>>

\* g.Wait
Return ==
  /\ listing = "loop"
  /\ zonesLeft = {}
  /\ Active = {}
  /\ listing' = IF err = NoZone THEN "listed" ELSE "failed"
  /\ UNCHANGED <<zonesLeft, zpc, records, sent, cancelled, err, causes>>

Zone(z) == \/ \E n \in RecordCounts : ListRecordsets(z, n)
           \/ ListRecordsetsFails(z) \/ RequestCancelled(z)
           \/ Send(z) \/ Report(z)

FanoutStep ==
  \/ \E zs \in SUBSET Zones : ListZones(zs)
  \/ ListZonesFails \/ Return
  \/ \E z \in Zones : Go(z) \/ Zone(z)

FanoutNext == Call \/ FanoutStep

FanoutSpec == FanoutInit /\ [][FanoutNext]_fanoutVars

---------------------------------------------------------------------------
(* Properties.                                                             *)

Returned == listing \in {"listed", "failed"}

FanoutTypes ==
  /\ listing \in {"idle", "zones", "loop", "listed", "failed"}
  /\ zonesLeft \subseteq Zones
  /\ zpc \in [Zones -> {"none", "list", "send", "failed", "done", "gone"}]
  /\ records \in [Zones -> Nat]
  /\ sent \in [Zones -> Nat]
  /\ cancelled \in BOOLEAN
  /\ err \in Zones \cup {NoZone}
  /\ causes \subseteq Zones

WithinLimit == Limit > 0 => Cardinality(Active) <= Limit

\* The types, and the limit on the requests under way (designate.go:97).
FanoutTypeOK == FanoutTypes /\ WithinLimit

\* When it succeeds, every zone it started has sent all its samples, whatever the
\* limit and the order of the goroutines (designate.go:98-127).
CompleteOnSuccess ==
  listing = "listed" => \A z \in Zones : zpc[z] # "none" => sent[z] = Samples(z)

\* A zone is never reported in part: the failure of another zone cannot cut its
\* samples short.
AllOrNothing ==
  Returned => \A z \in Zones : sent[z] \in {0, Samples(z)}

\* The error that is returned, and logged, is the failure of a request and not
\* the cancellation that followed from it.
ErrorIsCause == err # NoZone => err \in causes
===========================================================================
