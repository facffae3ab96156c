---------------------------- MODULE Exporters ----------------------------
(***************************************************************************)
(* ExporterCollect and ZoneFanout together: in the exporter of designate   *)
(* the list function that Collect starts is ListZonesAndRecordsets, whose  *)
(* goroutines send on the channel that Collect was given.  In the other    *)
(* exporters a list function is one step, as in ExporterCollect.           *)
(***************************************************************************)
EXTENDS ExporterCollect, ZoneFanout

CONSTANT DesignateTable  \* the table of designate

ASSUME DesignateAssumption ==
  DesignateTable \in Tables /\ ListFunctions(DesignateTable) = {"zones"}

allVars == <<vars, fanoutVars>>

ExportersInit == Init /\ FanoutInit

InDesignate == table = DesignateTable

\* The metric of the next sample of zone z; the goroutine looks its descriptor up.
Sample(z) ==
  CASE sent[z] = 0              -> "recordsets"
    [] sent[z] = records[z] + 1 -> "zone_status"
    [] OTHER                    -> "recordsets_status"

NotRegistered(z) == zpc[z] = "send" /\ Sample(z) \in Missing(table, switches, "zones")

---------------------------------------------------------------------------
\* A step of Collect, or of a list function that is one step.
CollectStep ==
  \/ /\ \/ DisableSlowMetrics \/ DisableDeprecatedMetrics
        \/ \E n \in MetricNames(table) : DisableMetric(n)
        \/ NewExporter \/ Wait \/ SendUp \/ Done
        \/ \E n \in Fns : SendSeconds(n) \/ CountFailure(n)
     /\ UNCHANGED fanoutVars
  \/ /\ ~InDesignate
     /\ \E n \in Fns : Start(n) \/ Listed(n) \/ ListFailed(n) \/ ListPanics(n)
     /\ UNCHANGED fanoutVars

\* RunCollection calls ListZonesAndRecordsets and looks at what it returns.
StartZones ==
  /\ InDesignate
  /\ Start("zones") /\ Call

ZonesListed ==
  /\ InDesignate
  /\ listing = "listed" /\ Listed("zones")
  /\ UNCHANGED fanoutVars

ZonesFailed ==
  /\ InDesignate
  /\ listing = "failed" /\ ListFailed("zones")
  /\ UNCHANGED fanoutVars

\* A goroutine of a zone does not find a descriptor.
ZonePanics(z) ==
  /\ InDesignate
  /\ NotRegistered(z) /\ ListPanics("zones")
  /\ UNCHANGED fanoutVars

ZonesStep ==
  /\ InDesignate /\ ~crashed
  /\ FanoutStep
  /\ \A z \in Zones : NotRegistered(z) => sent'[z] = sent[z]
  /\ UNCHANGED vars

ExportersNext ==
  \/ CollectStep
  \/ StartZones \/ ZonesListed \/ ZonesFailed \/ ZonesStep
  \/ \E z \in Zones : ZonePanics(z)

\* The requests of every list function answer or fail, and goroutines run: as long
\* as a collection has a step to take, one is taken.
Fairness == WF_allVars(pc # "flags" /\ ExportersNext)

ExportersSpec == ExportersInit /\ [][ExportersNext]_allVars /\ Fairness

---------------------------------------------------------------------------
(* Properties.                                                             *)

\* The types of both parts, no failure counted twice, and never more requests for
\* recordsets than the limit (exporter.go:159-161, designate.go:97-101).
ExportersTypeOK == TypeOK /\ FanoutTypeOK

\* Every exporter reports up, one without list functions included, unless the
\* process panics (exporter.go:165-176).
UpIsSent == pc = "loop" ~> (up # "unsent" \/ crashed)

\* ListZonesAndRecordsets returns, with a limit smaller than the number of zones and
\* after failures too (designate.go:97-131).
FanoutReturns == listing = "zones" ~> (Returned \/ crashed)

\* When designate's up is sent no goroutine of a zone is left that could send after
\* it, on a channel that is closed by then, and up is 1 only if every zone that was
\* listed has all its samples, 0 only if its metric is disabled or a request has failed
\* (designate.go:97-131 with exporter.go:153-176).
DesignateUp ==
  InDesignate /\ up # "unsent" =>
    /\ Active = {}
    /\ up = "up" => /\ listing = "listed"
                    /\ \A z \in Zones : zpc[z] # "none" => sent[z] = Samples(z)
    /\ up = "down" => listing \in {"idle", "failed"}
===========================================================================
