------------------------------ MODULE Startup ------------------------------
(***************************************************************************)
(* A process from its command line to the servers of nova:                 *)
(* ServiceSelection and NovaServers together.  kingpin parses the switches *)
(* of the services and the mapping of labels, in any order; main resolves  *)
(* the services; with a single cloud that has nova among them, a scrape    *)
(* makes its exporter and lists the servers; with --multi-cloud a request  *)
(* to /probe is answered.                                                  *)
(***************************************************************************)
EXTENDS ServiceSelection, NovaServers

CONSTANT Compute  \* nova's name among the services

ASSUME ComputeAssumption == Compute \in Services

startupVars == <<vars, novaVars>>

StartupInit == Init /\ NovaInit

\* kingpin.Parse: a switch of a service, or a part of the mapping of labels.
Parse ==
  /\ pc = "flags" /\ stage = "flags"
  /\ \/ (\E s \in Services, d \in BOOLEAN : SetFlag(s, d)) /\ UNCHANGED novaVars
     \/ MapStep /\ UNCHANGED vars

\* A mapping that is refused has ended the process before this.
Configure == stage = "flags" /\ Select /\ UNCHANGED novaVars

\* metricHandler enables the exporter of nova, and its metrics are gathered.
Scrape ==
  /\ pc = "resolved" /\ ~multiCloud
  /\ Compute \in Range(services)
  /\ NovaStep
  /\ UNCHANGED vars

EditNova == EditStep /\ UNCHANGED vars

StartupNext == Parse \/ Configure \/ Scrape \/ EditNova

StartupSpec == StartupInit /\ [][StartupNext]_startupVars
============================================================================
