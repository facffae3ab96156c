--------------------------- MODULE MCExporters ---------------------------
(* Parameters of Exporters for TLC.                                        *)
EXTENDS Exporters

CONSTANTS z1, z2, z3

ET == INSTANCE ExporterTables

EveryTable == ET!AllTables
Designate == ET!Designate

\* The hypothesis of SafeToSwitch and PanicsExplained holds of the fifteen tables.
ASSUME TablesFit == \A t \in EveryTable : SwitchesFit(t)

\* Collections of up to three list functions under any switches, and all of
\* cinder's, also with a metric disabled that the function of another one emits.
SmallOrCinder(t, o) ==
  \/ Cardinality(Collected(t, o)) <= 3 /\ t # ET!Designate
  \/ t = ET!Cinder /\ o.disabled \in {{}, {"volume_gb"}}
  \/ t = ET!Designate /\ ~o.noSlow /\ ~o.noDeprecated
==========================================================================
