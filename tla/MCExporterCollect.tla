------------------------ MODULE MCExporterCollect ------------------------
(* Parameters of ExporterCollect for TLC.                                  *)
EXTENDS ExporterCollect

ET == INSTANCE ExporterTables

CinderOnly == {ET!Cinder}

VolumeGbDisabled(t, o) == o.disabled = {"volume_gb"} /\ ~o.noSlow /\ ~o.noDeprecated
==========================================================================
