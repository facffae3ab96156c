-------------------------- MODULE MCEndpointOpts --------------------------
(* Parameters of EndpointOpts for TLC.                                      *)
EXTENDS EndpointOpts

CONSTANTS c1, c2, h1, h2

\* The order of SupportedExporters, and what include_services may ask for.
ComputeAndIdentity == <<"compute", "identity">>
AnyOrder == {ComputeAndIdentity, <<"identity", "compute">>, <<"compute">>}
ProjectReaders == {"compute", "identity"}
===========================================================================
