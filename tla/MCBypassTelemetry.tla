------------------------- MODULE MCBypassTelemetry -------------------------
(***************************************************************************)
(* Two shims and two daemons: one shim may append while the other's line   *)
(* is being drained, by one daemon or by both.                             *)
(***************************************************************************)
EXTENDS BypassTelemetry
============================================================================
