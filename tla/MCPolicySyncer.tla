--------------------------- MODULE MCPolicySyncer --------------------------
(***************************************************************************)
(* A syncer whose threshold spans several intervals.                       *)
(***************************************************************************)
EXTENDS PolicySyncer
============================================================================
