--------------------------- MODULE MCProxyProcess --------------------------
(***************************************************************************)
(* Two requests, so that one may be in flight while the other decides the  *)
(* outputs.                                                                *)
(***************************************************************************)
EXTENDS ProxyProcess
============================================================================
