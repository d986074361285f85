--------------------------- MODULE MCResultCache ---------------------------
(* Three keys contend for two places while the clock runs past the TTL. *)
EXTENDS LRUHistory, TLC

CONSTANTS k1, k2, k3, allow, block

MCKeys == {k1, k2, k3}
MCResults == {allow, block}
============================================================================
