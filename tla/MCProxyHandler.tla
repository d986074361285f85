--------------------------- MODULE MCProxyHandler --------------------------
(***************************************************************************)
(* Two requests under every combination of strict mode, fail mode, policy  *)
(* gate and feed, with two packages that share one cache slot; and, under  *)
(* the plain configuration, three requests for one package, so that a late *)
(* answer can be stored over a newer one and a third request then hit it.  *)
(***************************************************************************)
EXTENDS ProxyHandler, TLC

CONSTANTS r1, r2, r3, p1, p2, other

MCRequests == {r1, r2, r3}
BothPackages == {p1, p2}
MCActions == {"allow", "warn", "block"}

Feeds == {[p \in BothPackages |-> NoVerdict],
          [p \in BothPackages |-> IF p = p2 THEN "block" ELSE NoVerdict]}

Config(strict, closed, gated, feed) ==
  [strict |-> strict, closed |-> closed, gated |-> gated, reporting |-> TRUE,
   feed |-> feed]

MCConfigs == {Config(s, c, g, f) : s, c, g \in BOOLEAN, f \in Feeds}

\* The third request arrives only then, when the others have been answered, and only
\* then the clock goes on to 3.  It may as well never arrive, so what is left are
\* behaviours of the program.
ThirdFollows ==
  pc[r3] # "new" \/ now > 2 =>
    /\ config = Config(FALSE, FALSE, FALSE, [p \in BothPackages |-> NoVerdict])
    /\ \A r \in Requests : pkg[r] # p2
    /\ pc[r3] # "new" => pc[r1] = "done" /\ pc[r2] = "done"
============================================================================
