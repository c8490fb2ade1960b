----------------------------- MODULE MCSessionLane -----------------------------
(* An attempt of an automatic route, v1, and a pinned one, v2, each of which asks  *)
(* and is steered; a further automatic attempt, a native mutation and a read.      *)
EXTENDS SessionLane, TLC

CONSTANTS n1, r1, v1, v2, v3, c1, c2, s1, s2

MCVendorOf == (c1 :> v1) @@ (s1 :> v1) @@ (c2 :> v2) @@ (s2 :> v2)
MCCasts == {{n1, r1, v1}, {n1, v1, s1}, {n1, v1, v3}, {n1, v2, s2}, {r1, v2, s2}, {v2, v3}}
===============================================================================
