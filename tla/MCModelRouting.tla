----------------------------- MODULE MCModelRouting -----------------------------
(* Two automatic turns and a pinned one over a provider of an API and a vendor agent. *)
EXTENDS ModelRouting, TLC

CONSTANTS t1, t2, t3, api, agent, r1, r2

MCProviderOf == (r1 :> api) @@ (r2 :> agent)
MCPinnedRoute == [t \in Pinned |-> r1]
MCCooldown == [k \in Kinds |-> [base |-> 1, max |-> 1]]
Symmetric == Permutations(Automatic)
===============================================================================
