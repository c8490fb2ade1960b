---------------------------- MODULE MCEventFollower ----------------------------
(* A small instance of EventFollower: a history with a retired row, two     *)
(* scopes, batches that interleave the scopes.                              *)
EXTENDS EventFollower, TLC

CONSTANTS server, thread, f1, f2

Ev(s) == [scope |-> s, decodable |-> TRUE]
Retired(s) == [scope |-> s, decodable |-> FALSE]

MCFollowScope == (f1 :> thread) @@ (f2 :> server)
MCHistory == <<Ev(thread), Retired(thread), Ev(server)>>
MCBatches == {<<Ev(thread), Ev(server)>>, <<Ev(thread)>>}
================================================================================
