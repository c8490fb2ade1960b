------------------------------ MODULE EventStream ------------------------------
(***************************************************************************)
(* What trouve promises to a client of an event stream, and nothing of how *)
(* it is kept: the log only grows, and each client is handed the readable  *)
(* rows of its scope one after the other, in cursor order, none skipped    *)
(* and none repeated, across disconnects, lag and restarts.                *)
(*                                                                         *)
(* A cursor is a row's position in the log (`events.cursor` is an          *)
(* AUTOINCREMENT key, and rows are inserted by one writer).                *)
(***************************************************************************)
EXTENDS Naturals, Sequences

CONSTANTS Followers,   \* clients, each following one scope
          FollowScope  \* the scope each client follows

VARIABLES log,    \* durable rows, [scope, decodable]
          lastId  \* newest cursor each client has received

vars == <<log, lastId>>

\* Cursors of the rows of scope s that a client can be sent: a row of a
\* retired or unknown event type is skipped by every reader.
Readable(s) == {c \in DOMAIN log : log[c].scope = s /\ log[c].decodable}

\* c is the first readable row of scope s after cursor a.
IsNext(s, a, c) ==
    /\ c \in Readable(s)
    /\ c > a
    /\ \A d \in Readable(s) : d > a => c <= d

Init == lastId = [f \in Followers |-> 0]

Grow == /\ Len(log') >= Len(log)
        /\ SubSeq(log', 1, Len(log)) = log
        /\ UNCHANGED lastId

Deliver(f) == \E c \in DOMAIN log :
    /\ IsNext(FollowScope[f], lastId[f], c)
    /\ lastId' = [lastId EXCEPT ![f] = c]
    /\ UNCHANGED log

Next == Grow \/ \E f \in Followers : Deliver(f)

Spec == Init /\ [][Next]_vars
================================================================================
