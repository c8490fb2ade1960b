------------------------------ MODULE DurableLog -------------------------------
(***************************************************************************)
(* What the event writer promises to everything that reads events: rows    *)
(* are only ever added at the end, a row is published after it is durable, *)
(* rows are published one at a time in cursor order, and no row is added   *)
(* until the previous batch is fully published.  A crash loses the         *)
(* publications that are still due, never a row.                           *)
(***************************************************************************)
EXTENDS Naturals, Sequences

VARIABLES log,       \* the `events` table
          published  \* rows 1..published have been handed to the channels

vars == <<log, published>>

Init == published = Len(log)

Grow == /\ published = Len(log)
        /\ Len(log') > Len(log)
        /\ SubSeq(log', 1, Len(log)) = log
        /\ UNCHANGED published

Publish == /\ published < Len(log)
           /\ published' = published + 1
           /\ UNCHANGED log

Crash == published' = Len(log) /\ UNCHANGED log

Next == Grow \/ Publish \/ Crash

Spec == Init /\ [][Next]_vars
================================================================================
