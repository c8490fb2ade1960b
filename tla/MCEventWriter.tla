----------------------------- MODULE MCEventWriter -----------------------------
(* Three appends (one with a derived server row, one conditional and so      *)
(* isolated, one of two events) and two outbox flushers.                     *)
EXTENDS EventWriter, TLC

CONSTANTS server, thread, job, a1, a2, a3, f1, f2

MCRows == (a1 :> <<thread, server>>) @@ (a2 :> <<thread>>)
          @@ (a3 :> <<thread, thread>>)
MCSize == (a1 :> 1) @@ (a2 :> 1) @@ (a3 :> 2)
================================================================================
