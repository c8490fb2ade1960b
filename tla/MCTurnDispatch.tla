---------------------------- MODULE MCTurnDispatch ----------------------------
(* One thread with a queue, or two threads of one session. *)
EXTENDS TurnDispatch, TLC

CONSTANTS t1, t2, s1, p1, p2, p3

OneSession == [t \in Threads |-> s1]
AllToOne == [p \in Prompts |-> t1]
Spread == (p1 :> t1) @@ (p2 :> t2)
===============================================================================
