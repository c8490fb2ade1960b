--------------------------- MODULE MCTerminalManager ---------------------------
(***************************************************************************)
(* Instances of TerminalManager for TLC.                                   *)
(***************************************************************************)
EXTENDS TerminalManager, TLC

CONSTANTS s1, s2, t1, t2

\* No property names a session or a terminal.
Symmetric == Permutations(Sessions) \cup Permutations(Terminals)

===============================================================================
