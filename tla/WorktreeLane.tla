----------------------------- MODULE WorktreeLane -----------------------------
(***************************************************************************)
(* What the session's tool lane promises to whoever works in the worktree:  *)
(* one that changes it works alone, any number may read it together.        *)
(***************************************************************************)
CONSTANTS Writers, Readers

VARIABLES
    writing,    \* those that change the worktree now
    reading     \* those that only look at it

lane == <<writing, reading>>

Init == writing = {} /\ reading = {}

Write == /\ writing = {} /\ reading = {}
         /\ \E x \in Writers : writing' = {x}
         /\ UNCHANGED reading

Read == /\ writing = {}
        /\ \E x \in Readers : reading' = reading \cup {x}
        /\ UNCHANGED writing

Leave == writing' \subseteq writing /\ reading' \subseteq reading

Next == Write \/ Read \/ Leave

Spec == Init /\ [][Next]_lane
===============================================================================
