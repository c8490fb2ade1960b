---------------------------- MODULE TerminalManager ----------------------------
(***************************************************************************)
(* Who may have a shell: TerminalManager (trouve-core terminal.rs) under    *)
(* the engine operations that open, kill and tear down terminals: terminal  *)
(* requests, archiving and deleting a session, closing and registering the  *)
(* workspace, and shutdown (engine.rs).                                     *)
(*                                                                          *)
(* An operation is atomic where it holds a lock that everything it races    *)
(* with needs (open_lock for spawning and for tearing a session down) and   *)
(* takes several steps otherwise.  All sessions are in one workspace.       *)
(***************************************************************************)
EXTENDS Integers, FiniteSets

CONSTANTS
    Sessions,     \* sessions of the workspace
    Terminals,    \* bound: terminals that are ever spawned
    NoSession          \* no session

ASSUME NoSessionAssumption == NoSession \notin Sessions

VARIABLES
    archived,   \* sessions archived in the store
    deleted,    \* sessions whose rows are gone
    closed,     \* the workspace is closed in the store
    deleting,   \* deletion of each session: the marker and how far it got
    admission,  \* holder of the deleting_sessions mutex: [op, session]
    lifecycle,  \* holder of the workspace registration lock: [op, todo]
    owner,      \* the session of each terminal ever spawned
    terms,      \* TerminalManager::terminals
    tombs,      \* TerminalManager::closed_sessions
    alive,      \* terminals whose shell runs
    killing,    \* terminals with an admitted terminal_kill
    stopping    \* shutdown: "no", "flagged" or "done"

storeVars == <<archived, deleted, closed>>
opVars == <<deleting, admission, lifecycle, killing>>
managerVars == <<owner, terms, tombs, alive>>
shellVars == <<storeVars, opVars, managerVars, stopping>>

Free == [op |-> "none", session |-> NoSession]
Idle == [op |-> "none", todo |-> {}]
Of(s) == {t \in terms : owner[t] = s}
Unused == {t \in Terminals : owner[t] = NoSession}

ManagerInit ==
    /\ archived \in SUBSET Sessions /\ deleted = {} /\ closed \in BOOLEAN
    /\ deleting = [s \in Sessions |-> "no"] /\ admission = Free /\ lifecycle = Idle
    /\ owner = [t \in Terminals |-> NoSession] /\ terms = {} /\ tombs = {} /\ alive = {}
    /\ killing = {} /\ stopping = "no"

-------------------------------------------------------------------------------
(* The manager. *)

\* TerminalManager::remove for each of them.
RemoveAll(ts) == terms' = terms \ ts /\ alive' = alive \ ts

\* Mutant: the session's terminals go and nothing remembers that they must not come back.
RemoveSessionOnly(s) == RemoveAll(Of(s)) /\ UNCHANGED <<tombs, owner>>

\* TerminalManager::remove_session, under open_lock.
RemoveSession(s) == RemoveAll(Of(s)) /\ tombs' = tombs \cup {s} /\ UNCHANGED owner

\* Mutant: the tombstone outlives its reason.
ReopenNothing(s) == UNCHANGED <<tombs, owner, terms, alive>>

\* TerminalManager::reopen_session
ReopenSession(s) == tombs' = tombs \ {s} /\ UNCHANGED <<owner, terms, alive>>

\* A shell exits by itself; its terminal stays registered.
ShellExits(t) == /\ t \in alive /\ alive' = alive \ {t}
                 /\ UNCHANGED <<storeVars, opVars, owner, terms, tombs, stopping>>

-------------------------------------------------------------------------------
(* Terminal requests. *)

\* ensure_terminal_session_available: the mutex stays locked until the shell is there.
Admit(s, op) ==
    /\ admission = Free /\ deleting[s] = "no" /\ s \notin deleted \cup archived /\ ~closed
    /\ admission' = [op |-> op, session |-> s]
    /\ UNCHANGED <<storeVars, deleting, lifecycle, killing, managerVars, stopping>>

CreateTerminal(s) == Admit(s, "create")
OpenTerminal(s) == Admit(s, "open")

\* ensure_open
MayOpen(s) == stopping = "no" /\ s \notin tombs

\* TerminalManager::create and open_default, under open_lock.
Spawn == \E t \in Unused :
    LET s == admission.session IN
    /\ admission.op \in {"create", "open"} /\ MayOpen(s)
    /\ admission.op = "open" => Of(s) \cap alive = {}
    /\ owner' = [owner EXCEPT ![t] = s] /\ terms' = terms \cup {t}
    /\ alive' = alive \cup {t} /\ admission' = Free
    /\ UNCHANGED <<storeVars, deleting, lifecycle, killing, tombs, stopping>>

\* The session's first live terminal is returned, ensure_open refuses the request, or
\* the shell does not start (openpty, spawn_command).
NoSpawn ==
    /\ admission.op \in {"create", "open"} /\ admission' = Free
    /\ UNCHANGED <<storeVars, deleting, lifecycle, killing, managerVars, stopping>>

\* terminal_kill takes the session's lease, then removes the terminal.
KillAdmit(t) ==
    /\ t \in terms \ killing /\ owner[t] \notin deleted
    /\ deleting[owner[t]] \in {"no", "marked"}
    /\ killing' = killing \cup {t}
    /\ UNCHANGED <<storeVars, deleting, admission, lifecycle, managerVars, stopping>>

Kill(t) ==
    /\ t \in killing /\ killing' = killing \ {t} /\ RemoveAll({t})
    /\ UNCHANGED <<storeVars, deleting, admission, lifecycle, owner, tombs, stopping>>

-------------------------------------------------------------------------------
(* Sessions. *)

\* update_session: the store first, the manager next, under the mutex.
Archive(s) ==
    /\ admission = Free /\ deleting[s] = "no" /\ s \notin deleted \cup archived
    /\ archived' = archived \cup {s} /\ admission' = [op |-> "archive", session |-> s]
    /\ UNCHANGED <<deleted, closed, deleting, lifecycle, killing, managerVars, stopping>>

Unarchive(s) ==
    /\ admission = Free /\ deleting[s] = "no" /\ s \in archived \ deleted
    /\ archived' = archived \ {s} /\ admission' = [op |-> "unarchive", session |-> s]
    /\ UNCHANGED <<deleted, closed, deleting, lifecycle, killing, managerVars, stopping>>

UpdateTerminals ==
    /\ \/ admission.op = "archive" /\ RemoveSession(admission.session)
       \/ admission.op = "unarchive" /\ ReopenSession(admission.session)
    /\ admission' = Free
    /\ UNCHANGED <<storeVars, deleting, lifecycle, killing, stopping>>

\* delete_session: the marker, the exclusive lease, the commit, the terminals.
DeleteMark(s) ==
    /\ admission = Free /\ deleting[s] = "no" /\ s \notin deleted
    /\ deleting' = [deleting EXCEPT ![s] = "marked"]
    /\ UNCHANGED <<storeVars, admission, lifecycle, killing, managerVars, stopping>>

\* The request is aborted while it waits for the lease, or the commit fails.
DeleteGivesUp(s) ==
    /\ deleting[s] = "marked" /\ admission = Free
    /\ deleting' = [deleting EXCEPT ![s] = "no"]
    /\ UNCHANGED <<storeVars, admission, lifecycle, killing, managerVars, stopping>>

DeleteCommit(s) ==
    /\ deleting[s] = "marked" /\ \A t \in killing : owner[t] # s
    /\ deleting' = [deleting EXCEPT ![s] = "gone"] /\ deleted' = deleted \cup {s}
    /\ UNCHANGED <<archived, closed, admission, lifecycle, killing, managerVars, stopping>>

DeleteTerminals(s) ==
    /\ deleting[s] = "gone" /\ RemoveSession(s)
    /\ deleting' = [deleting EXCEPT ![s] = "killed"]
    /\ UNCHANGED <<storeVars, admission, lifecycle, killing, stopping>>

\* DeletingSessionMarker::drop
DeleteEnds(s) ==
    /\ deleting[s] = "killed" /\ admission = Free
    /\ deleting' = [deleting EXCEPT ![s] = "no"]
    /\ UNCHANGED <<storeVars, admission, lifecycle, killing, managerVars, stopping>>

-------------------------------------------------------------------------------
(* The workspace, under its registration lock. *)

CloseWorkspace ==
    /\ lifecycle = Idle /\ ~closed /\ closed' = TRUE
    /\ lifecycle' = [op |-> "closing", todo |-> {}]
    /\ UNCHANGED <<archived, deleted, deleting, admission, killing, managerVars, stopping>>

RegisterWorkspace ==
    /\ lifecycle = Idle /\ closed /\ closed' = FALSE
    /\ lifecycle' = [op |-> "opening", todo |-> {}]
    /\ UNCHANGED <<archived, deleted, deleting, admission, killing, managerVars, stopping>>

\* list_sessions, read once.  That it fails, and ends the operation after the row has
\* changed, is left out.
ListSessions ==
    /\ \/ /\ lifecycle.op = "closing"
          /\ lifecycle' = [op |-> "close", todo |-> Sessions \ deleted]
       \/ /\ lifecycle.op = "opening"
          /\ lifecycle' = [op |-> "open", todo |-> Sessions \ (deleted \cup archived)]
    /\ UNCHANGED <<storeVars, deleting, admission, killing, managerVars, stopping>>

EachSession(s) ==
    /\ s \in lifecycle.todo /\ lifecycle' = [lifecycle EXCEPT !.todo = @ \ {s}]
    /\ \/ lifecycle.op = "close" /\ RemoveSession(s)
       \/ lifecycle.op = "open" /\ ReopenSession(s)
    /\ UNCHANGED <<storeVars, deleting, admission, killing, stopping>>

LifecycleEnds ==
    /\ lifecycle.op \in {"close", "open"} /\ lifecycle.todo = {} /\ lifecycle' = Idle
    /\ UNCHANGED <<storeVars, deleting, admission, killing, managerVars, stopping>>

-------------------------------------------------------------------------------
(* TerminalManager::shutdown: the flag before open_lock, the rest under it. *)

ShutdownFlag ==
    /\ stopping = "no" /\ stopping' = "flagged"
    /\ UNCHANGED <<storeVars, opVars, managerVars>>

ShutdownKill ==
    /\ stopping = "flagged" /\ stopping' = "done"
    /\ RemoveAll(terms) /\ tombs' = {}
    /\ UNCHANGED <<storeVars, opVars, owner>>

-------------------------------------------------------------------------------
OnSession(s) == \/ CreateTerminal(s) \/ OpenTerminal(s) \/ Archive(s) \/ Unarchive(s)
                \/ DeleteMark(s) \/ DeleteGivesUp(s) \/ DeleteCommit(s)
                \/ DeleteTerminals(s) \/ DeleteEnds(s) \/ EachSession(s)
ManagerNext == \/ Spawn \/ NoSpawn \/ UpdateTerminals
        \/ \E s \in Sessions : OnSession(s)
        \/ \E t \in Terminals : ShellExits(t) \/ KillAdmit(t) \/ Kill(t)
        \/ CloseWorkspace \/ RegisterWorkspace \/ ListSessions \/ LifecycleEnds
        \/ ShutdownFlag \/ ShutdownKill

ManagerSpec == ManagerInit /\ [][ManagerNext]_shellVars

-------------------------------------------------------------------------------
(* Properties. *)

ManagerTypeOK ==
    /\ archived \subseteq Sessions /\ deleted \subseteq Sessions /\ closed \in BOOLEAN
    /\ deleting \in [Sessions -> {"no", "marked", "gone", "killed"}]
    /\ admission \in [op : {"none", "create", "open", "archive", "unarchive"},
                      session : Sessions \cup {NoSession}]
    /\ lifecycle \in [op : {"none", "closing", "opening", "close", "open"},
                      todo : SUBSET Sessions]
    /\ owner \in [Terminals -> Sessions \cup {NoSession}]
    /\ terms \subseteq Terminals /\ alive \subseteq terms /\ tombs \subseteq Sessions
    /\ killing \subseteq Terminals /\ stopping \in {"no", "flagged", "done"}

\* The operations that still have to get to the session's terminals.
BeingArchived(s) == admission = [op |-> "archive", session |-> s]
BeingDeleted(s) == deleting[s] = "gone"
BeingClosed(s) == lifecycle.op = "closing" \/ (lifecycle.op = "close" /\ s \in lifecycle.todo)

\* A shell of the session may run only until what ended the session gets to it.
MayRun(s) ==
    /\ s \in deleted => BeingDeleted(s)
    /\ s \in archived => BeingArchived(s)
    /\ closed => BeingClosed(s) \/ BeingDeleted(s)

\* No shell survives its session: once archiving, deletion or the closing of the
\* workspace has got to a session, none of its shells runs, also not one whose
\* creation was admitted before (the tombstones of closed_sessions).
NoShellOutlivesSession == \A t \in alive : MayRun(owner[t])

\* No shell survives shutdown, and none starts after it (shutting_down).
NoShellAfterShutdown == stopping = "done" => alive = {}

\* Whatever ends the sessions ends their shells, and for good.
ShellsEnd == NoShellOutlivesSession /\ NoShellAfterShutdown

\* What makes these two inductive: a creation that was admitted is of a session that
\* cannot be archived or deleted meanwhile, and if the workspace is being closed the
\* tombstone is set or the loop that sets it is still to come.
AdmittedIsSafe ==
    admission.op \in {"create", "open"} =>
        /\ admission.session \in Sessions \ (deleted \cup archived)
        /\ deleting[admission.session] = "no"
        /\ closed => \/ admission.session \in tombs
                     \/ BeingClosed(admission.session)
                     \/ stopping = "done"
StagesAgree ==
    /\ \A s \in Sessions : /\ deleting[s] = "marked" => s \notin deleted
                           /\ deleting[s] = "gone" => s \in deleted
    /\ lifecycle.op \in {"closing", "close"} => closed
    /\ lifecycle.op \in {"opening", "open"} => ~closed
    /\ admission.op \in {"archive", "unarchive"} =>
           admission.session \in Sessions /\ deleting[admission.session] = "no"
    /\ \A t \in terms : owner[t] \in Sessions
ShellInv == /\ ManagerTypeOK /\ StagesAgree /\ AdmittedIsSafe /\ NoShellOutlivesSession
            /\ NoShellAfterShutdown

\* A session that may have terminals is not refused them for ever: its tombstone is
\* gone when nothing that will remove it is under way.
AvailableIsOpen ==
    \A s \in Sessions :
        /\ s \notin archived \cup deleted /\ deleting[s] = "no" /\ ~closed
        /\ lifecycle = Idle /\ admission = Free
        => s \notin tombs

===============================================================================
