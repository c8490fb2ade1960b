----------------------------- MODULE TurnDispatch -----------------------------
(***************************************************************************)
(* The prompt queue and its dispatchers (trouve-core engine: send_message, *)
(* dispatch_queue, dispatch_queued_prompt, drain_queue, cancel_turn,       *)
(* delete_session).                                                        *)
(*                                                                         *)
(* Commands hold session_activity_publication and prompt_queue_mutations   *)
(* from their first read to their last append, so each is one action.  A   *)
(* dispatcher task (drain_queue) holds those locks only in                 *)
(* finish_interrupted_turn, release_thread and the claim of the next       *)
(* prompt; every other step of it is an action of its own.                 *)
(***************************************************************************)
EXTENDS Integers, Sequences, FiniteSets

CONSTANTS
    Threads, Sessions, Prompts,
    SessionOf,     \* the session of each thread
    ThreadOf,      \* the thread each prompt is sent to
    Routed,        \* threads whose model is automatic (run_routed_turn)
    FaultKinds,    \* subset of {"append", "row"}: store calls that may fail
    MaxFaults,     \* bound: failing store calls
    MaxCrashes,    \* bound: process restarts
    MaxCommands    \* bound: dispatch commands and queue edits

ASSUME ShapeAssumption == /\ SessionOf \in [Threads -> Sessions]
                          /\ ThreadOf \in [Prompts -> Threads]
                          /\ Routed \subseteq Threads
                          /\ IsFiniteSet(Prompts)
ASSUME BoundsAssumption == /\ FaultKinds \subseteq {"append", "row"}
                           /\ MaxFaults \in Nat /\ MaxCrashes \in Nat
                           /\ MaxCommands \in Nat

VARIABLES
    row,        \* where each prompt's queued_prompts row is
    pos,        \* its position column
    published,  \* last thread.queue_updated of each thread
    lastTurn,   \* threads.last_turn
    log,        \* turn lifecycle events of each thread
    announced,  \* the activity of each session, as its events say
    gone,       \* deleted sessions
    active,     \* active_threads
    token,      \* turn_cancels: number of the registered token, 0 if none
    minted,     \* tokens made for each thread so far
    tripped,    \* cancelled tokens of each thread
    resume,     \* resume_after_cancel
    deleting,   \* deleting_sessions
    late,       \* tokens dispatch_queued_prompt will still trip
    pc,         \* where each thread's dispatcher task is
    cur,        \* the prompt it runs
    held,       \* the token it holds
    shell,      \* prompt_persisted
    why,        \* what its queue publication is part of
    snap,       \* the queue it read for that publication
    promised,   \* token each accepted follow-up saw tripped (history)
    budget      \* faults, crashes and commands used

rowVars == <<row, pos, published>>
tokenVars == <<token, minted, tripped, resume, late>>
taskVars == <<pc, cur, held, shell, why, snap>>
sessionVars == <<active, announced>>
vars == <<rowVars, lastTurn, log, gone, deleting, sessionVars, tokenVars, taskVars,
          promised, budget>>

Empty == [p \in {} |-> 0]
NoPrompt == "no prompt"

Visible(t) == {p \in Prompts : ThreadOf[p] = t /\ row[p] = "queued"}
Stored(t) == {p \in Prompts : ThreadOf[p] = t /\ row[p] \in {"queued", "claimed"}}
QueueOf(t) == [p \in Visible(t) |-> pos[p]]
Fronts(t) == {p \in Visible(t) : \A q \in Visible(t) : pos[p] <= pos[q]}

\* COALESCE(MAX(position), 0) + 1 over the thread's rows, claimed ones included.
NextPosition(t) ==
    CHOOSE n \in 1..(Cardinality(Prompts) + 1) :
        /\ \A p \in Stored(t) : pos[p] < n
        /\ n = 1 \/ \E p \in Stored(t) : pos[p] = n - 1

\* The ways ORDER BY position can number the prompts of S: equal positions (a
\* released prompt may collide with a renumbered one) are in either order.
Orders(S) == {f \in [S -> 1..Cardinality(S)] :
                \A p, q \in S : /\ p # q => f[p] # f[q]
                                /\ pos[p] < pos[q] => f[p] < f[q]}
Renumber(f) == [p \in Prompts |-> IF p \in DOMAIN f THEN f[p] ELSE pos[p]]

SessionBusy(s) == \E t \in active : SessionOf[t] = s
Usable(t) == SessionOf[t] \notin gone \cup deleting
Cancelling(t) == token[t] # 0 /\ token[t] \in tripped[t]
Cancelled(t) == held[t] \in tripped[t]
Event(t, kind) == [ev |-> kind, turn |-> lastTurn[t], prompt |-> cur[t]]
Append1(t, kind) == log' = [log EXCEPT ![t] = Append(@, Event(t, kind))]

Spend(n) == budget' = [budget EXCEPT !.faults = @ + n]
Fault(kind) == kind \in FaultKinds /\ budget.faults < MaxFaults /\ Spend(1)
Command == /\ budget.commands < MaxCommands
           /\ budget' = [budget EXCEPT !.commands = @ + 1]
FaultyCommand(kind) ==
    /\ kind \in FaultKinds /\ budget.faults < MaxFaults
    /\ budget.commands < MaxCommands
    /\ budget' = [budget EXCEPT !.faults = @ + 1, !.commands = @ + 1]

Init ==
    /\ row = [p \in Prompts |-> "unsent"]
    /\ pos = [p \in Prompts |-> 0]
    /\ published = [t \in Threads |-> Empty]
    /\ lastTurn = [t \in Threads |-> 0]
    /\ log = [t \in Threads |-> <<>>]
    /\ announced = [s \in Sessions |-> FALSE]
    /\ gone = {} /\ deleting = {} /\ active = {} /\ resume = {}
    /\ token = [t \in Threads |-> 0]
    /\ minted = [t \in Threads |-> 0]
    /\ tripped = [t \in Threads |-> {}]
    /\ late = [t \in Threads |-> {}]
    /\ pc = [t \in Threads |-> "none"]
    /\ cur = [t \in Threads |-> NoPrompt]
    /\ held = [t \in Threads |-> 0]
    /\ shell = [t \in Threads |-> FALSE]
    /\ why = [t \in Threads |-> "none"]
    /\ snap = [t \in Threads |-> Empty]
    /\ promised = [p \in Prompts |-> 0]
    /\ budget = [faults |-> 0, crashes |-> 0, commands |-> 0]

At(t, here) == pc[t] = here
Goto(t, there) == pc' = [pc EXCEPT ![t] = there]

-------------------------------------------------------------------------------
(* Claims, tokens and the idle announcement. *)

\* A fresh token for the next turn of t, which the dispatcher holds.
RegisterCancel(t) ==
    /\ minted' = [minted EXCEPT ![t] = @ + 1]
    /\ token' = [token EXCEPT ![t] = minted[t] + 1]
    /\ held' = [held EXCEPT ![t] = minted[t] + 1]
    /\ tripped' = [tripped EXCEPT ![t] = {}]  \* nobody holds the older ones

ClearCancel(t) == /\ token' = [token EXCEPT ![t] = 0]
                  /\ resume' = resume \ {t}

\* The dispatcher task returns: its prompt, token and shell flag are dropped.
EndTask(t) == /\ Goto(t, "none")
              /\ cur' = [cur EXCEPT ![t] = NoPrompt]
              /\ held' = [held EXCEPT ![t] = 0]
              /\ shell' = [shell EXCEPT ![t] = FALSE]

\* Mutant: the claim is given up before the idle event is durable.
LeaveAnyway(t, spent) ==
    /\ active' = active \ {t}
    /\ EndTask(t) /\ Spend(spent)
    /\ \/ announced' = announced
       \/ /\ \A u \in active \ {t} : SessionOf[u] # SessionOf[t]
          /\ announced' = [announced EXCEPT ![SessionOf[t]] = FALSE]

\* remove_thread_claim and publish_idle_or_restore: the last thread of a session
\* to leave announces it idle; when that append fails the claim is put back and
\* the dispatcher ends without releasing it.  spent: faults already met.
LeaveThread(t, spent) ==
    \/ /\ \E u \in active \ {t} : SessionOf[u] = SessionOf[t]
       /\ active' = active \ {t}
       /\ EndTask(t) /\ Spend(spent) /\ UNCHANGED announced
    \/ /\ \A u \in active \ {t} : SessionOf[u] # SessionOf[t]
       /\ active' = active \ {t}
       /\ announced' = [announced EXCEPT ![SessionOf[t]] = FALSE]
       /\ EndTask(t) /\ Spend(spent)
    \/ /\ \A u \in active \ {t} : SessionOf[u] # SessionOf[t]
       /\ "append" \in FaultKinds /\ budget.faults + spent < MaxFaults
       /\ active' = active \cup {t}
       /\ Goto(t, "stuck") /\ Spend(spent + 1)
       /\ UNCHANGED <<announced, cur, held, shell>>

-------------------------------------------------------------------------------
(* Commands. *)

\* Mutant: a follow-up sent during cancellation leaves no marker.
NoMarker(t) == resume' = resume

\* send_message and dispatch_queue ask a cancelling dispatcher to go on.
MarkResume(t) == resume' = IF Cancelling(t) THEN resume \cup {t} ELSE resume

\* send_message while a dispatcher owns the thread: queue the prompt.
SendQueued(p) ==
    LET t == ThreadOf[p] IN
    /\ row[p] = "unsent" /\ Usable(t) /\ t \in active
    /\ MarkResume(t)
    /\ row' = [row EXCEPT ![p] = "queued"]
    /\ pos' = [pos EXCEPT ![p] = NextPosition(t)]
    /\ published' = [published EXCEPT ![t] = QueueOf(t)']
    /\ promised' = IF Cancelling(t) THEN [promised EXCEPT ![p] = token[t]] ELSE promised
    /\ UNCHANGED <<lastTurn, log, gone, deleting, sessionVars, token, minted, tripped,
                   late, taskVars, budget>>

\* The append fails: the prompt is refused, the marker stays.
SendQueuedFails(p) ==
    LET t == ThreadOf[p] IN
    /\ row[p] = "unsent" /\ Usable(t) /\ t \in active
    /\ MarkResume(t)
    /\ Fault("append")
    /\ UNCHANGED <<rowVars, lastTurn, log, gone, deleting, sessionVars, token, minted,
                   tripped, late, taskVars, promised>>

\* The activity event that the first active thread of a session publishes.
Announce(t) == announced' = IF SessionBusy(SessionOf[t]) THEN announced
                            ELSE [announced EXCEPT ![SessionOf[t]] = TRUE]

\* send_message to an idle thread: the prompt joins the queue, its front (a
\* paused prompt, if there is one) is claimed, and the turn shell is durable
\* before the dispatcher is spawned.
SendStarts(p) ==
    LET t == ThreadOf[p] IN
    /\ row[p] = "unsent" /\ Usable(t) /\ t \notin active
    /\ \E first \in IF Visible(t) = {} THEN {p} ELSE Fronts(t) :
         /\ row' = [row EXCEPT ![p] = "queued", ![first] = "claimed"]
         /\ pos' = [pos EXCEPT ![p] = NextPosition(t)]
         /\ published' = [published EXCEPT ![t] = QueueOf(t)']
         /\ lastTurn' = [lastTurn EXCEPT ![t] = @ + 1]
         /\ log' = [log EXCEPT ![t] = Append(@, [ev |-> "started", turn |-> lastTurn[t] + 1,
                                                 prompt |-> first])]
         /\ cur' = [cur EXCEPT ![t] = first]
    /\ active' = active \cup {t}
    /\ Announce(t)
    /\ RegisterCancel(t)
    /\ shell' = [shell EXCEPT ![t] = TRUE]
    /\ Goto(t, "waiting")
    /\ UNCHANGED <<gone, deleting, resume, late, why, snap, promised, budget>>

\* Nothing was accepted; clear_cancel also drops a leftover resume marker.
SendStartFails(p) ==
    LET t == ThreadOf[p] IN
    /\ row[p] = "unsent" /\ Usable(t) /\ t \notin active
    /\ Fault("append")
    /\ ClearCancel(t)
    /\ UNCHANGED <<rowVars, lastTurn, log, gone, deleting, sessionVars, minted, tripped,
                   late, taskVars, promised>>

\* launch_claimed_prompt for p on idle thread t, the queue renumbered to at.  One
\* action: the activity lock goes before the queue is emitted and next_turn taken.
Launch(t, p, at) ==
    /\ row' = [row EXCEPT ![p] = "claimed"]
    /\ pos' = at
    /\ published' = [published EXCEPT ![t] = QueueOf(t)']
    /\ active' = active \cup {t}
    /\ Announce(t)
    /\ RegisterCancel(t)
    /\ lastTurn' = [lastTurn EXCEPT ![t] = @ + 1]
    /\ cur' = [cur EXCEPT ![t] = p]
    /\ shell' = [shell EXCEPT ![t] = FALSE]
    /\ Goto(t, "start")
    /\ Command
    /\ UNCHANGED <<log, gone, deleting, resume, late, why, snap, promised>>

\* It fails: the session event or the queue event is refused (before the queue is
\* published) or the turn number is (after it, with the positions of during).  The
\* prompt is visible again, the queue numbered as in after.  When the session was
\* woken and its idle event fails too, the claim stays.
LaunchFails(t, p, during, after) ==
    /\ pos' = after
    /\ ClearCancel(t)
    /\ \/ "append" \in FaultKinds /\ UNCHANGED published
       \/ /\ "row" \in FaultKinds
          /\ published' = [published EXCEPT ![t] = [q \in Visible(t) \ {p} |-> during[q]]]
    /\ budget.commands < MaxCommands
    /\ \/ /\ budget.faults < MaxFaults
          /\ budget' = [budget EXCEPT !.faults = @ + 1, !.commands = @ + 1]
          /\ UNCHANGED <<sessionVars, pc>>
       \/ /\ "append" \in FaultKinds /\ budget.faults + 1 < MaxFaults
          /\ budget' = [budget EXCEPT !.faults = @ + 2, !.commands = @ + 1]
          /\ ~SessionBusy(SessionOf[t])
          /\ active' = active \cup {t}
          /\ Announce(t)
          /\ Goto(t, "stuck")
    /\ UNCHANGED <<row, lastTurn, log, gone, deleting, minted, tripped, late, cur, held,
                   shell, why, snap, promised>>

\* dispatch_queue on an idle thread.
DispatchQueueIdle(t) ==
    /\ Usable(t) /\ t \notin active
    /\ \E p \in Fronts(t) : Launch(t, p, pos) \/ LaunchFails(t, p, pos, pos)

\* dispatch_queue on a running thread only leaves a marker.
DispatchQueueRunning(t) ==
    /\ Usable(t) /\ t \in active
    /\ MarkResume(t)
    /\ Command
    /\ UNCHANGED <<rowVars, lastTurn, log, gone, deleting, sessionVars, token, minted,
                   tripped, late, taskVars, promised>>

\* prioritize_queued_prompt: p gets position 0, the others follow in order.
Prioritized(p) ==
    {[Renumber(f) EXCEPT ![p] = 0] : f \in Orders(Visible(ThreadOf[p]) \ {p})}

\* dispatch_queued_prompt on an idle thread.  A failure restores the order.
DispatchPromptIdle(p) ==
    LET t == ThreadOf[p] IN
    /\ row[p] = "queued" /\ Usable(t) /\ t \notin active
    /\ \/ \E at \in Prioritized(p) : Launch(t, p, at)
       \/ \E at \in Prioritized(p), f \in Orders(Visible(t)) :
            LaunchFails(t, p, at, Renumber(f))

\* dispatch_queued_prompt on a running thread: put p first, ask the dispatcher
\* to resume, and trip its token after the locks are dropped (TripLate).
DispatchPromptRunning(p) ==
    LET t == ThreadOf[p] IN
    /\ row[p] = "queued" /\ Usable(t) /\ t \in active /\ token[t] # 0
    /\ \E at \in Prioritized(p) : pos' = at
    /\ UNCHANGED row
    /\ resume' = resume \cup {t}
    /\ published' = [published EXCEPT ![t] = QueueOf(t)']
    /\ late' = [late EXCEPT ![t] = @ \cup {token[t]}]
    /\ promised' = [promised EXCEPT ![p] = token[t]]
    /\ Command
    /\ UNCHANGED <<lastTurn, log, gone, deleting, sessionVars, token, minted, tripped,
                   taskVars>>

\* Its queue event fails: marker removed, order restored, nothing tripped.
DispatchPromptRunningFails(p) ==
    LET t == ThreadOf[p] IN
    /\ row[p] = "queued" /\ Usable(t) /\ t \in active /\ token[t] # 0
    /\ \E f \in Orders(Visible(t)) : pos' = Renumber(f)
    /\ resume' = resume \ {t}
    /\ FaultyCommand("append")
    /\ UNCHANGED <<row, published, lastTurn, log, gone, deleting, sessionVars, token,
                   minted, tripped, late, taskVars, promised>>

TripLate(t) ==
    \E g \in late[t] :
        /\ late' = [late EXCEPT ![t] = @ \ {g}]
        /\ tripped' = [tripped EXCEPT ![t] = @ \cup {g}]
        /\ UNCHANGED <<rowVars, lastTurn, log, gone, deleting, sessionVars, token, minted,
                       resume, taskVars, promised, budget>>

\* cancel_turn.  The cascade trips each descendant's token the same way.
CancelTurn(t) ==
    /\ token[t] # 0
    /\ tripped' = [tripped EXCEPT ![t] = @ \cup {token[t]}]
    /\ UNCHANGED <<rowVars, lastTurn, log, gone, deleting, sessionVars, token, minted,
                   resume, late, taskVars, promised, budget>>

\* delete_queued_prompt, reorder_queue and update_queued_prompt (whose content
\* is not represented): the edit commits, then the queue is published.
EditQueue(t) ==
    /\ Usable(t)
    /\ \/ /\ \E p \in Visible(t) : row' = [row EXCEPT ![p] = "removed"]
          /\ UNCHANGED pos
       \/ /\ \E f \in [Visible(t) -> 1..Cardinality(Visible(t))] :
               /\ \A p, q \in Visible(t) : p # q => f[p] # f[q]
               /\ pos' = Renumber(f)
          /\ UNCHANGED row
       \/ Visible(t) # {} /\ UNCHANGED <<row, pos>>
    /\ \/ Command /\ published' = [published EXCEPT ![t] = QueueOf(t)']
       \/ FaultyCommand("append") /\ UNCHANGED published
    /\ UNCHANGED <<lastTurn, log, gone, deleting, sessionVars, tokenVars, taskVars, promised>>

\* Mutant: deletion looks only at the threads that run a turn right now.
DeleteBetweenTurns(s) ==
    /\ s \notin gone \cup deleting
    /\ \A t \in active : SessionOf[t] = s => token[t] = 0
    /\ deleting' = deleting \cup {s}
    /\ UNCHANGED <<rowVars, lastTurn, log, gone, sessionVars, tokenVars, taskVars, promised,
                   budget>>

\* delete_session: the marker goes up only when no thread is active ...
BeginDelete(s) ==
    /\ s \notin gone \cup deleting
    /\ ~SessionBusy(s)
    /\ deleting' = deleting \cup {s}
    /\ UNCHANGED <<rowVars, lastTurn, log, gone, sessionVars, tokenVars, taskVars, promised,
                   budget>>

\* ... and comes down after the rows are deleted, or when the request is given up.
EndDelete(s) ==
    /\ s \in deleting
    /\ deleting' = deleting \ {s}
    /\ \/ /\ gone' = gone \cup {s}
          /\ row' = [p \in Prompts |-> IF SessionOf[ThreadOf[p]] = s /\ row[p] = "queued"
                                       THEN "removed" ELSE row[p]]
       \/ UNCHANGED <<gone, row>>
    /\ UNCHANGED <<pos, published, lastTurn, log, sessionVars, tokenVars, taskVars, promised,
                   budget>>

-------------------------------------------------------------------------------
(* The dispatcher task: one turn. *)

others == <<gone, deleting, promised>>

\* run_turn publishes the turn shell of a prompt taken from the queue.
PersistShell(t) ==
    /\ At(t, "start")
    /\ Append1(t, "started")
    /\ shell' = [shell EXCEPT ![t] = TRUE]
    /\ Goto(t, "waiting")
    /\ UNCHANGED <<rowVars, lastTurn, sessionVars, tokenVars, cur, held, why, snap, others,
                   budget>>

\* finish_queued_prompt once the user message is in the transcript.  A routed
\* turn publishes the queue again.
Consume(t) ==
    /\ At(t, "waiting") /\ row[cur[t]] = "claimed"
    /\ row' = [row EXCEPT ![cur[t]] = "done"]
    /\ IF t \in Routed
       THEN Goto(t, "read") /\ why' = [why EXCEPT ![t] = "routed"]
       ELSE Goto(t, "running") /\ UNCHANGED why
    /\ UNCHANGED <<pos, published, lastTurn, log, sessionVars, tokenVars, cur, held, shell,
                   snap, others, budget>>

\* The turn's work is done: the token is looked at for the last time ...
Conclude(t) ==
    /\ At(t, "running") /\ ~Cancelled(t)
    /\ Goto(t, "completing")
    /\ UNCHANGED <<rowVars, lastTurn, log, sessionVars, tokenVars, cur, held, shell, why,
                   snap, others, budget>>

\* ... and the completed event appended, by when it may have been tripped.
Complete(t) ==
    /\ At(t, "completing")
    /\ Append1(t, "completed")
    /\ Goto(t, "okay")
    /\ UNCHANGED <<rowVars, lastTurn, sessionVars, tokenVars, cur, held, shell, why, snap,
                   others, budget>>

\* Mutant: a turn that waits for its provider does not hear the cancellation.
DeafWhileWaiting(t) ==
    /\ At(t, "running") /\ Cancelled(t)
    /\ Goto(t, "okay")
    /\ UNCHANGED <<rowVars, lastTurn, log, sessionVars, tokenVars, cur, held, shell, why,
                   snap, others, budget>>

\* A tripped token makes run_turn return once its cleanup is acknowledged.
StopOnCancel(t) ==
    /\ pc[t] \in {"waiting", "running"} /\ Cancelled(t)
    /\ Goto(t, "okay")
    /\ UNCHANGED <<rowVars, lastTurn, log, sessionVars, tokenVars, cur, held, shell, why,
                   snap, others, budget>>

InTurn(t) == pc[t] \in {"start", "waiting", "running", "completing"}

\* A provider, tool, lifecycle or storage error; or a panic in the turn future.
EndBadly(t) ==
    /\ InTurn(t)
    /\ Goto(t, "erred") \/ Goto(t, "panicked")
    /\ UNCHANGED <<rowVars, lastTurn, log, sessionVars, tokenVars, cur, held, shell, why,
                   snap, others, budget>>

-------------------------------------------------------------------------------
(* The dispatcher task: settling the turn. *)

Returned(t) == pc[t] \in {"okay", "erred"}

\* Mutant: the error of a cancelled turn is published before its cancellation.
FailThenCancel(t) ==
    /\ Returned(t) /\ Cancelled(t)
    /\ row' = [row EXCEPT ![cur[t]] = IF @ = "claimed" THEN "done" ELSE @]
    /\ IF At(t, "erred") THEN Append1(t, "failed") ELSE UNCHANGED log
    /\ Goto(t, "cancelling")
    /\ UNCHANGED <<pos, published, lastTurn, sessionVars, tokenVars, cur, held, shell,
                   why, snap, others, budget>>

\* The token is sampled once, after the turn future has returned: a cancelled
\* turn's prompt is consumed (if run_turn had not) ...
SettleCancelled(t) ==
    /\ Returned(t) /\ Cancelled(t)
    /\ row' = [row EXCEPT ![cur[t]] = IF @ = "claimed" THEN "done" ELSE @]
    /\ Goto(t, "cancelling")
    /\ UNCHANGED <<pos, published, lastTurn, log, sessionVars, tokenVars, cur, held, shell,
                   why, snap, others, budget>>

\* Mutant: the shell of a turn cancelled before it was shown is not written.
CancelWithoutShell(t) ==
    /\ At(t, "cancelling")
    /\ Append1(t, "cancelled")
    /\ Goto(t, "interrupted")
    /\ UNCHANGED <<rowVars, lastTurn, sessionVars, tokenVars, cur, held, shell, why, snap,
                   others, budget>>

\* ... and its terminal event appended, after a shell if it had none.
RecordCancelled(t) ==
    /\ At(t, "cancelling")
    /\ log' = [log EXCEPT ![t] = @ \o (IF shell[t] THEN <<>> ELSE <<Event(t, "started")>>)
                                   \o <<Event(t, "cancelled")>>]
    /\ Goto(t, "interrupted")
    /\ UNCHANGED <<rowVars, lastTurn, sessionVars, tokenVars, cur, held, shell, why, snap,
                   others, budget>>

SettleFailed(t) ==
    /\ At(t, "erred") /\ ~Cancelled(t)
    /\ Append1(t, "failed")
    /\ why' = [why EXCEPT ![t] = "failed"]
    /\ Goto(t, "giveBack")
    /\ UNCHANGED <<rowVars, lastTurn, sessionVars, tokenVars, cur, held, shell, snap,
                   others, budget>>

SettlePanic(t) ==
    /\ At(t, "panicked")
    /\ Append1(t, "failed")
    /\ why' = [why EXCEPT ![t] = "panicked"]
    /\ Goto(t, "giveBack")
    /\ UNCHANGED <<rowVars, lastTurn, sessionVars, tokenVars, cur, held, shell, snap,
                   others, budget>>

SettleCompleted(t) ==
    /\ At(t, "okay") /\ ~Cancelled(t)
    /\ Goto(t, "next")
    /\ UNCHANGED <<rowVars, lastTurn, log, sessionVars, tokenVars, cur, held, shell, why,
                   snap, others, budget>>

\* The terminal event (or the attempt's outcome) cannot be stored: drain_queue
\* returns the error and the thread keeps its claim until the process ends.
SettleFails(t) ==
    /\ pc[t] \in {"okay", "erred", "cancelling", "panicked"}
    /\ Returned(t) => ~Cancelled(t)
    /\ Fault("append")
    /\ Goto(t, "stuck")
    /\ UNCHANGED <<rowVars, lastTurn, log, sessionVars, tokenVars, cur, held, shell, why,
                   snap, others>>

\* Mutant: the prompt of a failed turn is not given back.
KeepClaim(t) ==
    /\ At(t, "giveBack")
    /\ Goto(t, "read")
    /\ UNCHANGED <<rowVars, lastTurn, log, sessionVars, tokenVars, cur, held, shell, why,
                   snap, others, budget>>

\* release_queued_prompt (its error is ignored), then emit_queue: a read ...
GiveBack(t) ==
    /\ At(t, "giveBack")
    /\ \/ /\ row' = [row EXCEPT ![cur[t]] = IF @ = "claimed" THEN "queued" ELSE @]
          /\ UNCHANGED budget
       \/ Fault("row") /\ UNCHANGED row
    /\ Goto(t, "read")
    /\ UNCHANGED <<pos, published, lastTurn, log, sessionVars, tokenVars, cur, held, shell,
                   why, snap, others>>

ReadQueue(t) ==
    /\ At(t, "read")
    /\ snap' = [snap EXCEPT ![t] = QueueOf(t)]
    /\ Goto(t, "emit")
    /\ UNCHANGED <<rowVars, lastTurn, log, sessionVars, tokenVars, cur, held, shell, why,
                   others, budget>>

AfterEmit == [failed |-> "interrupted", panicked |-> "clearing",
              unnumbered |-> "releasing", claimed |-> "numbering", routed |-> "running"]

\* ... and an append, with no lock held in between.  Its error is ignored, except
\* in a routed turn, where it ends the turn.
EmitQueue(t) ==
    /\ At(t, "emit")
    /\ \/ /\ published' = [published EXCEPT ![t] = snap[t]]
          /\ Goto(t, AfterEmit[why[t]])
          /\ UNCHANGED budget
       \/ /\ Fault("append")
          /\ Goto(t, IF why[t] = "routed" THEN "erred" ELSE AfterEmit[why[t]])
          /\ UNCHANGED published
    /\ snap' = [snap EXCEPT ![t] = Empty]
    /\ UNCHANGED <<row, pos, lastTurn, log, sessionVars, tokenVars, cur, held, shell, why,
                   others>>

ClearAfterPanic(t) ==
    /\ At(t, "clearing")
    /\ ClearCancel(t)
    /\ Goto(t, "releasing")
    /\ UNCHANGED <<rowVars, lastTurn, log, sessionVars, minted, tripped, late, cur, held,
                   shell, why, snap, others, budget>>

ReleaseThread(t) ==
    /\ At(t, "releasing")
    /\ LeaveThread(t, 0)
    /\ UNCHANGED <<rowVars, lastTurn, log, tokenVars, why, snap, others>>

-------------------------------------------------------------------------------
(* The dispatcher task: what comes next. *)

\* finish_interrupted_turn: the marker decides between resuming and leaving.
FinishInterrupted(t) ==
    /\ At(t, "interrupted")
    /\ ClearCancel(t)
    /\ \/ /\ t \in resume
          /\ Goto(t, "resumed")
          /\ UNCHANGED <<sessionVars, cur, held, shell, budget>>
       \/ t \notin resume /\ LeaveThread(t, 0)
    /\ UNCHANGED <<rowVars, lastTurn, log, minted, tripped, late, why,
                   snap, others>>

\* Claim the front prompt under the queue and activity locks.
ClaimNext(t) ==
    /\ pc[t] \in {"next", "resumed"}
    /\ \E p \in Fronts(t) : /\ row' = [row EXCEPT ![p] = "claimed"]
                            /\ cur' = [cur EXCEPT ![t] = p]
    /\ RegisterCancel(t)
    /\ resume' = IF At(t, "next") THEN resume \ {t} ELSE resume
    /\ shell' = [shell EXCEPT ![t] = FALSE]
    /\ why' = [why EXCEPT ![t] = "claimed"]
    /\ Goto(t, "read")
    /\ UNCHANGED <<pos, published, lastTurn, log, sessionVars, late, snap, others,
                   budget>>

\* Mutant: the dispatcher leaves when its turn ends, without looking at the queue.
LeaveWithoutLooking(t) ==
    /\ pc[t] \in {"next", "resumed"}
    /\ ClearCancel(t)
    /\ LeaveThread(t, 0)
    /\ UNCHANGED <<rowVars, lastTurn, log, minted, tripped, late, why,
                   snap, others>>

\* Nothing to claim (or the claim failed): leave, in the same critical section.
NothingNext(t) ==
    /\ pc[t] \in {"next", "resumed"}
    /\ \E spent \in {0, 1} :
         /\ IF spent = 0 THEN Visible(t) = {}
                         ELSE "row" \in FaultKinds /\ budget.faults < MaxFaults
         /\ LeaveThread(t, spent)
    /\ IF At(t, "next") THEN ClearCancel(t) ELSE UNCHANGED <<token, resume>>
    /\ UNCHANGED <<rowVars, lastTurn, log, minted, tripped, late, why,
                   snap, others>>

\* next_turn.  When it fails the prompt is given back and the thread released,
\* but the token and a resume marker stay behind.
NumberTurn(t) ==
    /\ At(t, "numbering")
    /\ \/ /\ lastTurn' = [lastTurn EXCEPT ![t] = @ + 1]
          /\ Goto(t, "start")
          /\ UNCHANGED <<why, budget>>
       \/ /\ Fault("row")
          /\ why' = [why EXCEPT ![t] = "unnumbered"]
          /\ Goto(t, "giveBack")
          /\ UNCHANGED lastTurn
    /\ UNCHANGED <<rowVars, log, sessionVars, tokenVars, cur, held, shell, snap, others>>

-------------------------------------------------------------------------------
(* Restart. *)

\* Store::open makes claimed prompts visible again.
ResetClaims ==
    row' = [p \in Prompts |-> IF row[p] = "claimed" THEN "queued" ELSE row[p]]

\* Everything in memory is lost; recover_interrupted_session_summaries records
\* that no session is active.  No queue is dispatched.
Crash ==
    /\ budget.crashes < MaxCrashes
    /\ budget' = [budget EXCEPT !.crashes = @ + 1]
    /\ ResetClaims
    /\ announced' = [s \in Sessions |-> FALSE]
    /\ active' = {} /\ resume' = {} /\ deleting' = {}
    /\ token' = [t \in Threads |-> 0]
    /\ late' = [t \in Threads |-> {}]
    /\ pc' = [t \in Threads |-> "none"]
    /\ cur' = [t \in Threads |-> NoPrompt]
    /\ held' = [t \in Threads |-> 0]
    /\ shell' = [t \in Threads |-> FALSE]
    /\ why' = [t \in Threads |-> "none"]
    /\ snap' = [t \in Threads |-> Empty]
    /\ promised' = [p \in Prompts |-> 0]
    /\ UNCHANGED <<pos, published, lastTurn, log, gone, minted, tripped>>

-------------------------------------------------------------------------------

Settle(t) == \/ SettleCancelled(t) \/ RecordCancelled(t) \/ SettleFailed(t)
             \/ SettlePanic(t) \/ SettleCompleted(t) \/ SettleFails(t)
             \/ GiveBack(t) \/ ReadQueue(t) \/ EmitQueue(t)
             \/ ClearAfterPanic(t) \/ ReleaseThread(t) \/ FinishInterrupted(t)
             \/ ClaimNext(t) \/ NothingNext(t) \/ NumberTurn(t)

Task(t) == \/ PersistShell(t) \/ Consume(t) \/ Conclude(t) \/ Complete(t) \/ StopOnCancel(t)
           \/ EndBadly(t) \/ Settle(t)

PromptCommand(p) == \/ SendQueued(p) \/ SendQueuedFails(p)
                    \/ SendStarts(p) \/ SendStartFails(p)
                    \/ DispatchPromptIdle(p) \/ DispatchPromptRunning(p)
                    \/ DispatchPromptRunningFails(p)

ThreadCommand(t) == \/ DispatchQueueIdle(t) \/ DispatchQueueRunning(t)
                    \/ TripLate(t) \/ CancelTurn(t) \/ EditQueue(t)

Next == \/ \E p \in Prompts : PromptCommand(p)
        \/ \E t \in Threads : ThreadCommand(t) \/ Task(t)
        \/ \E s \in Sessions : BeginDelete(s) \/ EndDelete(s)
        \/ Crash

Spec == Init /\ [][Next]_vars

\* A turn that is not cancelled takes as long as its provider likes; a dispatcher
\* is a task that runs on, and a tripped turn returns after bounded cleanup.
Fairness == \A t \in Threads : /\ WF_vars(PersistShell(t)) /\ WF_vars(Complete(t))
                               /\ WF_vars(StopOnCancel(t))
                               /\ WF_vars(Settle(t)) /\ WF_vars(TripLate(t))
FairSpec == Spec /\ Fairness

-------------------------------------------------------------------------------
(* Properties. *)

Places == {"none", "start", "waiting", "running", "completing", "okay", "erred",
           "panicked", "cancelling", "giveBack", "read", "emit", "interrupted", "clearing",
           "releasing", "next", "resumed", "numbering", "stuck"}
Reasons == {"none", "failed", "panicked", "unnumbered", "claimed", "routed"}
Kinds == {"started", "completed", "failed", "cancelled"}
Lifecycle == [ev : Kinds, turn : Nat, prompt : Prompts]
IsQueue(q) == DOMAIN q \subseteq Prompts /\ \A p \in DOMAIN q : q[p] \in Nat

\* Every variable has its type, and a turn has its prompt and (drain_queue: "an
\* active queue prompt must have a cancellation token") its token.
TypeOK ==
    /\ row \in [Prompts -> {"unsent", "queued", "claimed", "done", "removed"}]
    /\ pos \in [Prompts -> Nat]
    /\ lastTurn \in [Threads -> Nat]
    /\ log \in [Threads -> Seq(Lifecycle)]
    /\ announced \in [Sessions -> BOOLEAN]
    /\ gone \subseteq Sessions /\ deleting \subseteq Sessions
    /\ active \subseteq Threads /\ resume \subseteq Threads
    /\ token \in [Threads -> Nat] /\ minted \in [Threads -> Nat] /\ held \in [Threads -> Nat]
    /\ tripped \in [Threads -> SUBSET Nat] /\ late \in [Threads -> SUBSET Nat]
    /\ pc \in [Threads -> Places]
    /\ cur \in [Threads -> Prompts \cup {NoPrompt}]
    /\ shell \in [Threads -> BOOLEAN]
    /\ why \in [Threads -> Reasons]
    /\ promised \in [Prompts -> Nat]
    /\ budget \in [faults : Nat, crashes : Nat, commands : Nat]
    /\ \A t \in Threads : pc[t] \in {"giveBack", "read", "emit"} => why[t] # "none"
    /\ \A t \in Threads : InTurn(t) => cur[t] \in Prompts /\ held[t] # 0
    /\ \A t \in Threads : IsQueue(published[t]) /\ IsQueue(snap[t])

\* A thread is claimed in active_threads exactly while a dispatcher task owns it,
\* or died owning it, and what the session.activity events say of a session is
\* what its claims are: launch, leave, rollback and restart keep them together.
ActivityAgrees ==
    /\ \A t \in Threads : t \in active <=> pc[t] # "none"
    /\ \A s \in Sessions : announced[s] <=> SessionBusy(s)

\* A session that is deleted, or that delete_session has marked, has no claimed
\* thread: no dispatcher starts or survives between the check and the teardown.
DeletionExcludesTurns == \A t \in active : Usable(t)

Owning == {"start", "waiting", "okay", "erred", "panicked", "giveBack", "read", "emit",
           "numbering", "stuck"}

\* No store call has failed and the server has not been restarted.
Undisturbed == budget.faults = 0 /\ budget.crashes = 0

\* A claimed prompt, which no queue shows, is the one a dispatcher of its thread
\* holds: no path leaves a claim behind that nobody will finish or release, also
\* not after a failed append or a restart (a failed release is another matter).
NoOrphanClaim ==
    ("row" \in FaultKinds => budget.faults = 0) => \A p \in Prompts : row[p] = "claimed" =>
        /\ ThreadOf[p] \in active
        /\ cur[ThreadOf[p]] = p
        /\ pc[ThreadOf[p]] \in Owning

Logged(t) == {log[t][i] : i \in 1..Len(log[t])}

\* drain_queue: "Never publish both failed and cancelled terminal states for one
\* turn"; a second terminal event is only ever the cancellation that came after the
\* turn's last look at its token, when it had completed (ADR 0031 promises one).  No
\* turn starts before the one before it has ended.
TurnsDoNotOverlap ==
    budget.crashes = 0 =>
        \A t \in Threads : \A i, j \in 1..Len(log[t]) :
            i < j =>
            /\ log[t][i].turn = log[t][j].turn /\ log[t][i].ev # "started" =>
                  log[t][i].ev = "completed" /\ log[t][j].ev = "cancelled"
            /\ log[t][i].ev = "started" /\ log[t][j].ev = "started" =>
                  /\ log[t][i].turn < log[t][j].turn
                  /\ \E k \in i..j : /\ log[t][k].turn = log[t][i].turn
                                     /\ log[t][k].ev # "started"

\* A prompt that has left the queue_prompts table was shown to the user as a turn
\* (user.message with its turn.started), or is about to be: the dispatcher still
\* holds it between removing the row and recording the cancelled turn.
PromptKept ==
    Undisturbed => \A p \in Prompts : row[p] = "done" =>
        \/ \E e \in Logged(ThreadOf[p]) : e.ev = "started" /\ e.prompt = p
        \/ pc[ThreadOf[p]] = "cancelling" /\ cur[ThreadOf[p]] = p

\* No lost wake-up: prompts wait on an idle thread only because its last turn
\* failed or was cancelled, never because a send met a dispatcher on its way out.
PausedOnlyAfterInterruption ==
    Undisturbed =>
        \A t \in Threads : (t \notin active /\ Visible(t) # {}) =>
            /\ log[t] # <<>>
            /\ log[t][Len(log[t])].ev \in {"failed", "cancelled"}

\* A prompt sent to, or promoted on, a thread whose turn is being cancelled is not
\* left paused by that turn: the dispatcher goes on to another turn (a newer
\* token) before it goes idle.  A panicking turn drops the request.
FollowUpNotStranded ==
    Undisturbed => \A p \in Prompts :
        LET t == ThreadOf[p] IN
        (row[p] = "queued" /\ promised[p] # 0 /\ t \notin active) =>
            minted[t] > promised[p] \/ why[t] = "panicked"

\* docs/design/event-log.md: a queue event "carries the full remaining queue in
\* run order, so replaying to the tail reproduces the current queue".
ReplayReproducesQueue ==
    \A t \in Threads :
        (SessionOf[t] \notin gone /\ pc[t] \notin {"read", "emit", "giveBack"})
            => published[t] = QueueOf(t)

\* A cancelled turn is acknowledged: its dispatcher leaves the thread or moves on
\* to a turn with a fresh token.
CancelAcknowledged ==
    \A t \in Threads : (InTurn(t) /\ Cancelled(t))
                        ~> (t \notin active \/ ~Cancelled(t) \/ ~Undisturbed)
===============================================================================
