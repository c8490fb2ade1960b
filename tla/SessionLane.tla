------------------------------ MODULE SessionLane ------------------------------
(***************************************************************************)
(* The tool lane of one session (engine.rs, engine/routing.rs): two fair    *)
(* locks, execution and admission, that native tool calls, the approved     *)
(* calls of vendor backends and steering attachments pass before they touch *)
(* the worktree; the approvals they wait for (ApprovalHub, permissions.rs); *)
(* and what becomes of the lane when a backend has to be stopped.           *)
(*                                                                          *)
(* Two loops drive a backend.  Engine::run_backend_route serves threads     *)
(* with an automatic route: it leaves a fence behind until the backend has  *)
(* really stopped.  Engine::run_backend_turn serves threads whose model is  *)
(* pinned: it has no fence, goes on serving a cancelled backend until its   *)
(* stream closes and, when anything fails, returns at once and drops the    *)
(* stream together with the permits of the calls in progress.               *)
(*                                                                          *)
(* A fair lock is the set of those that hold it or queue for it and, for    *)
(* each, those that were there before.  A lock is held once nobody ahead    *)
(* excludes the holder.                                                     *)
(***************************************************************************)
EXTENDS Naturals

CONSTANTS
    Tools,          \* calls of native turns, each of a turn of its own
    Mutating,       \* those of them that may change the worktree
    Vendors,        \* attempts of vendor backends
    Pinned,         \* those of them that run_backend_turn drives
    Calls, Steers,  \* tool calls vendors ask approval for, messages steered into them
    VendorOf,       \* the vendor of each
    Casts           \* bound: the sets of tools, attempts and messages that may begin

Work == Tools \cup Calls \cup Steers
Readers == Tools \ Mutating
Writers == Work \ Readers
Asking == Mutating \cup Calls
Clients == Work \cup Vendors
Automatic == Vendors \ Pinned

ASSUME LaneAssumption ==
    /\ Mutating \subseteq Tools
    /\ Tools \cap Calls = {} /\ Tools \cap Steers = {} /\ Calls \cap Steers = {}
    /\ Vendors \cap Work = {} /\ Pinned \subseteq Vendors
    /\ VendorOf \in [Calls \cup Steers -> Vendors]

VARIABLES
    pc,                     \* each piece of work
    vendor,                 \* each vendor attempt
    cancelled,              \* turns whose cancellation token has fired
    execIn, execAhead,      \* tool_execution_lock
    gateIn, gateAhead,      \* tool_mutation_admission_lock
    busy,                   \* approved calls that their vendor still executes
    pending, answer,        \* ApprovalHub: open requests, and answers on their way
    allow,                  \* allow-list of the session
    asked, settled,         \* ApprovalRequested and ApprovalResolved events
    heard, durable          \* messages the vendor took, and those in the event log

exec == <<execIn, execAhead>>
gate == <<gateIn, gateAhead>>
hub == <<pending, answer, allow, asked, settled>>
steering == <<heard, durable>>
vars == <<pc, vendor, cancelled, exec, gate, busy, hub, steering>>

CallsOf(v) == {c \in Calls : VendorOf[c] = v}
SteersOf(v) == {s \in Steers : VendorOf[s] = v}
None == "none"

Init ==
    /\ pc = [x \in Work |-> "idle"] /\ vendor = [v \in Vendors |-> "off"]
    /\ cancelled = {} /\ busy = {}
    /\ execIn = {} /\ execAhead = [x \in Clients |-> {}]
    /\ gateIn = {} /\ gateAhead = [x \in Clients |-> {}]
    /\ pending = {} /\ answer = [x \in Asking |-> None]
    /\ allow \in BOOLEAN /\ asked = {} /\ settled = [x \in Asking |-> 0]
    /\ heard = {} /\ durable = {}

-------------------------------------------------------------------------------
(* The two locks. *)

HasExec(x) ==
    /\ x \in execIn
    /\ IF x \in Readers THEN execAhead[x] \cap Writers = {} ELSE execAhead[x] = {}

\* Only a fence takes admission exclusively.
Passed(x) == x \in gateIn /\ gateAhead[x] \cap Vendors = {}

\* SessionMutationPermit: both locks.
HasPermit(x) == HasExec(x) /\ Passed(x)

JoinExec(x) ==
    /\ execIn' = execIn \cup {x}
    /\ execAhead' = [execAhead EXCEPT ![x] = execIn]

JoinGate(x) ==
    /\ gateIn' = gateIn \cup {x}
    /\ gateAhead' = [gateAhead EXCEPT ![x] = gateIn]

Without(ahead, S) == [x \in Clients |-> IF x \in S THEN {} ELSE ahead[x] \ S]

\* Guards and queued acquisitions of S are dropped.
Release(S) ==
    /\ execIn' = execIn \ S /\ execAhead' = Without(execAhead, S)
    /\ gateIn' = gateIn \ S /\ gateAhead' = Without(gateAhead, S)

-------------------------------------------------------------------------------
(* Who may move. *)

\* The event loop of a backend waits while it materializes or delivers a message.
LoopFree(v) == \A s \in SteersOf(v) : pc[s] \notin {"writing", "offered"}

\* Cancellation breaks the loop of an automatic route; a pinned backend is listened
\* to until its stream closes.
Looping(v) == vendor[v] = "live" /\ LoopFree(v) /\ (v \in cancelled => v \in Pinned)

\* The loop of a backend has ended.
Ended(v) == vendor[v] \notin {"off", "starting", "live"}

\* Approval futures and the pending steering lane are polled by that loop; what it
\* leaves of them when it ends is denied, or dropped, which is the same to them.
Polled(x) == x \in Tools \/ (x \in Calls \cup Steers /\ LoopFree(VendorOf[x]))

\* The cancellation token of a piece of work.
Cancelled(x) ==
    \/ x \in cancelled
    \/ x \in Calls \cup Steers /\ (VendorOf[x] \in cancelled \/ Ended(VendorOf[x]))

\* The bound on what begins.
Begun == {x \in Tools \cup Steers : pc[x] # "idle"} \cup {v \in Vendors : vendor[v] # "off"}
Room(x) == \E cast \in Casts : Begun \cup {x} \subseteq cast

To(x, state) == pc' = [pc EXCEPT ![x] = state]
Done(S) == pc' = [x \in Work |-> IF x \in S THEN "done" ELSE pc[x]]

\* The event loop of a backend ends: a message that waits for the lane is
\* rejected and its place given up.
EndLoop(v, state, work) ==
    LET S == {s \in SteersOf(v) : pc[s] \in {"queued", "gate"}}
    IN  /\ vendor' = [vendor EXCEPT ![v] = state]
        /\ pc' = [x \in Work |-> IF x \in S THEN "refused" ELSE work[x]]
        /\ Release(S)

\* The user stops a turn.
Cancel(x) ==
    /\ x \notin cancelled
    /\ IF x \in Tools THEN pc[x] \notin {"idle", "done"}
                      ELSE vendor[x] \in {"starting", "live"}
    /\ cancelled' = cancelled \cup {x}
    /\ UNCHANGED <<pc, vendor, exec, gate, busy, hub, steering>>

-------------------------------------------------------------------------------
(* Approval. *)

Requests(x) ==
    /\ pc[x] = "idle"
    /\ IF x \in Calls THEN Looping(VendorOf[x]) ELSE Room(x)

\* gate_tool: the allow-list answers, or the user is asked.
Gate(x) ==
    /\ Requests(x)
    /\ \/ /\ allow
          /\ To(x, "queued") /\ JoinExec(x)
          /\ UNCHANGED <<pending, asked>>
       \/ /\ ~allow
          /\ To(x, "ask") /\ pending' = pending \cup {x} /\ asked' = asked \cup {x}
          /\ UNCHANGED exec
    /\ UNCHANGED <<vendor, cancelled, gate, busy, answer, allow, settled, steering>>

\* The request cannot be persisted: the cleanup guard takes it back, and the
\* error ends a vendor's attempt.
AskFails(x) ==
    /\ Requests(x) /\ ~allow
    /\ IF x \in Calls THEN EndLoop(VendorOf[x], "denying", [pc EXCEPT ![x] = "done"])
                      ELSE To(x, "done") /\ UNCHANGED <<vendor, exec, gate>>
    /\ UNCHANGED <<cancelled, busy, hub, steering>>

\* ApprovalHub::resolve, from the approvals endpoint.
Resolve(x, decision) ==
    /\ x \in pending
    /\ pending' = pending \ {x}
    /\ answer' = [answer EXCEPT ![x] = decision]
    /\ UNCHANGED <<pc, vendor, cancelled, exec, gate, busy, allow, asked, settled, steering>>

\* Mutant: a cancelled wait leaves its request open.
LeftOpen(x) == pending

\* Cancellation withdraws the request so that a late answer finds none.
Withdrawn(x) == pending \ {x}

\* The wait ends.
Waited(x) == pc[x] = "ask" /\ Polled(x) /\ (Cancelled(x) \/ answer[x] # None)

\* ApprovalResolved is in the log.
Settle(x) ==
    /\ pending' = Withdrawn(x)
    /\ answer' = [answer EXCEPT ![x] = None]
    /\ settled' = [settled EXCEPT ![x] = @ + 1]
    /\ UNCHANGED asked

\* Cancellation owns the outcome, whatever the answer.
Decide(x) ==
    /\ Waited(x) /\ Settle(x)
    /\ LET d == IF Cancelled(x) THEN "deny" ELSE answer[x]
       IN  /\ allow' = (allow \/ d = "always")
           /\ IF d = "deny" THEN To(x, "done") /\ UNCHANGED exec
                            ELSE To(x, "queued") /\ JoinExec(x)
    /\ UNCHANGED <<vendor, cancelled, gate, busy, steering>>

\* The decision cannot be persisted: the cleanup guard records a denial, and the
\* error ends a vendor's attempt.
DecideFails(x) ==
    /\ Waited(x) /\ Settle(x)
    /\ IF x \in Calls /\ vendor[VendorOf[x]] = "live"
       THEN EndLoop(VendorOf[x], "denying", [pc EXCEPT ![x] = "done"])
       ELSE To(x, "done") /\ UNCHANGED <<vendor, exec, gate>>
    /\ UNCHANGED <<cancelled, busy, allow, steering>>

-------------------------------------------------------------------------------
(* Acquisition. *)

\* A read-only tool call takes the execution lock shared, and asks nobody.
RequestRead(x) ==
    /\ pc[x] = "idle" /\ Room(x)
    /\ To(x, "queued") /\ JoinExec(x)
    /\ UNCHANGED <<vendor, cancelled, gate, busy, hub, steering>>

\* Mutant: admission is taken first, and the execution lane waited for inside it.
GateFirst(x) == pc[x] = "queued"

\* tool_mutation_permit: execution first.
ExecutionFirst(x) == pc[x] = "queued" /\ HasExec(x)

\* ... and admission second.
EnterGate(x) ==
    /\ ExecutionFirst(x) /\ Polled(x) /\ ~Cancelled(x)
    /\ To(x, "gate") /\ JoinGate(x)
    /\ UNCHANGED <<vendor, cancelled, exec, busy, hub, steering>>

\* Cancellation is looked at before a permit: a wait ends, and a permit that was
\* acquired meanwhile is dropped with the outcome.
GiveUp(x) ==
    /\ pc[x] \in {"queued", "gate"} /\ Polled(x) /\ Cancelled(x)
    /\ To(x, "done") /\ Release({x})
    /\ UNCHANGED <<vendor, cancelled, busy, hub, steering>>

-------------------------------------------------------------------------------
(* Native tool calls. *)

StartTool(x) ==
    /\ ~Cancelled(x)
    /\ IF x \in Readers THEN pc[x] = "queued" /\ HasExec(x) ELSE pc[x] = "gate" /\ HasPermit(x)
    /\ To(x, "run")
    /\ UNCHANGED <<vendor, cancelled, exec, gate, busy, hub, steering>>

\* The executor returns, on its own, in acknowledgement of a cancellation, or late.
FinishTool(x) ==
    /\ pc[x] \in {"run", "late"}
    /\ To(x, "done") /\ Release({x})
    /\ UNCHANGED <<vendor, cancelled, busy, hub, steering>>

\* Mutant: a tool that does not acknowledge is abandoned with its permit.
DropPermit(x) == Release({x})

\* The permit moves to a task that waits for the executor.
KeepPermit(x) == UNCHANGED <<exec, gate>>

\* TOOL_CANCEL_CLEANUP_TIMEOUT: the turn goes on without the tool.
ToolTimesOut(x) ==
    /\ pc[x] = "run" /\ x \in cancelled
    /\ To(x, "late") /\ KeepPermit(x)
    /\ UNCHANGED <<vendor, cancelled, busy, hub, steering>>

-------------------------------------------------------------------------------
(* Vendor backends. *)

StartVendor(v) ==
    /\ vendor[v] = "off" /\ Room(v)
    /\ vendor' = [vendor EXCEPT ![v] = "starting"]
    /\ UNCHANGED <<pc, cancelled, exec, gate, busy, hub, steering>>

Started(v) ==
    /\ vendor[v] = "starting"
    /\ \E next \in {"live", "closed"} : vendor' = [vendor EXCEPT ![v] = next]
    /\ UNCHANGED <<pc, cancelled, exec, gate, busy, hub, steering>>

\* Cancelled while it starts: fenced, then told to stop.  The start of a pinned
\* backend is waited for whatever the user does.
StopStartup(v) ==
    /\ vendor[v] = "starting" /\ v \in cancelled /\ v \in Automatic
    /\ vendor' = [vendor EXCEPT ![v] = "halting"]
    /\ JoinGate(v)
    /\ UNCHANGED <<pc, cancelled, exec, busy, hub, steering>>

\* The start returns in time, and the fence goes with whatever it returned: an
\* error, or a stream nobody reads to its end.
StartupReturns(v) ==
    /\ vendor[v] = "halting"
    /\ \E next \in {"adrift", "closed"} : vendor' = [vendor EXCEPT ![v] = next]
    /\ Release({v})
    /\ UNCHANGED <<pc, cancelled, busy, hub, steering>>

\* The outcome of an approval: the permit is kept under the call, then the vendor
\* is told.  A vendor that no longer listens gives the permit back.
Approve(c) ==
    /\ Looping(VendorOf[c]) /\ pc[c] = "gate" /\ HasPermit(c)
    /\ \/ To(c, "run") /\ busy' = busy \cup {c} /\ UNCHANGED <<exec, gate>>
       \/ To(c, "done") /\ Release({c}) /\ UNCHANGED busy
    /\ UNCHANGED <<vendor, cancelled, hub, steering>>

VendorFinishes(c) ==
    /\ c \in busy
    /\ busy' = busy \ {c}
    /\ UNCHANGED <<pc, vendor, cancelled, exec, gate, hub, steering>>

\* The vendor's completion event releases the permit.
ToolCompleted(c) ==
    /\ Looping(VendorOf[c]) /\ pc[c] = "run" /\ c \notin busy
    /\ To(c, "done") /\ Release({c})
    /\ UNCHANGED <<vendor, cancelled, busy, hub, steering>>

\* The vendor's turn is complete.  A pinned backend that is cancelled closes its
\* stream too, once it has stopped.
Complete(v) ==
    /\ Looping(v) /\ busy \cap CallsOf(v) = {}
    /\ EndLoop(v, "ending", pc)
    /\ UNCHANGED <<cancelled, busy, hub, steering>>

\* A failure of the stream, or an error of the engine; cancellation of an automatic
\* route.
Break(v) ==
    /\ vendor[v] = "live" /\ LoopFree(v)
    /\ EndLoop(v, "denying", pc)
    /\ UNCHANGED <<cancelled, busy, hub, steering>>

\* deny_pending_backend_approvals has resolved every outstanding approval.
Denied(v) == \A c \in CallsOf(v) : pc[c] \notin {"ask", "queued", "gate"}
Granted(v) == {c \in CallsOf(v) : pc[c] = "run"}

\* Mutant: the stream is dropped and the permits are not.
DropStreamOnly(v) ==
    /\ vendor[v] = "ending" /\ (v \in Pinned \/ Denied(v))
    /\ vendor' = [vendor EXCEPT ![v] = "closed"]
    /\ UNCHANGED <<pc, cancelled, exec, gate, busy, hub, steering>>

\* An automatic route denies the outstanding approvals first, a pinned one clears
\* its permits first.
EndCompleted(v) ==
    /\ vendor[v] = "ending" /\ (v \in Pinned \/ Denied(v))
    /\ vendor' = [vendor EXCEPT ![v] = "closed"]
    /\ Done(Granted(v)) /\ Release(Granted(v))
    /\ UNCHANGED <<cancelled, busy, hub, steering>>

\* drain_or_quarantine_backend: an approved call already holds the lane;
\* otherwise admission is fenced before the vendor is told to stop.
Fence(v) ==
    /\ vendor[v] = "denying" /\ Denied(v) /\ v \in Automatic
    /\ vendor' = [vendor EXCEPT ![v] = "draining"]
    /\ IF Granted(v) = {} THEN JoinGate(v) ELSE UNCHANGED gate
    /\ UNCHANGED <<pc, cancelled, exec, busy, hub, steering>>

\* BACKEND_CANCEL_CLEANUP_TIMEOUT: the turn ends, a task keeps fence and permits.
CleanupTimesOut(v) ==
    /\ vendor[v] \in {"halting", "draining"}
    /\ vendor' = [vendor EXCEPT ![v] = "late"]
    /\ UNCHANGED <<pc, cancelled, exec, gate, busy, hub, steering>>

\* run_backend_turn returns the error: stream and permits are dropped together, and
\* a call that the engine approved may still be executing.  After an error of the
\* stream the outstanding approvals are denied first; after any other they are
\* dropped with the rest.
Abandon(v) ==
    /\ vendor[v] = "denying" /\ v \in Pinned
    /\ vendor' = [vendor EXCEPT ![v] = "adrift"]
    /\ Done(Granted(v)) /\ Release(Granted(v))
    /\ UNCHANGED <<cancelled, busy, hub, steering>>

\* The vendor has stopped: its stream closes or, dropped, has interrupted it.
VendorCloses(v) ==
    /\ vendor[v] \in {"draining", "late", "adrift"}
    /\ vendor' = [vendor EXCEPT ![v] = "closed"]
    /\ busy' = busy \ CallsOf(v)
    /\ Done(Granted(v)) /\ Release(Granted(v) \cup {v})
    /\ UNCHANGED <<cancelled, hub, steering>>

-------------------------------------------------------------------------------
(* Steering. *)

\* steer_turn: the registration of the running turn is looked up and used.
Steer(s) ==
    /\ pc[s] = "idle" /\ vendor[VendorOf[s]] = "live" /\ Room(s)
    /\ To(s, "sent")
    /\ UNCHANGED <<vendor, cancelled, exec, gate, busy, hub, steering>>

\* What is still in the channel when the attempt ends is rejected; so is, in a
\* cancelled pinned one, the message that waits for the lane.
RejectSteer(s) ==
    LET v == VendorOf[s]
    IN  /\ \/ pc[s] = "sent" /\ Ended(v)
           \/ pc[s] \in {"queued", "gate"} /\ Looping(v) /\ v \in cancelled
        /\ To(s, "refused") /\ Release({s})
        /\ UNCHANGED <<vendor, cancelled, busy, hub, steering>>

\* The loop takes one message.  Attachments wait for the lane; text does not.
TakeSteer(s) ==
    LET v == VendorOf[s]
    IN  /\ Looping(v) /\ v \notin cancelled /\ pc[s] = "sent"
        /\ \A q \in SteersOf(v) : pc[q] \notin {"queued", "gate"}
        /\ \/ To(s, "queued") /\ JoinExec(s)
           \/ To(s, "offered") /\ UNCHANGED exec
        /\ UNCHANGED <<vendor, cancelled, gate, busy, hub, steering>>

Materialize(s) ==
    /\ Looping(VendorOf[s]) /\ ~Cancelled(s) /\ pc[s] = "gate" /\ HasPermit(s)
    /\ To(s, "writing")
    /\ UNCHANGED <<vendor, cancelled, exec, gate, busy, hub, steering>>

\* The files are in the worktree and the permit is gone before the vendor hears.
Materialized(s) ==
    /\ pc[s] = "writing"
    /\ \E next \in {"offered", "refused"} : To(s, next)
    /\ Release({s})
    /\ UNCHANGED <<vendor, cancelled, busy, hub, steering>>

VendorRefuses(s) ==
    /\ pc[s] = "offered"
    /\ To(s, "refused")
    /\ UNCHANGED <<vendor, cancelled, exec, gate, busy, hub, steering>>

VendorAccepts(s) ==
    /\ pc[s] = "offered"
    /\ To(s, "accepted")
    /\ heard' = heard \cup {s} /\ durable' = durable \cup {s}
    /\ UNCHANGED <<vendor, cancelled, exec, gate, busy, hub>>

\* Mutant: the attempt goes on.
CarryOn(s) == To(s, "refused") /\ UNCHANGED <<vendor, exec, gate>>

\* An error of the commit ends the attempt: its context has left the log behind.
FailAttempt(s) == EndLoop(VendorOf[s], "denying", [pc EXCEPT ![s] = "refused"])

CommitFails(s) ==
    /\ pc[s] = "offered" /\ vendor[VendorOf[s]] = "live"
    /\ FailAttempt(s)
    /\ heard' = heard \cup {s}
    /\ UNCHANGED <<cancelled, busy, hub, durable>>

-------------------------------------------------------------------------------
Approval == \E x \in Asking : Gate(x) \/ AskFails(x) \/ Decide(x) \/ DecideFails(x)
                              \/ \E d \in {"approve", "always", "deny"} : Resolve(x, d)
Native == \E x \in Tools : StartTool(x) \/ FinishTool(x) \/ ToolTimesOut(x)
Vendor == \/ \E v \in Vendors : StartVendor(v) \/ Started(v) \/ StopStartup(v) \/ StartupReturns(v)
                 \/ Complete(v) \/ Break(v) \/ EndCompleted(v) \/ Fence(v) \/ CleanupTimesOut(v)
                 \/ Abandon(v) \/ VendorCloses(v)
          \/ \E c \in Calls : Approve(c) \/ VendorFinishes(c) \/ ToolCompleted(c)
Steering == \E s \in Steers : Steer(s) \/ RejectSteer(s) \/ TakeSteer(s) \/ Materialize(s)
                 \/ Materialized(s) \/ VendorRefuses(s) \/ VendorAccepts(s) \/ CommitFails(s)

Next ==
    \/ Approval \/ Native \/ Vendor \/ Steering
    \/ \E x \in Readers : RequestRead(x)
    \/ \E x \in Writers : EnterGate(x)
    \/ \E x \in Tools \cup Calls : GiveUp(x)
    \/ \E x \in Tools \cup Vendors : Cancel(x)

Spec == Init /\ [][Next]_vars

\* What a piece of work, and a vendor attempt, does without anybody asking.
Advance(x) ==
    \/ x \in Asking /\ (Decide(x) \/ DecideFails(x))
    \/ x \in Writers /\ EnterGate(x)
    \/ x \in Tools \cup Calls /\ GiveUp(x)
    \/ x \in Tools /\ (StartTool(x) \/ FinishTool(x))
    \/ x \in Calls /\ (Approve(x) \/ VendorFinishes(x) \/ ToolCompleted(x))
    \/ x \in Steers /\ (Materialize(x) \/ Materialized(x) \/ VendorRefuses(x) \/ VendorAccepts(x)
                        \/ CommitFails(x) \/ RejectSteer(x))
Stop(v) == \/ EndCompleted(v) \/ Fence(v) \/ Abandon(v) \/ StartupReturns(v) \/ VendorCloses(v)
           \/ v \in cancelled \cap Automatic /\ Break(v)

\* The engine's tasks are polled; an executor returns; a vendor finishes a call it
\* executes, answers a message and, told to stop, stops in the end.
FairSpec == Spec /\ (\A x \in Work : WF_vars(Advance(x))) /\ (\A v \in Vendors : WF_vars(Stop(v)))

-------------------------------------------------------------------------------
States == {"idle", "ask", "queued", "gate", "run", "late", "done",
           "sent", "writing", "offered", "accepted", "refused"}

TypeOK ==
    /\ pc \in [Work -> States]
    /\ vendor \in [Vendors -> {"off", "starting", "live", "halting", "denying", "ending",
                               "draining", "late", "adrift", "closed"}]
    /\ cancelled \subseteq Tools \cup Vendors
    /\ execIn \subseteq Work /\ execAhead \in [Clients -> SUBSET execIn]
    /\ gateIn \subseteq Clients /\ gateAhead \in [Clients -> SUBSET gateIn]
    /\ busy \subseteq Calls
    /\ pending \subseteq Asking /\ answer \in [Asking -> {None, "approve", "always", "deny"}]
    /\ allow \in BOOLEAN /\ asked \subseteq Asking /\ settled \in [Asking -> Nat]
    /\ heard \subseteq Steers /\ durable \subseteq Steers

\* Calls that a pinned backend still executes after run_backend_turn has returned an
\* error and given up their permits.
Orphans == {c \in busy : vendor[VendorOf[c]] = "adrift"}

\* What happens in the worktree under the lane: tools, late ones included, the
\* approved calls that vendors execute, except orphans, and the attachments of
\* messages.
Touching == (busy \ Orphans) \cup {x \in Tools : pc[x] \in {"run", "late"}}
                              \cup {s \in Steers : pc[s] = "writing"}

Promise == INSTANCE WorktreeLane WITH
    Writers <- Writers, Readers <- Readers,
    writing <- Touching \cap Writers, reading <- Touching \cap Readers

\* The lane keeps its promise, although cancelled tools and stopped backends go
\* on working after the turn they belonged to has ended.  The promise does not
\* cover orphans: once run_backend_turn has returned an error nobody waits for its
\* backend, and another mutation may start while a call of it is still executing.
\* Every other mutation is covered, those of pinned backends included.
LaneKept == Promise!Spec

\* A backend of an automatic route that is being stopped.
Stopping(v) == vendor[v] \in {"halting", "draining", "late"}

\* Once the backend of an automatic route is told to stop, no mutation is admitted
\* while it is waited for: one that queued before it for the lane is overtaken.
\* The exception is a mutation that another backend's fence held back at the gate
\* before this one's was put up; it starts when that fence goes.  Nothing of the
\* kind is claimed for pinned backends, which are never fenced, nor for the time
\* after a cancelled start has returned a stream, which takes the fence away.
NoneAdmittedDuringCleanup ==
    [][\A x \in Writers, v \in Automatic :
          Stopping(v) /\ Stopping(v)' /\ ~HasPermit(x) /\ HasPermit(x)'
          => \E w \in Vendors \ {v} : w \in gateIn \ gateIn']_vars

\* Every request for approval is resolved once, by whoever waits for it: an open
\* request has a waiter, a waiter has a request or an answer, and what has stopped
\* waiting has left one ApprovalResolved event.
AskedAndSettled ==
    /\ \A x \in pending : pc[x] = "ask"
    /\ \A x \in Asking : pc[x] = "ask" => x \in pending \/ answer[x] # None
    /\ \A x \in Asking : settled[x] = IF x \in asked /\ pc[x] # "ask" THEN 1 ELSE 0

\* The caller of steer_turn is told of acceptance exactly when the message is in
\* the log, and no attempt goes on with a message that is not.
SteeredAsTold ==
    /\ \A s \in Steers : pc[s] = "accepted" <=> s \in durable
    /\ durable \subseteq heard
    /\ \A s \in heard \ durable : vendor[VendorOf[s]] # "live"

\* Nobody waits for the lane for ever: not behind a fence whose backend has been
\* given up, not behind a permit whose turn has ended, and nobody in a circle.
LaneWaitEnds ==
    \A x \in Work : pc[x] \in {"queued", "gate"} ~> pc[x] \notin {"queued", "gate"}
===============================================================================
