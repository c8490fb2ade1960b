# Formal models of trouve

TLA+ models, TLC runs and TLAPS proofs for trouve, the protocol-first harness for AI
coding agents. The models follow the Rust and TypeScript code; `PROJECT.json` maps every
definition to the lines it stands for.

## The system

trouve is one server process (`trouve-server` over `trouve-core`) with one SQLite database,
many clients that speak HTTP commands and server-sent event streams, and many child
processes (agent vendors, MCP servers, shells, git). Clients hold no truth of their own:
every change is a row of an append-only event log, and every view is a fold of it.

| Component | State | Operations | Interacts with |
|---|---|---|---|
| Event writer (`store.rs`) | `events` rows, request channel, one deferred request, code-review outbox | append, isolated append, flush outbox, commit, publish, reply | every component appends through it |
| Event delivery (`store.rs`, `trouve-server`, `cursor-event-stream.ts`) | scoped broadcast channels, follower tasks, client cursors | subscribe, replay, receive, lag, reconnect | reads the log, hears the writer |
| Turn dispatcher (`engine.rs`) | `active_threads`, cancel tokens, resume markers, `queued_prompts` | send, queue, reorder, dispatch, drain, cancel, resume, delete session | appends lifecycle events |
| Session projection (`store.rs`) | `session_summaries`, `thread_statuses`, attention rows | project, recover at open, snapshot | runs inside the writer's transaction |
| Thread-view cache (`store.rs`, `trouve-thread-view`) | cached fold, items and details | snapshot, turn-boundary refresh, page | folds the log |
| Provider admission and routing (`engine.rs`, `engine/routing.rs`, `trouve-agents/route.rs`) | running turns, backoff windows, route health | acquire, release, back off, select | gates turns |
| Tool lane (`engine.rs`, `permissions.rs`, `tools/`) | execution and admission lock of a session, permits, fences, pending approvals and questions, steered messages | run tool, approve, answer, cancel, steer, stop a backend | part of a turn |
| Subagents (`engine.rs`) | thread tree, per-root caps | spawn, wait, cancel tree | start turns |
| Checkpoints, undo and redo (`engine.rs`, `git.rs`) | checkpoint rows, worktree | checkpoint, undo, redo, restore | exclusive with turns |
| Code-review service (`review.rs`, `store.rs`) | jobs, tasks, deliveries, publications, findings | enqueue, supersede, claim, finish, publish, reconcile, retry | GitHub, outbox |
| Automations (`automations.rs`, `engine.rs`) | schedules, last runs | tick, run now | starts sessions |
| Artifact cleanup (`store.rs`, `engine.rs`) | `artifact_cleanup_jobs` with claims and leases, attachment rows, files, worktrees, checkpoint refs | stage, write, commit, drop, remove, delete session, claim, heartbeat, clean, retire | uploads, queued prompts, deletion |
| Terminals (`terminal.rs`) | scrollback, subscribers | open, write, follow, close | PTYs |
| Vendor agents (`trouve-agents`) | processes, sessions, installs | start, steer, stop, install | turns |
| MCP client (`mcp.rs`), search (`trouve-search`), providers, git and GitHub I/O, desktop host, web UI | caches, sockets, widgets | request and response | mostly I/O |

### What is hard about it

- **Concurrency.** Commands, dispatcher tasks, the writer thread, SSE tasks and reader
  threads interleave at every `await` and every unlock. Locks cover parts of an operation:
  a dispatcher reads the queue under one lock and appends it under none; the writer clones a
  sender under the map's lock and sends after it; a terminal's exit flag is read after its
  backlog lock is released; a provider's generation advances before its instance is replaced.
- **Failure.** Any append may fail, a restart may fall between any two store calls, the
  answer to a POST may be lost though GitHub created the review, a lease may run out under
  its holder, a tool or vendor told to stop may go on working.
- **Bounds.** Broadcast channels overflow (`Lagged`), backlogs drop their oldest bytes, pages
  end in the middle of a replay, unused channels are pruned.
- **Progress.** A cancelled turn must end, a pending outbox row must reach the log, a client
  that reconnects must catch up, a job must settle, a call that waits for the lane must get it
  or give up, a cleanup job must be retired whoever died over it.

`PROJECT.json` lists these as hazards, each at its line with the properties that would
notice it going wrong.

### What makes each part correct

| Component | Properties |
|---|---|
| Event writer | a caller is told the truth about its rows; a skipped mutation takes nobody with it; rows are durable before anyone hears of them; outbox rows reach the log once and in order; every caller is answered |
| Event delivery | each client gets the readable rows of its scope exactly once, in order, and in the end all of them |
| Turn dispatcher | one dispatcher per claimed thread; announced activity is the claims'; turns do not overlap; no prompt is lost, held by nobody or left waiting by a race; deletion excludes turns; a cancelled turn ends |
| Code review | at most one review per job; no row claims a review that does not exist; a cancelled job has none; the last reviewed revision only moves forward; every job settles |
| Terminals | no shell outlives its session or the server; a client shows each byte once, in order, and skips only what was dropped; it learns of the exit |
| Provider admission and routing | what is known of a provider was learned from its current definition; an older attempt's outcome does not undo a newer one's; nothing that may have had an effect is tried twice; a rate limit is respected |
| Tools, permits, approvals, steering | mutations of a worktree exclude each other and reads, also those of turns that have ended; while a backend of an automatic route is stopped no mutation gets in; each request for approval is settled once; a steered message is accepted exactly when it is in the log; no wait is for ever |
| Artifact cleanup | a file a message owns is never deleted; a file nothing owns is not forgotten; a deleted session leaves nothing; every job is retired |
| Session projection, thread view | the cached fold is the fold of the log (planned) |
| Subagents, checkpoints, automations | caps hold; undo and redo are inverse; a schedule fires once (planned) |

## Modules

| Module | Stands for |
|---|---|
| `DurableLog` | what the event writer promises to readers |
| `EventWriter` | the writer thread, its callers, the code-review outbox; implements `DurableLog` |
| `EventStream` | what a client of an event stream is promised |
| `EventFollower` | channels, SSE followers and reconnecting clients over a `DurableLog`; implements `EventStream` |
| `TurnDispatch` | prompt queue, dispatchers, cancellation, session activity, deletion |
| `ReviewPublication` | code-review jobs of one pull request and what they put on GitHub |
| `TerminalOutput` | one terminal's bytes from the PTY reader to the client's screen |
| `TerminalManager` | who may have a shell, against archiving, deletion, workspace close, shutdown |
| `ModelRouting` | which provider runs a turn: backoff, failover, route health, replacement of a provider |
| `WorktreeLane` | what the tool lane of a session promises |
| `SessionLane` | locks, permits, approvals, steering and fences of a session; implements `WorktreeLane` |
| `ArtifactCleanup` | the files of a session and the jobs that remove them |
| `*Proofs` | theorems about the module they are named after; `TerminalProofs` about both terminal modules |
| `MC*` | instances for TLC |

Operators introduced by `\* Mutant:` are faulty variants of the definition that follows
them. No specification uses them; each shows that a property notices that fault.

### EventWriter

`queue` is the writer's request channel, `deferred` the one request it may have put aside,
`batch`, `todo` and `staged` the transaction being built, `log` the `events` table and
`published` how many of its rows the channels were given. `Gather` takes requests while
`Joins` lets them share a transaction (`APPEND_BATCH_MAX`, isolation), `Transact` inserts
and commits or rolls back, `Announce` publishes row by row and then replies. An append is a
caller's batch with the scopes of the rows it writes; the rows derived from them (session
summaries on the server scope) are part of `Rows[a]`. `ReadPending` and `SendFlush` are two
steps of a flusher, so that two of them can read the same pending rows; `SkipStaleFlush` is
what the transaction then does. `DurableThenPublished` is the specification of `DurableLog`. `StorageFault` fails a transaction, `Restart` loses
everything but `log` and `outbox`.

Left out: the mutations' own tables; deletion of a session's event rows (store.rs 5721);
outbox rows that no longer deserialize and are discarded (store.rs 10872).

### EventFollower

A cursor is a position in `log`. `LookupSender` and `PublishRow` are two steps because the
sender is cloned before it is used. A follower task goes through the phases of
`event_stream`: subscribe first, then `sample` a ceiling, replay in pages up to it, then
follow the receiver and go back to the replay when it reports lag. `Connect` prunes channels
without receivers above `ChannelLimit`. The client accepts only cursors above its own and reconnects from it.
Rows of retired event types (`decodable = FALSE`) exist only in `History`.

Real capacities: channel 1024, pipe 256, page 64, prune limit 1024. The model uses 1, 1,
2 and 1, under which every overflow, partial page and pruning happens within six rows.

### TurnDispatch

`row` and `pos` are the `queued_prompts` table, `published` the last queue event, `log` the
turn lifecycle, `active`, `token`, `tripped`, `resume` and `deleting` the engine's maps; `pc`
says where the dispatcher task of each thread is. A command (`send_message`,
`dispatch_queue`, `dispatch_queued_prompt`, `cancel_turn`, queue edits) holds
`session_activity_publication` and `prompt_queue_mutations` throughout and is one action,
with its failing variants. A dispatcher takes one action per store call or lock section.
The turn itself is reduced to what the dispatcher sees: the shell is appended, it runs, it
may wait where it listens for cancellation, it completes, fails or panics.

Left out: the text and attachments of prompts; vendor collaborator claims (engine.rs
1335-1405, 18236-18830); a second failure while a failed launch is being undone. The cascade
of `cancel_turn` to descendant threads is a sequence of `CancelTurn` steps. `Launch` is one action although
`launch_claimed_prompt` drops `session_activity_publication` (engine.rs 15193) before it emits the queue and takes the turn's number.

### ReviewPublication

`job` holds the rows of one pull request; the rowid also stands for the generation.
`exec` walks `run_code_review_job` and `execute_code_review` from store call to store call and
from request to request; `pass` walks `sync_code_review_projection`. GitHub is external: a POST
in `flying` creates a review or not, answers or not, also long after its sender gave up.
`Recovered` is `recover_code_review_jobs`. Reviewers and the final editor are choices of
outcome.

Abstractions: the base revision is part of the head; the first revalidation and the save
of the staged result happen with the checks that follow them; one projection pass runs per
job at a time; the miss counter stops at its threshold; whether reviewers leave candidates
is fixed per job; a poll supersedes drafts and older revisions and enqueues in one action (review.rs 4503-4633). Left out: a
changed base ref alone; the discard after a failed revalidation of a staged result, which gives the place in the
publication order back (review.rs 4911, store.rs 12204-12209); the second lookup of a round that is accepted and published but not
wholly reconciled (review.rs 9675-9712); continuations, jobs of the legacy full-coverage kind, cleanup of
blocking reviews, findings and themes.

### TerminalOutput

The byte at offset n is the number n. A frame carries the offset it claims and the bytes it
really has, so that a miscounted offset shows. `ReadChunk` appends, trims and broadcasts
under the backlog lock. The SSE task subscribes (snapshot and receiver under that lock), reads
`exited` after it, sends the replay marker, the replay and then live chunks. The client
deduplicates by offset. A native `EventSource` reconnect reuses the URL it was made with,
whose offset may be old: `client.url` keeps it apart from `client.offset`.

Left out: terminals removed while followed (404), malformed markers and payloads.
Real capacities: backlog 512 KiB, channel 256 chunks, pipe 64 events.

### TerminalManager

An admitted request reaches the manager after the checks that admitted it; `admission` is the
holder of the `deleting_sessions` mutex, `lifecycle` of the workspace's registration lock.
`tombs` is `closed_sessions`. Spawning and tearing a session down hold `open_lock` and are
atomic; close and reopen walk a list of sessions read earlier. `NoSpawn` covers a refusal, an
existing live shell and a failing spawn. There is one workspace; a session created while it
closes is no case of its own, since creation needs an open workspace. Reads of the store succeed: left out is a `list_sessions` that
fails after the workspace's row has changed (engine.rs 12396-12398, 11825-11828, 12151-12154), which leaves shells running in a
closed workspace or tombstones in an open one, so `ShellsEnd` and `AvailableIsOpen` do not speak of that case. Its specification is
`ManagerSpec` (`ManagerInit`, `ManagerNext`), as `TerminalProofs` extends `TerminalOutput` too.

### ModelRouting

A route is a model of one provider. `turn` walks an attempt of `run_turn`: candidates taken from one
snapshot of the registry (`Discover`), ranking without routes that cool down (`Rank`), the first
route that is ready (`Select`), `TurnScheduler::admit` (`Admit`), the attempt, its outcome
(`Complete`, `Fail`, `Panic`, `FinishPinned`) and failover. `backoff` is the scheduler's map,
`health` the `route_health` table, `gen` and `inst` the generations and the instances in the
registry. A replacement (`Retire` ... `Rebuild`) is the steps of `BackendRetirement` and
`prepare_route_state` with the locks they hold. `taught`, `quiet` and `newest` are history: from which
instance a row was learned, which rest a provider asked for, the newest attempt that reported.

Abstractions: ranking may choose any order of any routes that are open; a failure's kind is given,
not classified; the delay of a failing route doubles up to an exponent of 20, as in
`record_route_failure`; the ranking reads health and backoff in one step; orders survive a restart, that is, the
wall clock they are seeded from does not step back. Left out: an `invalidate_provider_route_state` that fails,
which is only logged before the registry is rebuilt (engine.rs 8655-8664); `delete_provider` (engine.rs 5556-5634); a promotion and its rollback failing
both, the refresh of catalogues, usage windows. That every wait for a cooldown ends is not
checked: the graph is too large for TLC's liveness check.

### SessionLane

A fair lock is the set of clients that hold it or wait for it and, for each, those that were there
before (`execIn`, `execAhead`; `gateIn`, `gateAhead`). A native mutation or an approved vendor call queues for
execution, then for admission (`EnterGate`), and has its permit once nobody ahead excludes it; a
reader takes execution only. `ToolTimesOut` and `busy` are work that outlives its turn. `pending`,
`answer`, `asked` and `settled` are `ApprovalHub` and its events; `Steer` ... `CommitFails` is a message's way into a
vendor attempt, whose event loop stands still meanwhile (`LoopFree`).

Two loops drive a backend, and the constant `Pinned` says which attempts are the second one's:

- `run_backend_route` (engine/routing.rs), for automatic routes. Cancellation or a failure ends the loop (`Break`), outstanding approvals
  are denied, and `Fence` takes admission exclusively, unless an approved call already holds the lane, before the backend is told
  to stop; fence and permits stay until it has (`VendorCloses`), also when the turn has given up waiting (`CleanupTimesOut`). A
  backend cancelled while it starts is fenced too (`StopStartup`); if the start returns in time the fence goes with it
  (`StartupReturns`), although a stream it may have returned is dropped unread.
- `run_backend_turn` (engine.rs 17943-19229), for threads whose model is pinned. Its start is not raced against cancellation, it never
  fences, and it listens to a cancelled backend until the stream closes (`Looping`, `Complete`). On an error of the stream, of an
  approval, of steering or of a flush it returns at once and stream and permits are dropped (`Abandon`); the backend is then
  `adrift` until it stops, and approved calls it still executes are `Orphans`.

Everything else (approvals, permits, steering, the end of a completed turn) is the same code or the same steps in both.

Left out: batches of parallel reads, background shells, prefetches, questions (the same hub), approvals of
collaborators, the steering channel's capacity of 8, steering of native turns, a failing append
of `ApprovalResolved` whose repetition fails too. Tools that a vendor runs without asking are
outside the lane in the code as well.

### ArtifactCleanup

`open`, `paths`, `token`, `expired` and `delayed` are the columns of `artifact_cleanup_jobs`, `rows`, `queue` and `attach` the
tables of messages and queued prompts, `disk`, `refs` and `worktree` what is outside the database. `pc` says where a
claimant is: a request between staging and its commit, a cleanup task, the retry worker. A
claimant has at most one claim, so it stands for the claim's token. `LeaseRunsOut`, `Stall` and `HeartbeatFails` part a claimant
from its lease; `Restart` loses every task and keeps database and files.

Left out: rows that no longer parse and are quarantined, the order of claims by age, the refusal when a
deleted session is live again, Windows paths, a restart of one of two servers alone, a worktree removed from outside. Whether the
worktree exists is read with the claim, in the code later (tools/mod.rs 3037). `git worktree remove` is atomic here; cut in the middle it
can leave a directory that `common_directory` refuses from then on (tools/mod.rs 3089), which no retry repairs and `JobsRetire` does
not speak of.

## Runs

| Run | Question | Bounds |
|---|---|---|
| `event_writer` | replies (also a skipped mutation's neighbours'), queue order, the outbox under two flushers, the refinement of `DurableLog`, progress | three appends: one with a derived row, one isolated and conditional; two flushers, two outbox rows, batch limit 3, one fault or restart; fair |
| `event_follower` | exactly once, in order, everything | two scopes, history with a retired row, six rows, two drops; fair |
| `turn_queue` | prompts, turns, follow-ups, cancellation | one automatic thread, two prompts, one command, one failing append, one restart; fair |
| `turn_sessions` | activity and deletion | two threads of a session, two failing store calls of either kind |
| `review_rounds` | publication order and last reviewed revision | two jobs, two heads, one push, one poll, one command |
| `review_restart` | at most one review, truthful rows, settling | one job, one restart, one command, two failing passes, one dismissal; fair |
| `review_repost` | **violated**: one review per job | one job without candidates, one restart, one dismissal, one command |
| `terminal_output` | the screen against overflow and broken connections | five bytes, backlog 2, channel 2, pipe 2, two breaks; fair |
| `terminal_owners` | shells against teardown | two sessions, two shells |
| `model_routing` | route health, failover and cooldowns against replacement and restart | two automatic turns, one pinned, an API and a vendor provider, two attempts, three inputs |
| `session_lane` | the worktree, approvals, steering, fences, waiting | a native mutation, a read, an automatic and a pinned attempt with a call and a message each, a second automatic attempt; six casts of two or three that begin; fair |
| `artifact_cleanup` | files against leases, faults and deletion | two requests with a file each, a removal, a deletion, a retry worker, one mishap; fair |

Why the bounds are enough to be worth running: each race in the hazard list needs two actors
and one disturbance. Two prompts give a running one and a waiting one (a third adds orders
of the queue, not of the dispatcher); two flushers are the smallest race over the outbox; a
log of six rows overflows a page, a pipe and a channel; two jobs are the smallest
publication order; three begun pieces of work are a writer, its fence and one that waits behind
both, and `Casts` names the combinations that meet; a cleanup race needs the slow request, the worker that overtakes it and one mishap. The batch
limit of the writer is not reached by size in `event_writer`, where isolation and arrival end
batches. Every action and every disjunct of the models fires in some passing
run, and for each property a mutant of the code breaks it under the same bounds. Bounds on
faults, restarts and commands are constants named `Max...` in each module.

`PromptKept`, `PausedOnlyAfterInterruption` and `FollowUpNotStranded` speak of behaviours
without a failed store call or restart: with one, a prompt can be lost in the window at
engine.rs 15387 and a queue can pause, which the code accepts. `NoOrphanClaim` holds with failing
appends and restarts but not when the release of a claim itself fails.

`LearnedFromCurrent`, `CooldownHonoured`, `NoneAdmittedDuringCleanup`, `LaneKept` (`Orphans`) and `NoFileForgotten` name the cases in which the
code does not keep them; the section on differences lists these cases.

`CHECK_DEADLOCK FALSE` everywhere: each of these systems may legitimately stop, when all requests
are answered, a session is deleted, a job is settled, a shell has exited or every turn has ended.

### Symmetry

`review_rounds` exchanges heads, `terminal_owners` sessions and shells, `model_routing` automatic turns; none
of them checks liveness, and no property names one of the exchanged values.

### Fairness

- `EventWriter`: the writer thread runs (`Gather`, `Transact`, `Announce`); flushers repeat,
  as the job sweep does (review.rs 2714-2750, 6285, 6490). Appends are not fair.
- `EventFollower`: writer, task and client run; the client reconnects with a backoff that never
  gives up (`cursor-event-stream.ts`). Disconnects and restarts are bounded.
- `TurnDispatch`: the dispatcher's own steps (`PersistShell`, `Complete`, `Settle`), the delayed trip
  of a token (`TripLate`) and the return of a tripped turn (`StopOnCancel`), which ADR 0031 bounds. Nothing
  is assumed of providers: a turn that is not cancelled may run for ever.
- `ReviewPublication`: the scheduler claims, an execution moves, its end is recorded;
  strong fairness of `Timeout`, because the job's time runs on while the execution
  goes round between phases.
- `TerminalOutput`: reader thread, SSE task and client run. The shell need not write or exit.

- `SessionLane`: the engine's tasks are polled; an executor returns, also a late one; a vendor finishes the
  calls it executes, answers a message and, told to stop, stops in the end (its process is killed). Users need
  neither answer nor cancel, but a cancelled automatic attempt breaks off, since its loop selects on the token: `LaneWaitEnds` is about waits for the lane, not for people.
- `ArtifactCleanup`: requests and cleanup tasks run on, leases and delays run out; strong fairness
  of the retry worker's claim of each job, because it takes jobs until none is claimable and
  a failed one is delayed, so that it cannot keep others out. Mishaps are bounded.

## Proofs

tlapm checks every theorem; no fact is assumed but the named assumptions on constants. Each
inductive invariant was model-checked on the instance of the module's run before it was proved.

**EventWriter** (`RequestsAssumption`, `RowsAssumption`, `ConditionalAssumption`,
`BoundsAssumption`). `WriterInv` follows a request from the queue to its answer. A request is in one place and
its caller waits (`FlightInv`), and a flush or an isolated append is a batch of its own
(`BatchInv`, `CountInv`). `OutboxOnce` needs `IdsInv`, since a flusher's rows may be consumed by another
before its turn: what a flusher read is older than what it did not; then `StagedInv`, by which the
transaction has inserted the oldest of its rows in order, and `LogInv`, by which the log has
exactly the ids below the pending ones. `QueueOrder` needs the same order in every place a request can be:
`LineInv` for queue, deferred request and batch, `SortedInv` for the open transaction, `CursorInv` for log
against all that is still to come. `TruthfulReplies` needs `WholeInv` and `ReplyInv`: a finished append is one
block of `staged`, blocks survive concatenation (`BlockStays`), and only a committed batch may be told
`ok`. `ImplementsDurableLog` needs only that nothing but the publishing writer owes publications
(`PublishInv`); a commit without rows is a stutter. `TypeCorrect` includes the batch limit.

**EventFollower** (`FollowScopeAssumption`, `HistoryAssumption`,
`BatchesAssumption`, `BoundsAssumption`). `TypeCorrect`: types and channel bounds. `Delivery`: the
inductive invariant `DeliveryInv`. That a client sees no gap is not inductive by itself: a
gap can be in the pipe, in the page in memory, in the receiver or between subscription and
ceiling. `DeliveryInv` says for each of these places which rows it must hold: what lies between
the client's cursor and the task's is in the pipe, in order and complete; a receiver that has
not lagged holds every published row of its scope above the replay's ceiling. From it
follow `CaughtUp` (a waiting follower with an empty buffer has sent everything) and
`ImplementsEventStream`: every step of the detailed system is a step of
`EventStream` or a stutter, for any scopes, clients, capacities and history.

**TurnDispatch** (`ShapeAssumption`, `BoundsAssumption`). `ClaimInv` is `ClaimTypes`,
`ActivityAgrees` and `DeletionExcludesTurns` together; they need each other, since a claim is only
added where the session is usable and only removed with its announcement. Lemmas `FrameStep`,
`MoveStep`, `EnterStep` and `LeaveStep` reduce every action to one of four effects on the claim. The
theorems `ActivityAgreesAlways` and `DeletionIsExclusive` hold for any number of threads, prompts,
faults and restarts. The properties of prompts and turns rest on `DispatchInv`, which says of one thread at a
time (`TurnInv`) how the dispatcher's place goes with the prompt it holds (`CurInv`), with the way it came
(`PathInv`), with its thread's log (`LogInv`), with the claimed rows (`HoldInv`), with what the user was shown
(`ShowInv`), with why a queue is paused (`PauseInv`) and with the follow-ups it has promised
(`PromiseInv`). A step belongs to one thread and leaves the others alone (`Elsewhere`), or treats all alike (a restart), and the
counters of faults and restarts never go back, so that a property excused by a fault stays excused. Theorems
`NoClaimIsOrphaned`, `TurnsFollowOneAnother`, `NoPromptVanishes`, `NoLostWakeUp` and `FollowUpRuns`, with the
conditions that the properties themselves state. `TypeCorrect` rests on `StateInv`: no position exceeds the number
of prompts sent (`PosInv`), without which `NextPosition` need not exist, and a dispatcher that has a prompt has its
token (`TokenInv`), which is what `drain_queue` asserts.

**ReviewPublication** (`NumbersAssumption`, `HeadsAssumption`, `CandidatesAssumption`). `JobInv` is about one job: its row,
where its execution and its pass are, and what GitHub has of it. `Placed` says which rows go
with which phases (an execution past its registration has a running row or a tripped token; before the claim
nothing is claimed, dispatched or accepted). `Truthful` adds those who will write the claim to the rows
that make it: an answer, an execution about to record, a pass that found the marker. `Once` is about jobs
with candidates: the editor has succeeded before the publication is claimed, which is what
makes `retry_code_review_final_editor` refuse, so a claim with a POST or a review behind it is never taken back. Each action of a
job is shown to leave the others alone (`Solo`); polling, a draft, a restart and a retry as a new
job are treated row by row (`Each`). The publication order needs that places
are bounded (`Bounded`: then `NextOrder` exists and is new, by well-foundedness) and distinct (`Distinct`).
`RowsTellTheTruth`, `LastReviewedOnlyAdvances` and `TypeCorrect` hold without
conditions, `OneReviewPerEditedJob` for every job with candidates. `OneReviewPerJob`,
`CancelledMeansUnpublished` and `LastReviewedRoundExists` assume `Candidates = {TRUE}`, the instance the runs
check: with jobs that skip their editor all three fail, by the retry of difference 1 below.

**TerminalOutput** (`CapsAssumption`, `BoundsAssumption`). That the screen shows each byte once and in order
depends on offsets that travel through a channel that overflows, a task, a pipe and a client.
`OutputInv` says of each what it holds: the channel's chunks end at increasing offsets and the last one at the
end of the backlog (`LiveInv`); the task's offset is where its receiver stands, unless that has
been overrun (`TaskInv`); the pipe starts at what the client expects and ends at the task's
offset, each event where the one before ended (`PipeInv`); the client's URL is never ahead of its offset (`ClientInv`).
Theorems `Output`, `ScreenIsFaithful`, `TypeCorrect`.

**TerminalManager** (`NoSessionAssumption`). `ShellInv` adds to the two shell properties
that the stages of deletion and closing agree with the store (`StagesAgree`) and that an admitted
creation is of a session that is neither archived nor deleted, whose tombstone, if the workspace
is closing, is set or still to come (`AdmittedIsSafe`): without it, a spawn of an old admission
could follow a teardown. Theorems `ShellsEndWithSession`,
`ShellsEndWithShutdown`, together `ShellsDoEnd`, and `ManagerTypeCorrect`. `NoTombstoneIsForgotten` rests on `TombInv`: whoever has a
tombstone is archived or deleted or its workspace closing, or the step is under way that will remove it (`Refused`).

**SessionLane** (`LaneAssumption`). `LaneInv` says that the execution queue is ordered (of two members one is
ahead of the other), that whoever works holds the lock, that a call a vendor executes has its permit, unless a pinned backend was
abandoned with it, and that a vendor which has completed executes none. From it a writer that gets the lock and has not begun finds nobody at
the worktree (`WriterAlone`), which gives `LaneImplementsPromise`, the refinement of `WorktreeLane` by all but orphans. `ApprovalsSettle` rests on `AskInv`, which ties the
hub to where each asker is; every action outside the hub is a stutter for it (`OthersDoNotAsk`). `SteeringToldTruly`: that no
live attempt goes on with a message that is not in the log is not inductive, since one that has not begun is not live
either; `SteerInv` says that the attempt is past its live phase, from which there is no way back. `FenceHolds`, an action property, rests on `GateInv`: who is
at the gate holds the lane, a writer at work has passed it, and a backend of an automatic route that is being stopped has its fence up or its
approved call still holds the lane; it says nothing of pinned backends. `TypeCorrect`.

**ArtifactCleanup** (`NamesAssumption`, `FilesAssumption`). The invariants are inductive only together.
`PathInv`: a job's paths are fixed when it opens and bound what may be deleted. `FileInv`: a request's
files are in no row and no other job until its message owns them. `FenceInv`: a worker deletes on a staging
job only after the request has lost its claim, so its commit must fail. `DoneInv` and `GitInv` say what a claimant
has already removed at each step. Theorems `OwnedFilesAreKept`, `NoFileIsForgotten`,
`DeletedSessionLeavesNothing`, `TypeCorrect`, for any number of restarts, faults, stalls and expired leases.

**ModelRouting** (`TurnsAssumption`, `RoutesAssumption`, `DelaysAssumption`: a route is of one provider, the base delay
is at most the maximum). A turn may hold candidates of a provider that has been replaced since, and reports
about them later. `RoutingInv` therefore says of each turn where its candidates come from (`TurnsInv`): a
candidate's generation is never ahead of its provider's, and one that is not behind was built from the
current definition, or is `early`, taken between a definition and its registration (`SnapOK`). A replacement
that is under way has the health of its routes in `saved`, and only one at a time does (`SwapInv`); since a failed
publication puts it back, `LearnInv` and `CircuitInv` say of saved health what the properties say of the table.
`QuietInv`: the scheduler's cooldown covers the rest that a provider asked for, so that `Admit`, the only step that
starts an attempt (`OnlyAdmitStarts`), finds none left unless its turn sleeps on the entry of a replaced provider. Theorems `RoutingInvariant`, `TypeCorrect`, `KnowledgeIsCurrent`,
`CircuitIsOfNewest`, `AffinityFollowsModel` and the action properties `NothingIsReplayed` and `RestIsGranted`. That
delays are numbers needs the powers of two, which the prover, having no induction, gets case by case up to the
exponent's cap (`PowersOfTwo`).

Only model-checked: all liveness (`WorkDrains`, `EventuallyDelivered`, `CancelAcknowledged`, `JobSettles`,
`ExitReachesClient`, `LaneWaitEnds`, `JobsRetire`), since the prover handles neither fairness nor `ENABLED`. `TypeOK`
of `TurnDispatch` and `ModelRouting` is proved and listed by no run; it holds on their instances too. Facts that
need induction over data are out of the prover's reach as well; sequences are therefore described by
what holds of each element. No module uses `RECURSIVE`.

## Where code and documents differ

Shown by a run that TLC ends with a counterexample:

1. `review_repost`. `retry_code_review_final_editor` (store.rs 11683) clears `publication_claimed`
   without looking at `publication_dispatched`. A restart interrupts the editor and marks its task
   failed, the carried findings are dismissed so that the job publishes without an editor, the
   answer is lost, and the retry of the still-failed editor posts again. store.rs 15733-15734 says
   a current dispatch is never released for another POST. `review_restart` keeps to jobs whose
   reviewers left candidates: such a job publishes only after its editor succeeded, and then the
   retry is refused (proved: `OneReviewPerEditedJob`). The same retry breaks two more properties of jobs without
   candidates, which the runs do not reach: the retried job can be cancelled although its review is on the
   pull request, and when it turns out stale, `release_code_review_publication_claim` (store.rs 15876), which
   unlike `discard_unaccepted_code_review_result` (12156) does not look at `review_published`, takes the place in the
   order away that the pull request's last reviewed round still points to.

Shown by the models without a run of their own:

2. `drain_queue` reads the queue and appends it without `prompt_queue_mutations` (engine.rs 15431). A send
   in between publishes the newer queue first, so the last queue event is the older one.
   `docs/design/event-log.md` 216-218 says replaying to the tail reproduces the current queue.
3. The pass that quarantines a publication writes a retry time, which the check step of the same pass
   clears (store.rs 16060-16066); store.rs 15735-15737 says reconciliation goes on every six hours.
4. A cancellation between a turn's last look at its token (engine.rs 16425) and the dispatcher's
   (15363) gives the turn both `turn.completed` and `turn.cancelled`. ADR 0031 (52-55) says
   `turn.cancelled` is the single terminal event. `TurnsDoNotOverlap` allows exactly this pair, in
   this order, and no other; without the exception it is violated.
5. The exit flag of a terminal is read after the backlog lock is released (engine.rs 11580).
   Output and end-of-file between the two stay in the receiver, and `terminal_output`
   (trouve-server lib.rs 2511) sends the exit without reading it. terminal.rs 100-102 says nothing
   falls in the gap. `client.state = "exited" => client.offset = backlog.end` is violated in
   `TerminalOutput`.
6. `prepare_route_state` advances a provider's generation (engine.rs 3155) before the registry is rebuilt
   (8677). A native provider stays registered meanwhile, and the snapshot an automatic turn takes
   (engine/routing.rs 1252) holds no transition lock, so the turn pairs the new generation with the old
   instance and its outcome is recorded as the new one's; the comment at store.rs 17621-17622 excludes
   that. `LearnedFromCurrent` excepts it (`early`).
7. A turn asleep on the backoff of a provider keeps the entry it started with. When a replacement drops
   the entry, the turn does not see a cooldown that is set after it. `CooldownHonoured` excepts it
   (`parted`).
8. engine/routing.rs 579-585 says a fence keeps every queued mutation out until its backend has stopped. With
   two backends stopping, a mutation that the first fence held at the gate before the second was put
   up starts when the first goes. `NoneAdmittedDuringCleanup` excepts it.
9. engine.rs 19964-19967 and 20062 say a background process retains the write lane; the guard is
   never handed to it. Background shells are therefore not in the model.
10. A request that loses its lease before it writes (a machine that slept) has its job retired by
    the worker, writes its file, fails its commit, and returns from the drop of its staging guard since the claim is
    gone: the file is never removed. `cleanup_deleted_session` only warns of attachments it cannot
    remove and retires the job. `NoFileForgotten` excepts both (`leaked`).
11. `run_backend_turn` returns on a stream error (engine.rs 18442-18467) and on errors of an approval (18398, 18420), of steering (18364) or of a
    flush (18293), and drops the permits of calls that its backend may still execute; the loop of automatic routes
    drains the backend first. Another mutation may then start beside such a call. engine.rs 19059-19061 releases the permits of a pinned
    backend only once its stream has closed. `LaneKept` excepts these calls (`Orphans`); without the exception TLC violates it
    in six steps.
12. `run_backend_turn` never fences admission, so a mutation that waits for the lane is admitted while a cancelled pinned
    backend is stopping; engine/routing.rs 579-585 gives the reason why automatic routes are fenced. `NoneAdmittedDuringCleanup` is about automatic
    routes only.
13. A start that is cancelled and returns a stream within the timeout has stream and fence dropped together
    (engine/routing.rs 2675-2677), while a later one is drained before its fence goes (2681-2684). `NoneAdmittedDuringCleanup` claims nothing
    after the start has returned.

## Not modelled

Parsing, ranking and embedding in search, wire formats of providers and vendors, MCP
transport and OAuth, git and GitHub clients, the built-in tools, the desktop host and rendering
are I/O or data processing without a protocol of their own. `PROJECT.json` lists each with
its reason.

## Plan

In this order; what is done is marked.

1. Event log: `EventWriter`, `EventFollower` and their abstract specifications (done), proofs for both (done).
2. `TurnDispatch` (done), proofs of its safety properties (done).
3. `ReviewPublication` (done), proofs of its safety properties (done).
4. `TerminalOutput`, `TerminalManager` (done), proofs for both (done).
5. `ModelRouting` (done): admission, failover, health, replacement; proofs of its safety properties (done).
6. `SessionLane` (done): lane, permits, approvals, steering, fences; proofs (done).
7. `ArtifactCleanup` (done); proofs (done).
8. `ThreadViewCache`: the fold cached per thread, advanced with appends and rebuilt on a miss while
   appends go on; shown to be the fold of the log (store.rs 6642-6728, 7187-7393).
9. `Automations` (engine.rs 6387-6940, 7158): the tick against edits, closing and manual runs; a fired
   schedule whose conflict path writes a next run computed from the schedule before an edit.
   `Subagents`: caps, waits and cancellation of a thread tree (engine.rs 20238-20600), collaborators.
   `Checkpoints` (engine.rs 13754-13940), registration leases of workspaces (engine.rs 12000-12100).
10. Search store leases, web ingress, agent routes.
