------------------------------ MODULE EventWriter ------------------------------
(***************************************************************************)
(* The event-writer thread of the store (spawn_event_writer and            *)
(* insert_event_batch), the callers that append through it, and the        *)
(* code-review outbox that is flushed through it.                          *)
(*                                                                         *)
(* A request is an append (one caller's atomic batch, sent once) or a      *)
(* flusher (which may flush again).  The rows an append writes, its own    *)
(* events and the server-scope rows derived from them, are given by Rows.  *)
(***************************************************************************)
EXTENDS Naturals, Sequences, FiniteSets

CONSTANTS
    Appends, Flushers,
    Scopes,
    Rows,          \* Rows[a]: scopes of the rows append a writes, in order
    Size,          \* Size[a]: how many of them are the caller's own events
    Isolated,      \* appends sent with `isolated`
    Conditional,   \* appends whose mutation may skip or suppress the event
    JobScope,      \* scope of the code-review job that owns the outbox
    BatchMax,      \* APPEND_BATCH_MAX
    MaxOutbox,     \* bound: outbox rows ever enqueued
    MaxMishaps     \* bound: process restarts and storage faults

Requests == Appends \cup Flushers
Outbox == "outbox"

Row == [scope : Scopes, origin : Appends \cup {Outbox}, idx : Nat]

ASSUME RequestsAssumption == /\ Appends \cap Flushers = {}
                             /\ Outbox \notin Requests
ASSUME RowsAssumption == /\ Rows \in [Appends -> Seq(Scopes)]
                         /\ Size \in [Appends -> Nat \ {0}]
                         /\ \A a \in Appends : Size[a] <= Len(Rows[a])
                         /\ JobScope \in Scopes
\* Every mutation that may skip travels alone, as a single event.
ASSUME ConditionalAssumption ==
    /\ Isolated \subseteq Appends /\ Conditional \subseteq Isolated
    /\ \A a \in Conditional : Size[a] = 1
ASSUME BoundsAssumption == /\ BatchMax \in Nat \ {0}
                           /\ MaxOutbox \in Nat /\ MaxMishaps \in Nat

VARIABLES
    log,        \* the `events` table
    published,  \* rows handed to the broadcast channels
    outbox,     \* ids in code_review_pending_events
    nextId,     \* next outbox id
    ids,        \* ids each flusher read
    queue,      \* the writer's request channel
    deferred,   \* at most one request taken from it and put aside
    wpc,        \* where the writer thread is
    batch,      \* requests of the current transaction
    count,      \* their events
    todo,       \* requests of the batch not inserted yet
    staged,     \* rows inserted and not committed
    outcome,    \* how the transaction ended
    reply,      \* what each request's caller was told
    order,      \* appends in the order they were sent (history)
    mishaps     \* restarts and storage faults so far

callerVars == <<outbox, nextId, ids, reply, order>>
writerVars == <<wpc, batch, count, todo, staged, outcome, deferred>>
vars == <<log, published, queue, callerVars, writerVars, mishaps>>

SizeOf(r) == IF r \in Appends THEN Size[r] ELSE Cardinality(ids[r])

\* A request that must not share a transaction.
TravelsAlone(r) == r \in Isolated \/ r \in Flushers

RowsOf(a) == [k \in 1..Len(Rows[a]) |->
                [scope |-> Rows[a][k], origin |-> a, idx |-> k]]

OutboxRow(i) == [scope |-> JobScope, origin |-> Outbox, idx |-> i]

Init ==
    /\ log = <<>> /\ published = 0
    /\ outbox = {} /\ nextId = 1 /\ ids = [f \in Flushers |-> {}]
    /\ queue = <<>> /\ deferred = <<>>
    /\ wpc = "idle" /\ batch = <<>> /\ count = 0 /\ todo = <<>>
    /\ staged = <<>> /\ outcome = "none"
    /\ reply = [r \in Requests |-> "none"]
    /\ order = <<>> /\ mishaps = 0

--------------------------------------------------------------------------------
\* Callers

Send(a) ==
    /\ reply[a] = "none"
    /\ queue' = Append(queue, a)
    /\ reply' = [reply EXCEPT ![a] = "waiting"]
    /\ order' = Append(order, a)
    /\ UNCHANGED <<log, published, outbox, nextId, ids, writerVars, mishaps>>

\* A review-job transition leaves its event in the outbox, in the job's own
\* transaction; the writer's transaction excludes it.
EnqueueOutbox ==
    /\ nextId <= MaxOutbox /\ wpc # "insert"
    /\ outbox' = outbox \cup {nextId}
    /\ nextId' = nextId + 1
    /\ UNCHANGED <<log, published, ids, queue, reply, order, writerVars, mishaps>>

\* flush_pending_code_review_events reads the pending rows...
ReadPending(f) ==
    /\ reply[f] \notin {"read", "waiting"} /\ outbox # {}
    /\ ids' = [ids EXCEPT ![f] = outbox]
    /\ reply' = [reply EXCEPT ![f] = "read"]
    /\ UNCHANGED <<log, published, outbox, nextId, queue, order, writerVars, mishaps>>

\* ... and only then hands them to the writer.
SendFlush(f) ==
    /\ reply[f] = "read"
    /\ queue' = Append(queue, f)
    /\ reply' = [reply EXCEPT ![f] = "waiting"]
    /\ UNCHANGED <<log, published, outbox, nextId, ids, order, writerVars, mishaps>>

--------------------------------------------------------------------------------
\* The writer thread: gathering a batch

\* Whether a batch of n events may still grow.
AfterTaking(r, n) == IF TravelsAlone(r) \/ n >= BatchMax THEN "begin" ELSE "gather"

Start(r) == /\ batch' = <<r>>
            /\ count' = SizeOf(r)
            /\ wpc' = AfterTaking(r, SizeOf(r))
            /\ UNCHANGED <<log, published, callerVars, todo, staged, outcome, mishaps>>

TakeDeferred == /\ wpc = "idle" /\ deferred # <<>>
                /\ deferred' = <<>> /\ UNCHANGED queue
                /\ Start(deferred[1])

\* Mutant: the request put aside waits behind the queue.
TakeFirstAnyway == /\ wpc = "idle" /\ queue # <<>>
                   /\ queue' = Tail(queue) /\ UNCHANGED deferred
                   /\ Start(Head(queue))

TakeFirst == /\ wpc = "idle" /\ deferred = <<>> /\ queue # <<>>
             /\ queue' = Tail(queue) /\ UNCHANGED deferred
             /\ Start(Head(queue))

Joins(r) == ~TravelsAlone(r) /\ count + SizeOf(r) <= BatchMax

GatherMore ==
    /\ wpc = "gather" /\ queue # <<>> /\ Joins(Head(queue))
    /\ queue' = Tail(queue)
    /\ batch' = Append(batch, Head(queue))
    /\ count' = count + SizeOf(Head(queue))
    /\ wpc' = AfterTaking(Head(queue), count')
    /\ UNCHANGED <<log, published, callerVars, todo, staged, outcome, deferred, mishaps>>

\* Mutant: a request that does not join is dropped.
ForgetDeferred ==
    /\ wpc = "gather" /\ queue # <<>> /\ ~Joins(Head(queue))
    /\ queue' = Tail(queue)
    /\ wpc' = "begin"
    /\ UNCHANGED <<log, published, callerVars, batch, count, todo, staged, outcome,
                   deferred, mishaps>>

Defer ==
    /\ wpc = "gather" /\ queue # <<>> /\ ~Joins(Head(queue))
    /\ queue' = Tail(queue)
    /\ deferred' = <<Head(queue)>>
    /\ wpc' = "begin"
    /\ UNCHANGED <<log, published, callerVars, batch, count, todo, staged, outcome, mishaps>>

QueueEmpty ==
    /\ wpc = "gather" /\ queue = <<>>
    /\ wpc' = "begin"
    /\ UNCHANGED <<log, published, queue, callerVars, batch, count, todo, staged,
                   outcome, deferred, mishaps>>

--------------------------------------------------------------------------------
\* The writer thread: one transaction

End(o) == /\ outcome' = o /\ wpc' = "reply"
          /\ todo' = <<>> /\ staged' = <<>>
          /\ UNCHANGED <<log, published, queue, callerVars, batch, count, deferred>>

\* Mutant: the transaction does not consume the outbox rows it writes.
NoIds(b) == {}

IdsOf(b) == IF b[1] \in Flushers THEN ids[b[1]] ELSE {}

\* Outbox rows consumed since the flusher read them void the flush.
SkipStaleFlush == /\ wpc = "begin" /\ ~(IdsOf(batch) \subseteq outbox)
                  /\ End("skipped") /\ UNCHANGED mishaps

Begin ==
    /\ wpc = "begin" /\ IdsOf(batch) \subseteq outbox
    /\ wpc' = "insert" /\ todo' = batch /\ staged' = <<>>
    /\ UNCHANGED <<log, published, queue, callerVars, batch, count, outcome, deferred, mishaps>>

\* The next request's mutation applies and its rows are inserted.
InsertAppend ==
    /\ wpc = "insert" /\ todo # <<>> /\ Head(todo) \in Appends
    /\ staged' = staged \o RowsOf(Head(todo))
    /\ todo' = Tail(todo)
    /\ UNCHANGED <<log, published, queue, callerVars, wpc, batch, count, outcome,
                   deferred, mishaps>>

\* A conditional mutation declines the event: SkipAndRollback or
\* CommitWithoutEvent, and an error when it does not travel alone.
DeclineAppend ==
    /\ wpc = "insert" /\ todo # <<>> /\ Head(todo) \in Conditional
    /\ End(IF count <= 1 THEN "skipped" ELSE "refused")
    /\ UNCHANGED mishaps

\* A flush inserts its events in id order.
InsertOutbox ==
    /\ wpc = "insert" /\ todo # <<>> /\ Head(todo) \in Flushers
    /\ LET left == {i \in ids[Head(todo)] : \A k \in DOMAIN staged : staged[k].idx # i}
       IN  IF left = {} THEN todo' = Tail(todo) /\ UNCHANGED staged
           ELSE \E i \in left : /\ \A j \in left : i <= j
                                /\ staged' = Append(staged, OutboxRow(i))
                                /\ UNCHANGED todo
    /\ UNCHANGED <<log, published, queue, callerVars, wpc, batch, count, outcome,
                   deferred, mishaps>>

\* Mutant: callers are answered before their rows are published.
CommitThenReply ==
    /\ wpc = "insert" /\ todo = <<>>
    /\ log' = log \o staged
    /\ outbox' = outbox \ IdsOf(batch)
    /\ staged' = <<>> /\ outcome' = "ok" /\ wpc' = "reply"
    /\ UNCHANGED <<published, queue, nextId, ids, reply, order, batch, count, todo,
                   deferred, mishaps>>

CommitBatch ==
    /\ wpc = "insert" /\ todo = <<>>
    /\ log' = log \o staged
    /\ outbox' = outbox \ IdsOf(batch)
    /\ staged' = <<>> /\ outcome' = "ok" /\ wpc' = "publish"
    /\ UNCHANGED <<published, queue, nextId, ids, reply, order, batch, count, todo,
                   deferred, mishaps>>

\* A storage error rolls the whole batch back.
StorageFault == /\ wpc \in {"begin", "insert"} /\ mishaps < MaxMishaps
                /\ mishaps' = mishaps + 1
                /\ End("fault")

PublishRow ==
    /\ wpc = "publish" /\ published < Len(log)
    /\ published' = published + 1
    /\ UNCHANGED <<log, queue, callerVars, writerVars, mishaps>>

\* Mutant: derived rows may be left unpublished.
PublishedEnough ==
    /\ wpc = "publish"
    /\ wpc' = "reply"
    /\ UNCHANGED <<log, published, queue, callerVars, batch, count, todo, staged,
                   outcome, deferred, mishaps>>

PublishedAll ==
    /\ wpc = "publish" /\ published = Len(log)
    /\ wpc' = "reply"
    /\ UNCHANGED <<log, published, queue, callerVars, batch, count, todo, staged,
                   outcome, deferred, mishaps>>

InBatch(r) == \E k \in DOMAIN batch : batch[k] = r

SendReplies ==
    /\ wpc = "reply"
    /\ reply' = [r \in Requests |-> IF InBatch(r) THEN outcome ELSE reply[r]]
    /\ batch' = <<>> /\ count' = 0 /\ outcome' = "none" /\ wpc' = "idle"
    /\ UNCHANGED <<log, published, queue, outbox, nextId, ids, order, todo, staged,
                   deferred, mishaps>>

\* The process stops at any point and starts again: the database survives,
\* an uncommitted transaction and everything in memory do not.
Restart ==
    /\ mishaps < MaxMishaps
    /\ mishaps' = mishaps + 1
    /\ published' = Len(log)
    /\ queue' = <<>> /\ deferred' = <<>> /\ wpc' = "idle" /\ batch' = <<>>
    /\ count' = 0 /\ todo' = <<>> /\ staged' = <<>> /\ outcome' = "none"
    /\ ids' = [f \in Flushers |-> {}]
    /\ reply' = [r \in Requests |-> IF r \in Flushers THEN "none"
                                    ELSE IF reply[r] = "waiting" THEN "lost"
                                    ELSE reply[r]]
    /\ UNCHANGED <<log, outbox, nextId, order>>

--------------------------------------------------------------------------------
Gather == TakeDeferred \/ TakeFirst \/ GatherMore \/ Defer \/ QueueEmpty
Transact == SkipStaleFlush \/ Begin \/ InsertAppend \/ DeclineAppend
            \/ InsertOutbox \/ CommitBatch
Announce == PublishRow \/ PublishedAll \/ SendReplies

Next ==
    \/ \E a \in Appends : Send(a)
    \/ EnqueueOutbox
    \/ \E f \in Flushers : ReadPending(f) \/ SendFlush(f)
    \/ Gather \/ Transact \/ StorageFault \/ Announce
    \/ Restart

Spec == Init /\ [][Next]_vars

\* The writer thread runs while the process does, and the job sweep keeps
\* flushing while rows are pending.
Fairness ==
    /\ WF_vars(Gather \/ Transact \/ Announce)
    /\ \A f \in Flushers : WF_vars(ReadPending(f) \/ SendFlush(f))

FairSpec == Spec /\ Fairness

--------------------------------------------------------------------------------
Status == {"none", "read", "waiting", "ok", "skipped", "refused", "fault", "lost"}

\* The type of the state: one request is put aside at most, and only a
\* single caller's batch exceeds the limit.
TypeOK ==
    /\ log \in Seq(Row) /\ published \in Nat
    /\ outbox \subseteq Nat /\ nextId \in Nat
    /\ ids \in [Flushers -> SUBSET Nat]
    /\ queue \in Seq(Requests) /\ deferred \in Seq(Requests)
    /\ wpc \in {"idle", "gather", "begin", "insert", "publish", "reply"}
    /\ batch \in Seq(Requests) /\ count \in Nat /\ todo \in Seq(Requests)
    /\ staged \in Seq(Row)
    /\ outcome \in Status /\ reply \in [Requests -> Status]
    /\ order \in Seq(Appends) /\ mishaps \in Nat
    /\ Len(deferred) <= 1
    /\ Len(batch) <= 1 \/ count <= BatchMax

\* Where the outbox row with id i is in the log.
FlushedAt(i) == {c \in DOMAIN log : log[c].origin = Outbox /\ log[c].idx = i}

\* insert_event_batch with outbox ids: two flushers that read the same
\* pending rows, a flush that overtakes another in the queue, a fault or a
\* restart neither lose nor repeat nor reorder a job's transitions: each row
\* ever enqueued is still pending or is in the log exactly once, never both,
\* and the log has them in the order in which they happened.
OutboxOnceInOrder ==
    /\ \A i \in 1..(nextId - 1) :
          IF i \in outbox THEN FlushedAt(i) = {} ELSE Cardinality(FlushedAt(i)) = 1
    /\ \A c, d \in DOMAIN log :
          (log[c].origin = Outbox /\ log[d].origin = Outbox /\ c < d)
              => log[c].idx < log[d].idx

\* Where the rows of append a are in the log.
Written(a) == {c \in DOMAIN log : log[c].origin = a}

Contiguous(a) ==
    \E c \in 0..Len(log) : /\ c + Len(Rows[a]) <= Len(log)
                           /\ SubSeq(log, c + 1, c + Len(Rows[a])) = RowsOf(a)
                           /\ Written(a) = (c + 1)..(c + Len(Rows[a]))

\* append_event's contract: Ok means the caller's whole batch is durable, in
\* one piece, and already published; an error or an empty Ok means that none
\* of it is; a caller lost to a restart has all of it or none.  And a mutation
\* that declines its event never takes another caller's events down with it
\* (the isolation rule of the gathering loop).
RepliesTellTheTruth ==
    \A a \in Appends :
        /\ reply[a] = "ok" =>
             Contiguous(a) /\ \A c \in Written(a) : c <= published
        /\ reply[a] \in {"none", "skipped", "refused", "fault"} => Written(a) = {}
        /\ reply[a] = "lost" => Written(a) = {} \/ Contiguous(a)
        /\ reply[a] \in {"skipped", "refused"} =>
             a \in Conditional /\ reply[a] = "skipped"

\* Cursors are assigned in the order requests were sent: a request that the
\* gathering loop puts aside is not overtaken.
CommittedInQueueOrder ==
    \A i, j \in DOMAIN order : i < j =>
        \A c \in Written(order[i]), d \in Written(order[j]) : c < d

Promise == INSTANCE DurableLog WITH log <- log, published <- published

\* What event followers rely on: append-only, durable before published,
\* published one by one in cursor order.
DurableThenPublished == Promise!Spec

\* Everything handed to the writer is dealt with: no caller waits for ever for
\* its answer, and the outbox drains although a flush that raced another one is
\* dropped whole.  (Finitely many requests and rows occur here, so it is enough
\* that all of them are dealt with at some time.)
Outstanding == outbox # {} \/ \E a \in Appends : reply[a] = "waiting"
WorkDrains == Outstanding ~> ~Outstanding
================================================================================
