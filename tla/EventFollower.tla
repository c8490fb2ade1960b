----------------------------- MODULE EventFollower -----------------------------
(***************************************************************************)
(* The delivery half of the event log: the scoped broadcast channels of    *)
(* the store (subscribe_scope and the writer's publication), the SSE       *)
(* follower task of the server (event_stream, replay_persisted_events) and *)
(* the client's cursor stream that reconnects from its last cursor.        *)
(*                                                                         *)
(* The writer is represented by its promise, DurableLog; EventWriter shows *)
(* that the writer thread keeps it.                                        *)
(***************************************************************************)
EXTENDS Naturals, Sequences, FiniteSets

CONSTANTS
    Scopes, Followers,
    FollowScope,   \* FollowScope[f]: the scope that client f follows
    History,       \* rows an earlier build left in the database
    Batches,       \* row sequences that one writer transaction may add
    MaxLog,        \* bound: rows in the log
    MaxDrops,      \* bound: disconnects and restarts
    PageSize,      \* EVENT_REPLAY_PAGE_SIZE
    ChannelCap,    \* capacity of a scope's broadcast channel
    PipeCap,       \* capacity of the task-to-response channel
    ChannelLimit   \* channels kept before unused ones are pruned

Row == [scope : Scopes, decodable : BOOLEAN]

ASSUME FollowScopeAssumption == FollowScope \in [Followers -> Scopes]
ASSUME HistoryAssumption == History \in Seq(Row)
ASSUME BatchesAssumption ==
    \A s \in Batches : /\ s \in Seq(Row) /\ s # <<>>
                       /\ \A k \in DOMAIN s : s[k].decodable
ASSUME BoundsAssumption ==
    /\ PageSize \in Nat \ {0} /\ ChannelCap \in Nat \ {0}
    /\ PipeCap \in Nat \ {0} /\ ChannelLimit \in Nat
    /\ MaxLog \in Nat /\ MaxDrops \in Nat

VARIABLES
    log,        \* durable rows; a row's cursor is its position
    published,  \* rows 1..published were handed to the channels
    target,     \* the channel the writer looked up for row published + 1
    senders,    \* scopes that have a broadcast channel
    phase,      \* where each follower task is
    last,       \* the task's cursor: everything up to it was handed on
    through,    \* ceiling of the replay in progress
    next,       \* end of the replay page in memory
    buf,        \* rows waiting in the task's broadcast receiver
    lagged,     \* the receiver lost rows that it has not reported yet
    pipe,       \* rows on their way to the client
    lastId,     \* newest cursor the client accepted
    drops       \* disconnects and restarts so far

writerVars == <<log, published, target>>
taskVars   == <<phase, last, through, next, buf, lagged, pipe>>
vars       == <<writerVars, senders, taskVars, lastId, drops>>

Phases == {"off", "sample", "replay", "page", "live", "push"}

Rows(s)     == {c \in DOMAIN log : log[c].scope = s}
Readable(s) == {c \in Rows(s) : log[c].decodable}

\* Newest persisted cursor of a scope, or zero.
IsLatest(s, c) == /\ c \in Rows(s) \cup {0}
                  /\ \A d \in Rows(s) : d <= c

--------------------------------------------------------------------------------
Init ==
    /\ log = History /\ published = Len(History) /\ target = "idle"
    /\ senders = {}
    /\ phase = [f \in Followers |-> "off"]
    /\ last = [f \in Followers |-> 0]
    /\ through = [f \in Followers |-> 0]
    /\ next = [f \in Followers |-> 0]
    /\ buf = [f \in Followers |-> <<>>]
    /\ lagged = [f \in Followers |-> FALSE]
    /\ pipe = [f \in Followers |-> <<>>]
    /\ lastId = [f \in Followers |-> 0]
    /\ drops = 0

\* A writer transaction commits.
Commit(s) ==
    /\ published = Len(log) /\ target = "idle"
    /\ Len(log) + Len(s) <= MaxLog
    /\ log' = log \o s
    /\ UNCHANGED <<published, target, senders, taskVars, lastId, drops>>

\* The writer clones the sender of the row's scope under the map's lock...
LookupSender ==
    /\ published < Len(log) /\ target = "idle"
    /\ target' = IF log[published + 1].scope \in senders
                 THEN "attached" ELSE "detached"
    /\ UNCHANGED <<log, published, senders, taskVars, lastId, drops>>

\* A full receiver drops its oldest row and remembers that it lagged.
Enqueue(b, c) == IF Len(b) >= ChannelCap THEN Append(Tail(b), c)
                                         ELSE Append(b, c)

\* ... and sends after releasing it.
PublishRow ==
    LET c == published + 1
        Reached(f) == /\ target = "attached" /\ phase[f] # "off"
                      /\ FollowScope[f] = log[c].scope
    IN  /\ published < Len(log) /\ target # "idle"
        /\ published' = c
        /\ target' = "idle"
        /\ buf' = [f \in Followers |-> IF Reached(f) THEN Enqueue(buf[f], c)
                                                     ELSE buf[f]]
        /\ lagged' = [f \in Followers |->
                        lagged[f] \/ (Reached(f) /\ Len(buf[f]) >= ChannelCap)]
        /\ UNCHANGED <<log, senders, phase, last, through, next, pipe,
                       lastId, drops>>

--------------------------------------------------------------------------------
\* Scopes whose channel has a receiver.
Received == {FollowScope[f] : f \in {g \in Followers : phase[g] # "off"}}

\* Mutant: channels in use are pruned too.
PruneEverything == IF Cardinality(senders) > ChannelLimit THEN {} ELSE senders

\* subscribe_scope: a map past its limit first loses the unused channels.
KeptSenders == IF Cardinality(senders) > ChannelLimit
               THEN senders \cap Received ELSE senders

\* Mutant: the task resumes from its own cursor, not the client's.
ConnectAtTaskCursor(f) ==
    /\ phase[f] = "off"
    /\ senders' = KeptSenders \cup {FollowScope[f]}
    /\ phase' = [phase EXCEPT ![f] = "sample"]
    /\ UNCHANGED <<writerVars, last, through, next, buf, lagged, pipe,
                   lastId, drops>>

\* The client opens the stream after its last cursor; the task subscribes
\* before it reads anything.  A channel pruned here is one the writer may
\* still hold a clone of, and nobody will ever receive from that clone.
Connect(f) ==
    /\ phase[f] = "off"
    /\ senders' = KeptSenders \cup {FollowScope[f]}
    /\ target' = IF target = "attached"
                    /\ log[published + 1].scope \notin KeptSenders
                 THEN "detached" ELSE target
    /\ phase' = [phase EXCEPT ![f] = "sample"]
    /\ last' = [last EXCEPT ![f] = lastId[f]]
    /\ UNCHANGED <<log, published, through, next, buf, lagged, pipe,
                   lastId, drops>>

\* Replay starts by fixing its ceiling, the scope's newest cursor.
SampleThrough(f) == \E c \in DOMAIN log \cup {0} :
    /\ phase[f] = "sample"
    /\ IsLatest(FollowScope[f], c)
    /\ through' = [through EXCEPT ![f] = c]
    /\ phase' = [phase EXCEPT ![f] = IF last[f] < c THEN "replay" ELSE "live"]
    /\ UNCHANGED <<writerVars, senders, last, next, buf, lagged, pipe,
                   lastId, drops>>

\* Rows of a replay page: those after `last` up to n.
PageRows(f, n) == {c \in Rows(FollowScope[f]) : last[f] < c /\ c <= n}

\* One page: the first PageSize rows in (last, through], readable or not.
ReadPage(f) == \E n \in Rows(FollowScope[f]) :
    /\ phase[f] = "replay"
    /\ last[f] < n /\ n <= through[f]
    /\ Cardinality(PageRows(f, n)) <= PageSize
    /\ Cardinality(PageRows(f, n)) = PageSize \/ n = through[f]
    /\ next' = [next EXCEPT ![f] = n]
    /\ phase' = [phase EXCEPT ![f] = "page"]
    /\ UNCHANGED <<writerVars, senders, last, through, buf, lagged, pipe,
                   lastId, drops>>

\* The page's readable rows still to be sent.
Unsent(f) == {c \in Readable(FollowScope[f]) : last[f] < c /\ c <= next[f]}

SendPageRow(f) == \E c \in Unsent(f) :
    /\ phase[f] = "page"
    /\ \A d \in Unsent(f) : c <= d
    /\ Len(pipe[f]) < PipeCap
    /\ pipe' = [pipe EXCEPT ![f] = Append(@, c)]
    /\ last' = [last EXCEPT ![f] = c]
    /\ UNCHANGED <<writerVars, senders, phase, through, next, buf, lagged,
                   lastId, drops>>

\* Mutant: replay stops after its first page.
FinishOnlyPage(f) ==
    /\ phase[f] = "page" /\ Unsent(f) = {}
    /\ last' = [last EXCEPT ![f] = next[f]]
    /\ phase' = [phase EXCEPT ![f] = "live"]
    /\ UNCHANGED <<writerVars, senders, through, next, buf, lagged, pipe,
                   lastId, drops>>

\* The page is sent: read another one below the ceiling, or go live.
FinishPage(f) ==
    /\ phase[f] = "page" /\ Unsent(f) = {}
    /\ last' = [last EXCEPT ![f] = next[f]]
    /\ phase' = [phase EXCEPT
                   ![f] = IF next[f] >= through[f] THEN "live" ELSE "replay"]
    /\ UNCHANGED <<writerVars, senders, through, next, buf, lagged, pipe,
                   lastId, drops>>

\* A live row: one at or below the cursor was already replayed.
RecvLive(f) ==
    /\ phase[f] = "live" /\ ~lagged[f] /\ buf[f] # <<>>
    /\ buf' = [buf EXCEPT ![f] = Tail(@)]
    /\ IF Head(buf[f]) <= last[f]
       THEN UNCHANGED <<phase, last>>
       ELSE /\ last' = [last EXCEPT ![f] = Head(buf[f])]
            /\ phase' = [phase EXCEPT ![f] = "push"]
    /\ UNCHANGED <<writerVars, senders, through, next, lagged, pipe,
                   lastId, drops>>

\* The task waits for room towards the client with the row in hand.
PushLive(f) ==
    /\ phase[f] = "push" /\ Len(pipe[f]) < PipeCap
    /\ pipe' = [pipe EXCEPT ![f] = Append(@, last[f])]
    /\ phase' = [phase EXCEPT ![f] = "live"]
    /\ UNCHANGED <<writerVars, senders, last, through, next, buf, lagged,
                   lastId, drops>>

\* recv() reports the lag: fall back to replay after `last`.
RecvLagged(f) ==
    /\ phase[f] = "live" /\ lagged[f]
    /\ lagged' = [lagged EXCEPT ![f] = FALSE]
    /\ phase' = [phase EXCEPT ![f] = "sample"]
    /\ UNCHANGED <<writerVars, senders, last, through, next, buf, pipe,
                   lastId, drops>>

--------------------------------------------------------------------------------
\* The client accepts a row above its cursor and ignores any other.
Receive(f) ==
    /\ pipe[f] # <<>>
    /\ pipe' = [pipe EXCEPT ![f] = Tail(@)]
    /\ lastId' = [lastId EXCEPT ![f] = IF Head(pipe[f]) > @ THEN Head(pipe[f])
                                                            ELSE @]
    /\ UNCHANGED <<writerVars, senders, phase, last, through, next, buf,
                   lagged, drops>>

\* The stream ends: the network, the client, or a failed store read.
Disconnect(f) ==
    /\ phase[f] # "off" /\ drops < MaxDrops
    /\ phase' = [phase EXCEPT ![f] = "off"]
    /\ buf' = [buf EXCEPT ![f] = <<>>]
    /\ lagged' = [lagged EXCEPT ![f] = FALSE]
    /\ pipe' = [pipe EXCEPT ![f] = <<>>]
    /\ drops' = drops + 1
    /\ UNCHANGED <<writerVars, senders, last, through, next, lastId>>

\* The server process restarts: only the log and the clients survive.
Restart ==
    /\ drops < MaxDrops
    /\ published' = Len(log) /\ target' = "idle" /\ senders' = {}
    /\ phase' = [f \in Followers |-> "off"]
    /\ buf' = [f \in Followers |-> <<>>]
    /\ lagged' = [f \in Followers |-> FALSE]
    /\ pipe' = [f \in Followers |-> <<>>]
    /\ drops' = drops + 1
    /\ UNCHANGED <<log, last, through, next, lastId>>

\* What the follower task does of its own accord.
TaskStep(f) ==
    \/ SampleThrough(f) \/ ReadPage(f) \/ SendPageRow(f) \/ FinishPage(f)
    \/ RecvLive(f) \/ PushLive(f) \/ RecvLagged(f)

Next ==
    \/ \E s \in Batches : Commit(s)
    \/ LookupSender \/ PublishRow
    \/ \E f \in Followers :
         Connect(f) \/ TaskStep(f) \/ Receive(f) \/ Disconnect(f)
    \/ Restart

Spec == Init /\ [][Next]_vars

\* The writer thread publishes what it committed, the task and the client
\* run, and the client reconnects (with a backoff that never gives up).
Fairness ==
    /\ WF_vars(LookupSender) /\ WF_vars(PublishRow)
    /\ \A f \in Followers :
         WF_vars(Connect(f)) /\ WF_vars(TaskStep(f)) /\ WF_vars(Receive(f))

FairSpec == Spec /\ Fairness

--------------------------------------------------------------------------------
\* The type of the state: both channels of a task are bounded.
TypeOK ==
    /\ log \in Seq(Row) /\ published \in 0..Len(log)
    /\ target \in {"idle", "attached", "detached"}
    /\ senders \subseteq Scopes
    /\ phase \in [Followers -> Phases]
    /\ last \in [Followers -> Nat] /\ through \in [Followers -> Nat]
    /\ next \in [Followers -> Nat] /\ lastId \in [Followers -> Nat]
    /\ buf \in [Followers -> Seq(Nat)] /\ lagged \in [Followers -> BOOLEAN]
    /\ pipe \in [Followers -> Seq(Nat)] /\ drops \in Nat
    /\ \A f \in Followers : /\ Len(buf[f]) <= ChannelCap
                            /\ Len(pipe[f]) <= PipeCap

Quiet(f) == /\ phase[f] = "live" /\ ~lagged[f] /\ buf[f] = <<>>
            /\ published = Len(log)

\* event_stream: a follower that waits for live rows with nothing buffered
\* and no unreported lag has handed on every readable row of its scope; no
\* row fell between replay and the live channel, nor between a lag and its
\* catch-up, nor into a channel that was pruned under the writer.
CaughtUpWhenQuiet ==
    \A f \in Followers : Quiet(f) =>
        \A c \in Readable(FollowScope[f]) : c <= last[f]

\* c is the first readable row of scope s after cursor a.
Follows(s, a, c) == /\ c \in Readable(s) /\ c > a
                    /\ \A d \in Readable(s) : d > a => c <= d

\* No readable row of scope s lies in (a, b].
Clear(s, a, b) == \A d \in Readable(s) : d > a => d > b

\* Newest row on its way to client f.
OutputEnd(f) == IF pipe[f] = <<>> THEN lastId[f] ELSE pipe[f][Len(pipe[f])]

\* The cursor above which task f counts on its receiver.
LiveFrom(f) == IF phase[f] \in {"replay", "page"} THEN through[f] ELSE last[f]

\* What the writer has committed and not published is readable.
WriterInv ==
    /\ target # "idle" => published < Len(log)
    /\ \A c \in DOMAIN log : c > published => log[c].decodable

\* Cursors name rows, and a task without a connection holds nothing.
CursorsOK(f) ==
    /\ last[f] <= Len(log) /\ lastId[f] <= Len(log)
    /\ through[f] <= Len(log) /\ next[f] <= Len(log)
    /\ phase[f] = "off" => pipe[f] = <<>> /\ buf[f] = <<>> /\ ~lagged[f]
    /\ phase[f] = "page" => last[f] <= next[f] /\ next[f] <= through[f]
    /\ phase[f] = "replay" => last[f] < through[f]

\* The rows in flight to a client continue its cursor without a gap, and the
\* task's own cursor is right behind them.
OutputOK(f) ==
    LET s == FollowScope[f] IN
    /\ pipe[f] # <<>> => Follows(s, lastId[f], pipe[f][1])
    /\ \A i \in 1..(Len(pipe[f]) - 1) : Follows(s, pipe[f][i], pipe[f][i + 1])
    /\ phase[f] = "push" => Follows(s, OutputEnd(f), last[f])
    /\ phase[f] \notin {"off", "push"} =>
         OutputEnd(f) <= last[f] /\ Clear(s, OutputEnd(f), last[f])

\* A connected task's receiver holds published rows of its scope in order,
\* and unless it lagged it holds all of them above LiveFrom; a row the
\* writer sends nowhere is one that replay covers.
ReceiverOK(f) ==
    LET s == FollowScope[f] IN
    /\ phase[f] # "off" => s \in senders
    /\ \A i \in 1..Len(buf[f]) : buf[f][i] \in Readable(s) /\ buf[f][i] <= published
    /\ \A i, j \in 1..Len(buf[f]) : i < j => buf[f][i] < buf[f][j]
    /\ phase[f] \notin {"off", "sample"} /\ ~lagged[f] =>
         \A c \in Readable(s) : LiveFrom(f) < c /\ c <= published =>
             \E i \in 1..Len(buf[f]) : buf[f][i] = c
    /\ phase[f] \notin {"off", "sample"} /\ target = "detached"
         /\ log[published + 1].scope = s => published + 1 <= LiveFrom(f)

\* Why delivery is exact (event_stream): the rows between the log and a
\* client are always a gapless run of its scope, split over the replay
\* interval, the receiver's buffer and the response pipe.
DeliveryInv ==
    /\ WriterInv
    /\ \A f \in Followers : CursorsOK(f) /\ OutputOK(f) /\ ReceiverOK(f)

Promise == INSTANCE EventStream WITH
    Followers <- Followers, FollowScope <- FollowScope, log <- log, lastId <- lastId

\* The client-visible contract of event_stream and CursorEventStream: each
\* client accepts the readable rows of its scope in cursor order, none
\* skipped and none twice, across lag, disconnects and restarts.
ExactlyOnceInOrder == Promise!Spec

\* Every durable readable row reaches every client: once the log and the
\* connections are stable, the client's cursor reaches its scope's end.
EventuallyDelivered ==
    \A f \in Followers :
        <>[](\A c \in Readable(FollowScope[f]) : c <= lastId[f])
================================================================================
