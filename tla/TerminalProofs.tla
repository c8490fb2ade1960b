----------------------------- MODULE TerminalProofs -----------------------------
(***************************************************************************)
(* Proofs about the integrated terminals.  TerminalOutput, for any          *)
(* capacities, chunk sizes, amounts of output and broken connections: what  *)
(* a client has shown is the shell's output, but for what the backlog had   *)
(* dropped.  TerminalManager, for any sessions and any number of terminals: *)
(* no shell outlives its session, and none shutdown; the inductive          *)
(* invariant is ShellInv, and TombInv for the tombstones.                   *)
(***************************************************************************)
EXTENDS TerminalOutput, TerminalManager, SequenceTheorems, TLAPS

--------------------------------------------------------------------------------
\* The invariants
\* The chunks of the shell's output; the end of file is no chunk.
Chunks == IF reader = "done" THEN Len(live) - 1 ELSE Len(live)
Upto(i) == IF i = 0 THEN 0 ELSE live[i]

\* What was broadcast is the output, chunk after chunk.
LiveInv ==
    /\ reader = "done" => live # <<>> /\ live[Len(live)] = EOF
    /\ \A i \in 1 .. Chunks : live[i] # EOF /\ live[i] <= backlog.end /\ Upto(i - 1) < live[i]
    /\ backlog.end = Upto(Chunks)

Serving == {"subscribed", "marker", "replay", "known", "live"}

\* A receiver that is not past the last chunk is where the task says.
Position == task.seen <= Chunks =>
                Upto(task.seen) = IF task.at = "live" THEN task.offset ELSE task.to

\* The task has sent what its offset says, up to the chunk it has seen.
TaskInv ==
    /\ task.at \in Serving =>
          /\ task.from <= task.to /\ task.to <= backlog.end
          /\ task.seen <= Len(live) /\ Position
    /\ task.at \in {"subscribed", "marker", "replay"} => task.offset = task.from
    /\ task.at = "known" => task.offset = task.to
    /\ task.at = "replay" => task.from < task.to
    /\ task.offset <= backlog.end

Stream == {"replay-start", "data"}

\* An event in the pipe goes on where the one before it, or the client, is.
EventOK(k) ==
    /\ pipe[k].kind = "replay-start" =>
           k = 1 /\ client.state # "open" /\ pipe[k].id = task.from
    /\ pipe[k].kind = "data" =>
           /\ pipe[k].id = pipe[k].last /\ pipe[k].first < pipe[k].last
           /\ pipe[k].last <= backlog.end
           /\ k > 1 => pipe[k].first = pipe[k - 1].id
           /\ k = 1 => pipe[k].first = client.next
    /\ pipe[k].kind \notin Stream => k = Len(pipe) /\ task.at = "ended"

\* The pipe begins where the client is and ends where the task is.
PipeInv ==
    /\ task.at \in {"none", "subscribed", "marker"} => pipe = <<>> /\ client.state # "open"
    /\ client.state = "waiting" => task.at = "none"
    /\ client.state \in {"connecting", "reconnecting"}
          /\ task.at \in {"replay", "known", "live", "ended"} =>
           pipe # <<>> /\ pipe[1].kind = "replay-start"
    /\ \A k \in 1 .. Len(pipe) : EventOK(k)
    /\ task.at \in {"replay", "known", "live"} =>
           task.offset = IF pipe = <<>> THEN client.next ELSE pipe[Len(pipe)].id

\* Where the client is.
ClientInv ==
    /\ client.state = "open" => client.next # None /\ client.next <= client.offset
    /\ client.url <= client.offset
    /\ task.at # "none" => task.from <= client.offset \/ task.from <= backlog.start
    /\ \A i \in 1 .. Len(shown) : shown[i] <= client.offset

Kinds == {"replay-start", "data", "exit", "lagged"}
Event == [kind : Kinds, id : Nat, first : Nat, last : Nat]

--------------------------------------------------------------------------------
\* Steps on sequences

\* What is known of the sequences in a state.
LEMMA Lengths ==
    ASSUME TypeOK
    PROVE  /\ pipe \in Seq(Event) /\ Len(pipe) \in Nat /\ DOMAIN pipe = 1 .. Len(pipe)
           /\ pipe = <<>> <=> Len(pipe) = 0
           /\ \A k \in 1 .. Len(pipe) : pipe[k] \in Event
           /\ live \in Seq(Nat) /\ Len(live) \in Nat /\ \A k \in 1 .. Len(live) : live[k] \in Nat
           /\ live = <<>> <=> Len(live) = 0
           /\ shown \in Seq(Nat) /\ Len(shown) \in Nat /\ DOMAIN shown = 1 .. Len(shown)
           /\ \A k \in 1 .. Len(shown) : shown[k] \in Nat
<1>1. pipe \in Seq(Event) /\ live \in Seq(Nat) /\ shown \in Seq(Nat)
    BY DEF TypeOK, Event, Kinds
<1>2. QED
    BY <1>1

\* An event is sent.
LEMMA Sending ==
    ASSUME TypeOK, NEW e \in Event, Len(pipe) < PipeCap, pipe' = Append(pipe, e)
    PROVE  /\ pipe' \in Seq(Event) /\ Len(pipe') <= PipeCap /\ pipe' # <<>>
           /\ Len(pipe') = Len(pipe) + 1 /\ DOMAIN pipe' = 1 .. Len(pipe) + 1
           /\ \A k \in 1 .. Len(pipe) : pipe'[k] = pipe[k]
           /\ pipe'[Len(pipe) + 1] = e
<1>1. pipe \in Seq(Event) /\ Len(pipe) \in Nat
    BY Lengths
<1>2. PipeCap \in Nat
    BY CapsAssumption
<1>3. QED
    BY <1>1, <1>2, AppendProperties

\* An event is taken.
LEMMA Taking ==
    ASSUME TypeOK, pipe # <<>>, pipe' = Tail(pipe)
    PROVE  /\ pipe' \in Seq(Event) /\ Len(pipe') <= PipeCap
           /\ Len(pipe) >= 1 /\ Len(pipe') = Len(pipe) - 1 /\ DOMAIN pipe' = 1 .. Len(pipe) - 1
           /\ pipe' = <<>> <=> Len(pipe) = 1
           /\ \A k \in 1 .. Len(pipe) - 1 : pipe'[k] = pipe[k + 1]
           /\ Head(pipe) = pipe[1] /\ pipe[1] \in Event
<1>1. pipe \in Seq(Event) /\ Len(pipe) \in Nat /\ Len(pipe) <= PipeCap
    BY Lengths DEF TypeOK
<1>2. PipeCap \in Nat
    BY CapsAssumption
<1>3. Tail(pipe) \in Seq(Event) /\ Len(Tail(pipe)) = Len(pipe) - 1 /\ Len(pipe) >= 1
      /\ Head(pipe) = pipe[1]
    BY <1>1
<1>4. Tail(pipe) = <<>> <=> Len(Tail(pipe)) = 0
    BY <1>3
<1>5. \A k \in 1 .. Len(pipe) - 1 : Tail(pipe)[k] = pipe[k + 1]
    BY <1>1, <1>3
<1>6. QED
    BY <1>1, <1>2, <1>3, <1>4, <1>5

\* A chunk, or the end of the output, is broadcast.
LEMMA Broadcasting ==
    ASSUME TypeOK, NEW n \in Nat, live' = Append(live, n)
    PROVE  /\ live' \in Seq(Nat) /\ Len(live') = Len(live) + 1 /\ live' # <<>>
           /\ \A k \in 1 .. Len(live) : live'[k] = live[k]
           /\ live'[Len(live) + 1] = n
<1>1. live \in Seq(Nat)
    BY Lengths
<1>2. QED
    BY <1>1, AppendProperties

\* What concatenation does to a sequence of numbers.
LEMMA Joining ==
    ASSUME NEW q \in Seq(Nat), NEW r \in Seq(Nat)
    PROVE  /\ q \o r \in Seq(Nat) /\ Len(q \o r) = Len(q) + Len(r)
           /\ \A k \in 1 .. Len(q) : (q \o r)[k] = q[k]
           /\ \A k \in 1 .. Len(r) : (q \o r)[Len(q) + k] = r[k]
OBVIOUS

\* Bytes are shown.
LEMMA Showing ==
    ASSUME TypeOK, NEW a \in Nat, NEW b \in Nat, a <= b, shown' = shown \o Bytes(a, b)
    PROVE  /\ shown' \in Seq(Nat) /\ Len(shown') = Len(shown) + (b - a)
           /\ DOMAIN shown' = 1 .. Len(shown) + (b - a)
           /\ \A k \in 1 .. Len(shown) : shown'[k] = shown[k]
           /\ \A k \in 1 .. b - a : shown'[Len(shown) + k] = a + k
<1>1. shown \in Seq(Nat) /\ Len(shown) \in Nat
    BY Lengths
<1>2. Bytes(a, b) \in Seq(Nat) /\ Len(Bytes(a, b)) = b - a
      /\ \A k \in 1 .. b - a : Bytes(a, b)[k] = a + k
    BY DEF Bytes
<1>3. /\ shown' \in Seq(Nat) /\ Len(shown') = Len(shown) + Len(Bytes(a, b))
      /\ \A k \in 1 .. Len(shown) : shown'[k] = shown[k]
      /\ \A k \in 1 .. Len(Bytes(a, b)) : shown'[Len(shown) + k] = Bytes(a, b)[k]
    BY <1>1, <1>2, Joining
<1>4. DOMAIN shown' = 1 .. Len(shown')
    BY <1>3
<1>5. QED
    BY <1>2, <1>3, <1>4

--------------------------------------------------------------------------------
\* What the task sends and the client takes

Rest == UNCHANGED <<backlog, live, reader, exited, shown, breaks>>

\* The pipe gains an event of the kind and numbers.
Sent(kind, id, first, last) ==
    /\ pipe' \in Seq(Event) /\ Len(pipe') <= PipeCap /\ pipe' # <<>>
    /\ Len(pipe') = Len(pipe) + 1 /\ DOMAIN pipe' = 1 .. Len(pipe) + 1
    /\ \A k \in 1 .. Len(pipe) : pipe'[k] = pipe[k]
    /\ pipe'[Len(pipe) + 1] = [kind |-> kind, id |-> id, first |-> first, last |-> last]

\* The pipe loses its first event.
Taken ==
    /\ pipe' \in Seq(Event) /\ Len(pipe') <= PipeCap
    /\ Len(pipe) >= 1 /\ Len(pipe') = Len(pipe) - 1 /\ DOMAIN pipe' = 1 .. Len(pipe) - 1
    /\ pipe' = <<>> <=> Len(pipe) = 1
    /\ \A k \in 1 .. Len(pipe) - 1 : pipe'[k] = pipe[k + 1]
    /\ Head(pipe) = pipe[1] /\ pipe[1] \in Event
    /\ client.state \notin {"waiting", "exited"}

\* The task moves on.
Moved(at, seen, offset) ==
    task' = [at |-> at, from |-> task.from, to |-> task.to, seen |-> seen, offset |-> offset,
             over |-> task.over]

\* The replay marker.
LEMMA SendMarkerEffect ==
    ASSUME TypeOK, SendMarker
    PROVE  /\ task.at = "marker"
           /\ Sent("replay-start", task.from, 0, 0)
           /\ Moved(IF task.to > task.from THEN "replay" ELSE "known", task.seen, task.offset)
           /\ Rest /\ client' = client
<1> DEFINE e == [kind |-> "replay-start", id |-> task.from, first |-> 0, last |-> 0]
<1>1. e \in Event
    BY DEF TypeOK, Event, Kinds
<1>2. Send(e, task') /\ task.at = "marker"
    BY DEF SendMarker, Signal, Send
<1>3. Sent("replay-start", task.from, 0, 0)
    BY <1>1, <1>2, Sending DEF Send, Sent
<1>4. Moved(IF task.to > task.from THEN "replay" ELSE "known", task.seen, task.offset)
    BY DEF TypeOK, SendMarker, Send, Moved, ChunkStart, Frame, Signal
<1>5. QED
    BY <1>2, <1>3, <1>4 DEF Send, Rest, ptyVars

\* The retained bytes.
LEMMA SendReplayEffect ==
    ASSUME TypeOK, TaskInv, SendReplay
    PROVE  /\ task.at = "replay"
           /\ Sent("data", task.offset + (task.to - task.from), task.from, task.to)
           /\ Moved("known", task.seen, task.to)
           /\ Rest /\ client' = client
<1> DEFINE e == [kind |-> "data", id |-> task.offset + (task.to - task.from),
                 first |-> task.from, last |-> task.to]
<1>a. task.offset + (task.to - task.from) \in Nat
    BY DEF TypeOK, SendReplay, TaskInv, Serving
<1>1. e \in Event
    BY <1>a DEF TypeOK, Event, Kinds
<1>2. Send(e, task') /\ task.at = "replay"
    BY <1>a DEF SendReplay, Frame, Send
<1>3. Sent("data", task.offset + (task.to - task.from), task.from, task.to)
    BY <1>1, <1>2, Sending DEF Send, Sent
<1>4. Moved("known", task.seen, task.to)
    BY DEF TypeOK, SendReplay, Send, Moved, ChunkStart, Frame, Signal
<1>5. QED
    BY <1>2, <1>3, <1>4 DEF Send, Rest, ptyVars

\* The exit, known at subscription.
LEMMA ExitKnownEffect ==
    ASSUME TypeOK, ExitKnown
    PROVE  /\ task.at = "known" /\ task.over
           /\ Sent("exit", 0, 0, 0)
           /\ Moved("ended", task.seen, task.offset)
           /\ Rest /\ client' = client
<1> DEFINE e == [kind |-> "exit", id |-> 0, first |-> 0, last |-> 0]
<1>1. e \in Event
    BY DEF TypeOK, Event, Kinds
<1>2. Send(e, task') /\ task.at = "known" /\ task.over
    BY DEF ExitKnown, Signal, Send
<1>3. Sent("exit", 0, 0, 0)
    BY <1>1, <1>2, Sending DEF Send, Sent
<1>4. Moved("ended", task.seen, task.offset)
    BY DEF TypeOK, ExitKnown, Send, Moved, ChunkStart, Frame, Signal
<1>5. QED
    BY <1>2, <1>3, <1>4 DEF Send, Rest, ptyVars

\* The exit, from the channel.
LEMMA RelayExitEffect ==
    ASSUME TypeOK, RelayExit
    PROVE  /\ task.at = "live"
           /\ Sent("exit", 0, 0, 0)
           /\ Moved("ended", task.seen, task.offset)
           /\ Rest /\ client' = client
<1> DEFINE e == [kind |-> "exit", id |-> 0, first |-> 0, last |-> 0]
<1>1. e \in Event
    BY DEF TypeOK, Event, Kinds
<1>2. Send(e, task') /\ task.at = "live"
    BY DEF RelayExit, Signal, Send
<1>3. Sent("exit", 0, 0, 0)
    BY <1>1, <1>2, Sending DEF Send, Sent
<1>4. Moved("ended", task.seen, task.offset)
    BY DEF TypeOK, RelayExit, Send, Moved, ChunkStart, Frame, Signal
<1>5. QED
    BY <1>2, <1>3, <1>4 DEF Send, Rest, ptyVars

\* The task gives up.
LEMMA RelayLaggedEffect ==
    ASSUME TypeOK, RelayLagged
    PROVE  /\ task.at = "live"
           /\ Sent("lagged", 0, 0, 0)
           /\ Moved("ended", task.seen, task.offset)
           /\ Rest /\ client' = client
<1> DEFINE e == [kind |-> "lagged", id |-> 0, first |-> 0, last |-> 0]
<1>1. e \in Event
    BY DEF TypeOK, Event, Kinds
<1>2. Send(e, task') /\ task.at = "live"
    BY DEF RelayLagged, Signal, Send
<1>3. Sent("lagged", 0, 0, 0)
    BY <1>1, <1>2, Sending DEF Send, Sent
<1>4. Moved("ended", task.seen, task.offset)
    BY DEF TypeOK, RelayLagged, Send, Moved, ChunkStart, Frame, Signal
<1>5. QED
    BY <1>2, <1>3, <1>4 DEF Send, Rest, ptyVars

\* A chunk from the channel starts where the one before it ended.
LEMMA RelayChunkEffect ==
    ASSUME TypeOK, LiveInv, TaskInv, RelayChunk
    PROVE  /\ task.at = "live" /\ task.seen + 1 <= Chunks
           /\ task.offset < live[task.seen + 1] /\ live[task.seen + 1] <= backlog.end
           /\ Sent("data", live[task.seen + 1], task.offset, live[task.seen + 1])
           /\ Moved("live", task.seen + 1, live[task.seen + 1]) /\ Rest /\ client' = client
<1> DEFINE i == task.seen + 1
           e == [kind |-> "data", id |-> live[i], first |-> task.offset, last |-> live[i]]
<1>1. /\ task.at = "live" /\ i <= Len(live) /\ live[i] # EOF /\ task.seen \in Nat
      /\ i \in 1 .. Len(live) /\ i - 1 = task.seen /\ live[i] \in Nat
      /\ Send(Frame(task.offset, ChunkStart(i), live[i]),
              [task EXCEPT !.seen = i, !.offset = @ + (live[i] - ChunkStart(i))])
    <2>1. /\ task.at = "live" /\ i <= Len(live) /\ live[i] # EOF
          /\ Send(Frame(task.offset, ChunkStart(i), live[i]),
                  [task EXCEPT !.seen = i, !.offset = @ + (live[i] - ChunkStart(i))])
        BY Zenon DEF RelayChunk
    <2>2. task.seen \in Nat
        BY DEF TypeOK
    <2>3. Len(live) \in Nat /\ \A k \in 1 .. Len(live) : live[k] \in Nat
        BY Lengths
    <2>4. i \in 1 .. Len(live) /\ i - 1 = task.seen
        BY <2>1, <2>2, <2>3
    <2>5. live[i] \in Nat
        BY <2>3, <2>4
    <2>6. QED
        BY <2>1, <2>2, <2>4, <2>5
<1>2. i <= Chunks
    BY <1>1, Lengths DEF LiveInv, Chunks
<1>3. i \in 1 .. Chunks
    BY <1>1, <1>2, Lengths DEF Chunks
<1>4. Upto(task.seen) < live[i] /\ live[i] <= backlog.end
    BY <1>1, <1>3 DEF LiveInv
<1>5. ChunkStart(i) = Upto(task.seen)
    BY <1>1 DEF ChunkStart, Upto
<1>6. Upto(task.seen) = task.offset
    BY <1>1, <1>2, Lengths DEF TaskInv, Position, Serving, Chunks
<1>7. task.offset \in Nat /\ task.offset + (live[i] - task.offset) = live[i]
    <2>1. task.offset \in Nat
        BY DEF TypeOK
    <2>2. QED
        BY <1>1, <2>1
<1>8. Send(e, [task EXCEPT !.seen = i, !.offset = live[i]])
    <2>1. ChunkStart(i) = task.offset
        BY <1>5, <1>6
    <2>2. Frame(task.offset, ChunkStart(i), live[i]) = e
        BY <1>7, <2>1 DEF Frame
    <2>3. [task EXCEPT !.seen = i, !.offset = @ + (live[i] - ChunkStart(i))]
          = [task EXCEPT !.seen = i, !.offset = live[i]]
        BY <1>7, <2>1
    <2>4. QED
        BY <1>1, <2>2, <2>3
<1>9. e \in Event
    BY <1>1, <1>7 DEF Event, Kinds
<1>10. Sent("data", live[i], task.offset, live[i])
    BY <1>8, <1>9, Sending DEF Send, Sent
<1>11. Moved("live", i, live[i])
    BY <1>1, <1>8 DEF TypeOK, Send, Moved
<1>12. QED
    BY <1>1, <1>2, <1>4, <1>6, <1>8, <1>10, <1>11 DEF Send, Rest, ptyVars

\* The client has the state, the offset and the offset of the next frame.
Now(state, offset, next) ==
    client' = [state |-> state, url |-> client.url, offset |-> offset, next |-> next]

\* The client learns where the replay starts.
LEMMA ReceiveReplayStartEffect ==
    ASSUME TypeOK, ReceiveReplayStart
    PROVE  /\ Taken /\ task' = task
           /\ pipe[1].kind = "replay-start" /\ Rest
           /\ Now("open", IF client.offset < pipe[1].id THEN pipe[1].id ELSE client.offset, pipe[1].id)
<1>1. Take
    BY DEF ReceiveReplayStart
<1>2. Taken
    BY <1>1, Taking DEF Take, Taken
<1>3. QED
    BY <1>1, <1>2 DEF TypeOK, ReceiveReplayStart, Taken, Rest, ptyVars, Event, Kinds, Now

\* The client learns of the exit.
LEMMA ReceiveExitEffect ==
    ASSUME TypeOK, ReceiveExit
    PROVE  /\ Taken /\ task' = task
           /\ pipe[1].kind = "exit" /\ Now("exited", client.offset, client.next) /\ Rest
<1>1. Take
    BY DEF ReceiveExit
<1>2. Taken
    BY <1>1, Taking DEF Take, Taken
<1>3. QED
    BY <1>1, <1>2 DEF TypeOK, ReceiveExit, Taken, Rest, ptyVars, Event, Kinds, Now

\* The client does not listen.
LEMMA ReceiveLaggedEffect ==
    ASSUME TypeOK, ReceiveLagged
    PROVE  /\ Taken /\ task' = task
           /\ pipe[1].kind = "lagged" /\ client' = client /\ Rest
<1>1. Take
    BY DEF ReceiveLagged
<1>2. Taken
    BY <1>1, Taking DEF Take, Taken
<1>3. QED
    BY <1>1, <1>2 DEF TypeOK, ReceiveLagged, Taken, Rest, ptyVars, Event, Kinds

\* The client has the frame already.
LEMMA ReceiveKnownEffect ==
    ASSUME TypeOK, ReceiveKnown
    PROVE  /\ Taken /\ task' = task
           /\ pipe[1].kind = "data" /\ Rest /\ pipe[1].id <= client.offset
           /\ \/ client' = client /\ Seen(pipe[1])
              \/ Now(client.state, client.offset, pipe[1].id) /\ Contiguous(pipe[1])
<1>1. Take
    BY DEF ReceiveKnown
<1>2. Taken
    BY <1>1, Taking DEF Take, Taken
<1>3. QED
    BY <1>1, <1>2 DEF TypeOK, ReceiveKnown, Taken, Rest, ptyVars, Event, Kinds, Now

\* The client shows what is new in a frame.
LEMMA ReceiveNewEffect ==
    ASSUME TypeOK, ReceiveNew
    PROVE  /\ Taken /\ task' = task
           /\ pipe[1].kind = "data" /\ pipe[1].id > client.offset /\ Contiguous(pipe[1])
           /\ Now(client.state, pipe[1].id, pipe[1].id)
           /\ shown' = shown \o Bytes(pipe[1].first + (client.offset - FrameOffset), pipe[1].last)
           /\ UNCHANGED <<backlog, live, reader, exited, breaks>>
<1>1. Take
    BY DEF ReceiveNew
<1>2. Taken
    BY <1>1, Taking DEF Take, Taken
<1>3. QED
    BY <1>1, <1>2 DEF TypeOK, ReceiveNew, Taken, Rest, ptyVars, Event, Kinds, Now

\* The bytes of the first frame that the client has not shown.
FreshBytes ==
    /\ shown' \in Seq(Nat) /\ Len(shown') = Len(shown) + (pipe[1].last - client.offset)
    /\ DOMAIN shown' = 1 .. Len(shown) + (pipe[1].last - client.offset)
    /\ \A k \in 1 .. Len(shown) : shown'[k] = shown[k]
    /\ \A k \in 1 .. pipe[1].last - client.offset : shown'[Len(shown) + k] = client.offset + k

\* A frame starts where the client expects it, so what is new in it is what lies above
\* the client's offset.
LEMMA ShownNew ==
    ASSUME TypeOK, PipeInv, ReceiveNew
    PROVE  /\ FreshBytes /\ pipe[1].last > client.offset
           /\ pipe[1].id = pipe[1].last /\ pipe[1].first = client.next
<1>1. /\ Taken /\ pipe[1].kind = "data" /\ pipe[1].id > client.offset /\ Contiguous(pipe[1])
      /\ shown' = shown \o Bytes(pipe[1].first + (client.offset - FrameOffset), pipe[1].last)
    BY ReceiveNewEffect
<1>2. /\ pipe[1].id = pipe[1].last /\ pipe[1].first = client.next
    BY <1>1, Lengths DEF PipeInv, EventOK, Taken
<1>3. /\ pipe[1].first \in Nat /\ pipe[1].last \in Nat /\ client.offset \in Nat
    BY <1>1 DEF TypeOK, Taken, Event
<1>4. client.next # None /\ FrameOffset = client.next
    BY <1>2, <1>3 DEF FrameOffset, None
<1>5. pipe[1].first + (client.offset - FrameOffset) = client.offset
    BY <1>2, <1>3, <1>4
<1>6. shown' = shown \o Bytes(client.offset, pipe[1].last)
    BY <1>1, <1>5
<1>7. pipe[1].last > client.offset
    BY <1>1, <1>2
<1>8. client.offset <= pipe[1].last
    BY <1>3, <1>7
<1>9. FreshBytes
    BY <1>3, <1>6, <1>8, Showing DEF FreshBytes
<1>10. QED
    BY <1>2, <1>7, <1>9

\* A subscription starts at the client's offset or at the start of the backlog, and has
\* seen what it replays.
LEMMA SubscribeEffect ==
    ASSUME TypeOK, Subscribe
    PROVE  /\ Connecting /\ UNCHANGED <<ptyVars, pipe, client, shown, breaks>>
           /\ \E from \in Nat :
                 /\ from <= backlog.end /\ (from <= client.url \/ from <= backlog.start)
                 /\ task' = [at |-> "subscribed", from |-> from, to |-> backlog.end,
                             seen |-> Len(live), offset |-> from, over |-> FALSE]
<1> DEFINE from == Clamp(client.url, backlog.start, backlog.end)
<1>1. /\ client.url \in Nat /\ backlog.start \in Nat /\ backlog.end \in Nat
      /\ backlog.start <= backlog.end
    BY DEF TypeOK
<1>2. from \in Nat /\ from <= backlog.end /\ (from <= client.url \/ from <= backlog.start)
    BY <1>1 DEF Clamp
<1>3. /\ Connecting /\ UNCHANGED <<ptyVars, pipe, client, shown, breaks>>
      /\ task' = [NoTask EXCEPT !.at = "subscribed", !.from = from, !.to = backlog.end,
                                !.seen = Len(live), !.offset = from]
    BY DEF Subscribe
<1> HIDE DEF from
<1>4. task' = [at |-> "subscribed", from |-> from, to |-> backlog.end,
               seen |-> Len(live), offset |-> from, over |-> FALSE]
    BY <1>3 DEF NoTask
<1>5. QED
    BY <1>2, <1>3, <1>4

\* The connection is gone; the client keeps its place.
Disconnected ==
    /\ task' = NoTask /\ pipe' = <<>> /\ UNCHANGED <<ptyVars, shown>>
    /\ client'.state \in {"reconnecting", "waiting"}
    /\ client'.url = client.url /\ client'.offset = client.offset

\* What a broken connection does.
LEMMA BreaksEffect ==
    ASSUME TypeOK, Breaks
    PROVE  Disconnected
<1>1. CASE client' = [client EXCEPT !.state = "reconnecting"]
    BY <1>1 DEF TypeOK, Breaks, Drop, Disconnected
<1>2. CASE client' = [client EXCEPT !.state = "waiting", !.next = None]
    BY <1>2 DEF TypeOK, Breaks, Drop, Disconnected
<1>3. QED
    BY <1>1, <1>2 DEF Breaks, Drop

\* What the end of a stream does.
LEMMA StreamEndsEffect ==
    ASSUME TypeOK, StreamEnds
    PROVE  Disconnected
BY DEF TypeOK, StreamEnds, Disconnected

--------------------------------------------------------------------------------
\* What the reader thread does

\* The output grows at its end; chunks stay where they are, and a receiver that has
\* seen all of them still has.
Grows ==
    /\ Len(live) \in Nat /\ Len(live') \in Nat /\ Len(live) <= Len(live')
    /\ \A i \in 1 .. Len(live) : live'[i] = live[i]
    /\ \A i \in 0 .. Len(live) : Upto(i)' = Upto(i)
    /\ \A i \in 0 .. Len(live) : i <= Chunks' => i <= Chunks
    /\ backlog.end <= backlog'.end /\ backlog'.end \in Nat
    /\ backlog.start <= backlog'.start /\ backlog'.start \in Nat
    /\ UNCHANGED <<task, pipe, client, shown>>

Read == ReadChunk \/ ReadEnds \/ SendSentinel

\* A chunk is read.
Chunk(n) ==
    /\ reader = "reading" /\ reader' = reader /\ exited' = exited
    /\ backlog' \in [start : Nat, end : Nat] /\ backlog'.end = backlog.end + n
    /\ backlog.start <= backlog'.start /\ backlog'.start <= backlog'.end
    /\ live' \in Seq(Nat) /\ Len(live') = Len(live) + 1 /\ live' # <<>>
    /\ \A k \in 1 .. Len(live) : live'[k] = live[k]
    /\ live'[Len(live) + 1] = backlog.end + n
    /\ UNCHANGED <<task, pipe, client, shown, breaks>>

\* What reading does to the backlog and the channel.
LEMMA ReadChunkEffect ==
    ASSUME TypeOK, ReadChunk
    PROVE  \E n \in 1 .. MaxChunk : Chunk(n)
<1>1. PICK n \in 1 .. MaxChunk :
          /\ reader = "reading" /\ backlog.end + n <= MaxBytes
          /\ backlog' = [end |-> backlog.end + n,
                         start |-> IF (backlog.end + n) - backlog.start > BacklogCap
                                   THEN (backlog.end + n) - BacklogCap ELSE backlog.start]
          /\ live' = Append(live, backlog.end + n)
          /\ UNCHANGED <<reader, exited, task, pipe, client, shown, breaks>>
    BY Zenon DEF ReadChunk
<1>2. backlog.end \in Nat /\ backlog.start \in Nat /\ backlog.start <= backlog.end /\ n \in Nat
      /\ n >= 1 /\ backlog.end + n \in Nat /\ BacklogCap \in Nat
    BY CapsAssumption DEF TypeOK
<1> DEFINE low == IF (backlog.end + n) - backlog.start > BacklogCap
                   THEN (backlog.end + n) - BacklogCap ELSE backlog.start
<1>3. backlog'.end = backlog.end + n /\ backlog' \in [start : Nat, end : Nat]
      /\ backlog.start <= backlog'.start /\ backlog'.start <= backlog'.end
    <2>1. low \in Nat /\ backlog.start <= low /\ low <= backlog.end + n
        BY <1>2
    <2>2. backlog' = [end |-> backlog.end + n, start |-> low]
        BY <1>1
    <2> HIDE DEF low
    <2>3. QED
        BY <1>2, <2>1, <2>2
<1>4. /\ live' \in Seq(Nat) /\ Len(live') = Len(live) + 1 /\ live' # <<>>
      /\ \A k \in 1 .. Len(live) : live'[k] = live[k]
      /\ live'[Len(live) + 1] = backlog.end + n
    BY <1>1, <1>2, Broadcasting
<1>5. Chunk(n)
    BY <1>1, <1>3, <1>4 DEF Chunk
<1>6. QED
    BY <1>5

\* The end of the output is broadcast last.
LEMMA SendSentinelEffect ==
    ASSUME TypeOK, SendSentinel
    PROVE  /\ live' \in Seq(Nat) /\ Len(live') = Len(live) + 1 /\ live' # <<>>
           /\ \A k \in 1 .. Len(live) : live'[k] = live[k]
           /\ live'[Len(live) + 1] = EOF /\ reader = "ending" /\ reader' = "done"
           /\ UNCHANGED <<backlog, exited, task, pipe, client, shown, breaks>>
<1>1. live' = Append(live, EOF) /\ EOF \in Nat
    BY DEF SendSentinel, EOF
<1>2. QED
    BY <1>1, Broadcasting DEF SendSentinel

\* Whatever the reader does, the output only grows.
LEMMA ReadGrows ==
    ASSUME TypeOK, Read
    PROVE  Grows
<1>1. backlog.end \in Nat /\ backlog.start \in Nat /\ Len(live) \in Nat /\ MaxChunk \in Nat
    BY Lengths, CapsAssumption DEF TypeOK
<1>2. CASE ReadChunk
    <2>1. PICK n \in 1 .. MaxChunk : Chunk(n)
        BY <1>2, ReadChunkEffect
    <2>2. backlog.end <= backlog'.end /\ Chunks = Len(live) /\ Chunks' = Len(live) + 1
        BY <1>1, <2>1 DEF Chunk, Chunks
    <2>3. \A i \in 0 .. Len(live) : Upto(i)' = Upto(i)
        BY <1>1, <2>1 DEF Chunk, Upto
    <2>4. QED
        BY <1>1, <2>1, <2>2, <2>3 DEF Chunk, Grows
<1>3. CASE ReadEnds
    <2>1. live' = live /\ backlog' = backlog /\ UNCHANGED <<task, pipe, client, shown>>
          /\ reader = "reading" /\ reader' = "ending"
        BY <1>3 DEF ReadEnds
    <2>2. Chunks' = Chunks /\ \A i \in 0 .. Len(live) : Upto(i)' = Upto(i)
        BY <2>1 DEF Chunks, Upto
    <2>3. QED
        BY <1>1, <2>1, <2>2 DEF Grows
<1>4. CASE SendSentinel
    <2>1. /\ Len(live') = Len(live) + 1 /\ \A k \in 1 .. Len(live) : live'[k] = live[k]
          /\ reader = "ending" /\ reader' = "done"
          /\ UNCHANGED <<backlog, task, pipe, client, shown>>
        BY <1>4, SendSentinelEffect
    <2>2. Chunks' = Chunks
        BY <1>1, <2>1 DEF Chunks
    <2>3. \A i \in 0 .. Len(live) : Upto(i)' = Upto(i)
        BY <1>1, <2>1 DEF Upto
    <2>4. QED
        BY <1>1, <2>1, <2>2, <2>3 DEF Grows
<1>5. QED
    BY <1>2, <1>3, <1>4 DEF Read

\* A step is the reader's, or leaves the output alone.
LEMMA StepKinds ==
    ASSUME [Next]_vars
    PROVE  Read \/ UNCHANGED ptyVars
<1>1. CASE Serve
    BY <1>1 DEF Serve, Subscribe, ReadExited, SendMarker, SendReplay, ExitKnown, Follow, RelayChunk,
                RelayExit, RelayLagged, Send
<1>2. CASE Receive
    BY <1>2 DEF Receive, ReceiveReplayStart, ReceiveKnown, ReceiveNew, ReceiveExit, ReceiveLagged,
                StreamEnds, Reopen
<1>3. CASE Breaks
    BY <1>3 DEF Breaks
<1>4. CASE UNCHANGED vars
    BY <1>4 DEF vars
<1>5. QED
    BY <1>1, <1>2, <1>3, <1>4 DEF Next, Read

\* Every step keeps the chunks in order.
LEMMA LiveStep ==
    ASSUME TypeOK, LiveInv, [Next]_vars
    PROVE  LiveInv'
<1>1. Len(live) \in Nat /\ \A k \in 1 .. Len(live) : live[k] \in Nat
    BY Lengths
<1>2. backlog.end \in Nat /\ MaxChunk \in Nat
    BY CapsAssumption DEF TypeOK
<1>3. CASE ReadChunk
    <2>1. PICK n \in 1 .. MaxChunk : Chunk(n)
        BY <1>3, ReadChunkEffect
    <2>2. /\ reader = "reading" /\ reader' = "reading" /\ backlog'.end = backlog.end + n
          /\ Len(live') = Len(live) + 1 /\ \A k \in 1 .. Len(live) : live'[k] = live[k]
          /\ live'[Len(live) + 1] = backlog.end + n
        BY <2>1 DEF Chunk
    <2>3. Chunks = Len(live) /\ Chunks' = Len(live) + 1
        BY <2>2 DEF Chunks
    <2>4. backlog.end = Upto(Len(live)) /\ \A j \in 0 .. Len(live) : Upto(j)' = Upto(j)
        BY <1>3, <2>3, ReadGrows DEF LiveInv, Grows, Read
    <2>5. ASSUME NEW i \in 1 .. Len(live) + 1
          PROVE  live'[i] # EOF /\ live'[i] <= backlog'.end /\ Upto(i - 1)' < live'[i]
        <3>1. CASE i = Len(live) + 1
            <4>1. i - 1 = Len(live) /\ i - 1 \in 0 .. Len(live)
                BY <1>1, <3>1
            <4>2. Upto(i - 1)' = backlog.end
                BY <2>4, <4>1
            <4>3. QED
                BY <1>1, <1>2, <2>2, <3>1, <4>2 DEF EOF
        <3>2. CASE i \in 1 .. Len(live)
            <4>1. live[i] # EOF /\ live[i] <= backlog.end /\ Upto(i - 1) < live[i]
                BY <2>3, <3>2 DEF LiveInv
            <4>2. Upto(i - 1)' = Upto(i - 1)
                BY <1>1, <2>2, <3>2 DEF Upto
            <4>3. QED
                BY <1>1, <1>2, <2>2, <3>2, <4>1, <4>2
        <3>3. QED
            BY <1>1, <3>1, <3>2
    <2>6. Upto(Chunks)' = backlog'.end
        BY <1>1, <2>2, <2>3 DEF Upto
    <2>7. QED
        BY <2>2, <2>3, <2>5, <2>6 DEF LiveInv
<1>4. CASE ReadEnds
    <2>1. live' = live /\ backlog' = backlog /\ reader = "reading" /\ reader' = "ending"
        BY <1>4 DEF ReadEnds
    <2>2. QED
        BY <2>1 DEF LiveInv, Chunks, Upto
<1>5. CASE SendSentinel
    <2>1. /\ Len(live') = Len(live) + 1 /\ \A k \in 1 .. Len(live) : live'[k] = live[k]
          /\ live' # <<>> /\ live'[Len(live) + 1] = EOF
          /\ reader = "ending" /\ reader' = "done" /\ backlog' = backlog
        BY <1>5, SendSentinelEffect
    <2>2. Chunks = Len(live) /\ Chunks' = Len(live)
        BY <1>1, <2>1 DEF Chunks
    <2>3. \A i \in 0 .. Len(live) : Upto(i)' = Upto(i)
        BY <1>1, <2>1 DEF Upto
    <2>4. \A i \in 1 .. Len(live) : i - 1 \in 0 .. Len(live)
        BY <1>1
    <2>5. QED
        BY <1>1, <2>1, <2>2, <2>3, <2>4 DEF LiveInv
<1>6. CASE UNCHANGED ptyVars
    BY <1>6 DEF ptyVars, LiveInv, Chunks, Upto
<1>7. QED
    BY <1>3, <1>4, <1>5, <1>6, StepKinds DEF Read

--------------------------------------------------------------------------------
\* Types

PtyTypes ==
    /\ backlog \in [start : Nat, end : Nat] /\ backlog.start <= backlog.end
    /\ live \in Seq(Nat) /\ reader \in {"reading", "ending", "done"} /\ exited \in BOOLEAN
TaskType == task \in [at : TaskPhases, from : Nat, to : Nat, seen : Nat, offset : Nat,
                      over : BOOLEAN]
PipeType == pipe \in Seq(Event) /\ Len(pipe) <= PipeCap
ClientType == client \in [state : ClientStates, url : Nat, offset : Nat, next : Nat \cup {None}]

\* The type invariant in parts.
LEMMA TypeParts ==
    TypeOK <=> /\ PtyTypes /\ TaskType /\ PipeType /\ ClientType
               /\ shown \in Seq(Nat) /\ breaks \in 0 .. MaxBreaks
BY Zenon DEF TypeOK, PtyTypes, TaskType, PipeType, ClientType, Event, Kinds

\* The parts of the next state's type invariant.
LEMMA TypePartsNext ==
    TypeOK' <=> /\ PtyTypes' /\ TaskType' /\ PipeType' /\ ClientType'
                /\ (shown \in Seq(Nat))' /\ (breaks \in 0 .. MaxBreaks)'
BY Zenon DEF TypeOK, PtyTypes, TaskType, PipeType, ClientType, Event, Kinds

\* Every step keeps the types.
LEMMA TypeStep ==
    ASSUME TypeOK, LiveInv, TaskInv, PipeInv, [Next]_vars
    PROVE  TypeOK'
<1>0. /\ PtyTypes /\ TaskType /\ PipeType /\ ClientType
      /\ shown \in Seq(Nat) /\ breaks \in 0 .. MaxBreaks
    BY TypeParts
<1>1. CASE ReadChunk
    <2>1. PICK n \in 1 .. MaxChunk : Chunk(n)
        BY <1>1, ReadChunkEffect
    <2>2. PtyTypes'
        BY <1>0, <2>1 DEF PtyTypes, Chunk
    <2>3. UNCHANGED <<task, pipe, client, shown, breaks>>
        BY <2>1 DEF Chunk
    <2>4. QED
        BY <1>0, <2>2, <2>3, TypePartsNext DEF TaskType, PipeType, ClientType
<1>2. CASE ReadEnds
    <2>1. PtyTypes' /\ UNCHANGED <<task, pipe, client, shown, breaks>>
        BY <1>0, <1>2 DEF PtyTypes, ReadEnds
    <2>2. QED
        BY <1>0, <2>1, TypePartsNext DEF TaskType, PipeType, ClientType
<1>3. CASE SendSentinel
    <2>1. PtyTypes' /\ UNCHANGED <<task, pipe, client, shown, breaks>>
        BY <1>0, <1>3, SendSentinelEffect DEF PtyTypes
    <2>2. QED
        BY <1>0, <2>1, TypePartsNext DEF TaskType, PipeType, ClientType
<1>4. CASE Subscribe
    <2>1. TaskType'
        <3>1. PICK from \in Nat :
                  task' = [at |-> "subscribed", from |-> from, to |-> backlog.end,
                           seen |-> Len(live), offset |-> from, over |-> FALSE]
            BY <1>4, SubscribeEffect
        <3>2. backlog.end \in Nat /\ Len(live) \in Nat
            BY <1>0, Lengths DEF PtyTypes
        <3>3. QED
            BY <3>1, <3>2 DEF TaskType, TaskPhases
    <2>2. UNCHANGED <<ptyVars, pipe, client, shown, breaks>>
        BY <1>4 DEF Subscribe
    <2>3. QED
        BY <1>0, <2>1, <2>2, TypePartsNext DEF PtyTypes, PipeType, ClientType, ptyVars
<1>5. CASE ReadExited \/ Follow
    <2>1. TaskType'
        BY <1>0, <1>5 DEF ReadExited, Follow, TaskType, TaskPhases, PtyTypes
    <2>2. UNCHANGED <<ptyVars, pipe, client, shown, breaks>>
        BY <1>5 DEF ReadExited, Follow
    <2>3. QED
        BY <1>0, <2>1, <2>2, TypePartsNext DEF PtyTypes, PipeType, ClientType, ptyVars
<1>6. CASE SendMarker
    <2>1. Sent("replay-start", task.from, 0, 0)
          /\ Moved(IF task.to > task.from THEN "replay" ELSE "known", task.seen, task.offset)
          /\ Rest /\ client' = client
        BY <1>6, SendMarkerEffect
    <2>2. PipeType'
        BY <2>1 DEF Sent, PipeType
    <2>3. TaskType'
        BY <1>0, <2>1 DEF Moved, TaskType, TaskPhases
    <2>4. QED
        BY <1>0, <2>1, <2>2, <2>3, TypePartsNext DEF Rest, PtyTypes, ClientType
<1>7. CASE SendReplay
    <2>1. Sent("data", task.offset + (task.to - task.from), task.from, task.to)
          /\ Moved("known", task.seen, task.to)
          /\ Rest /\ client' = client
        BY <1>7, SendReplayEffect
    <2>2. PipeType'
        BY <2>1 DEF Sent, PipeType
    <2>3. TaskType'
        BY <1>0, <2>1 DEF Moved, TaskType, TaskPhases
    <2>4. QED
        BY <1>0, <2>1, <2>2, <2>3, TypePartsNext DEF Rest, PtyTypes, ClientType
<1>8. CASE ExitKnown
    <2>1. Sent("exit", 0, 0, 0)
          /\ Moved("ended", task.seen, task.offset)
          /\ Rest /\ client' = client
        BY <1>8, ExitKnownEffect
    <2>2. PipeType'
        BY <2>1 DEF Sent, PipeType
    <2>3. TaskType'
        BY <1>0, <2>1 DEF Moved, TaskType, TaskPhases
    <2>4. QED
        BY <1>0, <2>1, <2>2, <2>3, TypePartsNext DEF Rest, PtyTypes, ClientType
<1>9. CASE RelayChunk
    <2>0. live[task.seen + 1] \in Nat
        <3>1. task.seen \in Nat /\ task.seen + 1 <= Len(live)
            BY <1>0, <1>9 DEF TaskType, RelayChunk
        <3>2. QED
            BY <3>1, Lengths
    <2>1. Sent("data", live[task.seen + 1], task.offset, live[task.seen + 1])
          /\ Moved("live", task.seen + 1, live[task.seen + 1])
          /\ Rest /\ client' = client
        BY <1>9, RelayChunkEffect
    <2>2. PipeType'
        BY <2>1 DEF Sent, PipeType
    <2>3. TaskType'
        BY <1>0, <2>1, <2>0 DEF Moved, TaskType, TaskPhases
    <2>4. QED
        BY <1>0, <2>1, <2>2, <2>3, TypePartsNext DEF Rest, PtyTypes, ClientType
<1>10. CASE RelayExit
    <2>1. Sent("exit", 0, 0, 0)
          /\ Moved("ended", task.seen, task.offset)
          /\ Rest /\ client' = client
        BY <1>10, RelayExitEffect
    <2>2. PipeType'
        BY <2>1 DEF Sent, PipeType
    <2>3. TaskType'
        BY <1>0, <2>1 DEF Moved, TaskType, TaskPhases
    <2>4. QED
        BY <1>0, <2>1, <2>2, <2>3, TypePartsNext DEF Rest, PtyTypes, ClientType
<1>11. CASE RelayLagged
    <2>1. Sent("lagged", 0, 0, 0)
          /\ Moved("ended", task.seen, task.offset)
          /\ Rest /\ client' = client
        BY <1>11, RelayLaggedEffect
    <2>2. PipeType'
        BY <2>1 DEF Sent, PipeType
    <2>3. TaskType'
        BY <1>0, <2>1 DEF Moved, TaskType, TaskPhases
    <2>4. QED
        BY <1>0, <2>1, <2>2, <2>3, TypePartsNext DEF Rest, PtyTypes, ClientType
<1>12. CASE ReceiveReplayStart
    <2>1. /\ Taken /\ UNCHANGED <<task, backlog, live, reader, exited, breaks>>
          /\ Now("open", IF client.offset < pipe[1].id THEN pipe[1].id ELSE client.offset, pipe[1].id)
        BY <1>12, ReceiveReplayStartEffect DEF Rest
    <2>2. PipeType' /\ pipe[1].id \in Nat
        BY <2>1 DEF Taken, PipeType, Event
    <2>3. ClientType'
        BY <1>0, <2>1, <2>2 DEF Now, ClientType, ClientStates
    <2>4. shown' \in Seq(Nat)
        BY <1>0, <1>12, ReceiveReplayStartEffect DEF Rest
    <2>5. QED
        BY <1>0, <2>1, <2>2, <2>3, <2>4, TypePartsNext DEF PtyTypes, TaskType
<1>13. CASE ReceiveKnown
    <2>1. /\ Taken /\ UNCHANGED <<task, backlog, live, reader, exited, breaks>>
          /\ (client' = client \/ Now(client.state, client.offset, pipe[1].id))
        BY <1>13, ReceiveKnownEffect DEF Rest
    <2>2. PipeType' /\ pipe[1].id \in Nat
        BY <2>1 DEF Taken, PipeType, Event
    <2>3. ClientType'
        <3>1. CASE client' = client
            BY <1>0, <3>1 DEF ClientType
        <3>2. CASE Now(client.state, client.offset, pipe[1].id)
            BY <1>0, <2>2, <3>2 DEF Now, ClientType
        <3>3. QED
            BY <2>1, <3>1, <3>2
    <2>4. shown' \in Seq(Nat)
        BY <1>0, <1>13, ReceiveKnownEffect DEF Rest
    <2>5. QED
        BY <1>0, <2>1, <2>2, <2>3, <2>4, TypePartsNext DEF PtyTypes, TaskType
<1>14. CASE ReceiveNew
    <2>1. /\ Taken /\ UNCHANGED <<task, backlog, live, reader, exited, breaks>>
          /\ Now(client.state, pipe[1].id, pipe[1].id)
        BY <1>14, ReceiveNewEffect DEF Rest
    <2>2. PipeType' /\ pipe[1].id \in Nat
        BY <2>1 DEF Taken, PipeType, Event
    <2>3. ClientType'
        BY <1>0, <2>1, <2>2 DEF Now, ClientType, ClientStates
    <2>4. shown' \in Seq(Nat)
        BY <1>14, ShownNew DEF FreshBytes
    <2>5. QED
        BY <1>0, <2>1, <2>2, <2>3, <2>4, TypePartsNext DEF PtyTypes, TaskType
<1>15. CASE ReceiveExit
    <2>1. /\ Taken /\ UNCHANGED <<task, backlog, live, reader, exited, breaks>>
          /\ Now("exited", client.offset, client.next)
        BY <1>15, ReceiveExitEffect DEF Rest
    <2>2. PipeType' /\ pipe[1].id \in Nat
        BY <2>1 DEF Taken, PipeType, Event
    <2>3. ClientType'
        BY <1>0, <2>1, <2>2 DEF Now, ClientType, ClientStates
    <2>4. shown' \in Seq(Nat)
        BY <1>0, <1>15, ReceiveExitEffect DEF Rest
    <2>5. QED
        BY <1>0, <2>1, <2>2, <2>3, <2>4, TypePartsNext DEF PtyTypes, TaskType
<1>16. CASE ReceiveLagged
    <2>1. /\ Taken /\ UNCHANGED <<task, backlog, live, reader, exited, breaks>>
          /\ client' = client
        BY <1>16, ReceiveLaggedEffect DEF Rest
    <2>2. PipeType' /\ pipe[1].id \in Nat
        BY <2>1 DEF Taken, PipeType, Event
    <2>3. ClientType'
        BY <1>0, <2>1, <2>2 DEF Now, ClientType, ClientStates
    <2>4. shown' \in Seq(Nat)
        BY <1>0, <1>16, ReceiveLaggedEffect DEF Rest
    <2>5. QED
        BY <1>0, <2>1, <2>2, <2>3, <2>4, TypePartsNext DEF PtyTypes, TaskType
<1>17. CASE StreamEnds
    <2>1. ClientType' /\ task' = NoTask
        BY <1>0, <1>17 DEF StreamEnds, ClientType, ClientStates
    <2>2. TaskType'
        BY <2>1 DEF NoTask, TaskType, TaskPhases
    <2>3. UNCHANGED <<ptyVars, pipe, shown, breaks>>
        BY <1>17 DEF StreamEnds
    <2>4. QED
        BY <1>0, <2>1, <2>2, <2>3, TypePartsNext DEF PtyTypes, PipeType, ptyVars
<1>18. CASE Breaks
    <2>1. ClientType'
        BY <1>0, <1>18 DEF Breaks, Drop, ClientType, ClientStates
    <2>2. task' = NoTask /\ pipe' = <<>> /\ UNCHANGED <<ptyVars, shown>>
        BY <1>18 DEF Breaks, Drop
    <2>3. TaskType' /\ PipeType'
        BY <2>2, CapsAssumption DEF NoTask, TaskType, TaskPhases, PipeType
    <2>4. breaks' \in 0 .. MaxBreaks
        BY <1>0, <1>18, BoundsAssumption DEF Breaks
    <2>5. QED
        BY <1>0, <2>1, <2>2, <2>3, <2>4, TypePartsNext DEF PtyTypes, ptyVars
<1>19. CASE Reopen
    <2>1. ClientType'
        BY <1>0, <1>19 DEF Reopen, ClientType, ClientStates
    <2>2. UNCHANGED <<ptyVars, task, pipe, shown, breaks>>
        BY <1>19 DEF Reopen
    <2>3. QED
        BY <1>0, <2>1, <2>2, TypePartsNext DEF PtyTypes, TaskType, PipeType, ptyVars
<1>20. CASE UNCHANGED vars
    BY <1>0, <1>20, TypePartsNext DEF vars, ptyVars, PtyTypes, TaskType, PipeType, ClientType
<1>21. QED
    BY <1>1, <1>2, <1>3, <1>4, <1>5, <1>6, <1>7, <1>8, <1>9, <1>10, <1>11, <1>12,
       <1>13, <1>14, <1>15, <1>16, <1>17, <1>18, <1>19, <1>20 DEF Next, Serve, Receive

--------------------------------------------------------------------------------
\* The task, the pipe and the client

\* Every step keeps the task's account of what it has sent.
LEMMA TaskStep ==
    ASSUME TypeOK, LiveInv, TaskInv, [Next]_vars
    PROVE  TaskInv'
<1>0. /\ task.from \in Nat /\ task.to \in Nat /\ task.seen \in Nat /\ task.offset \in Nat
      /\ backlog.end \in Nat /\ Len(live) \in Nat
    BY Lengths DEF TypeOK
<1>1. CASE Read
    <2>1. Grows
        BY <1>1, ReadGrows
    <2>2. /\ task' = task /\ backlog.end <= backlog'.end /\ backlog'.end \in Nat
          /\ Len(live) <= Len(live') /\ Len(live') \in Nat
        BY <2>1 DEF Grows
    <2>3. task.seen <= Len(live) /\ Position => Position'
        BY <1>0, <2>1, <2>2 DEF Grows, Position, Upto
    <2>4. QED
        BY <1>0, <2>2, <2>3 DEF TaskInv, Serving
<1>2. CASE Subscribe
    <2>1. PICK from \in Nat :
              /\ from <= backlog.end
              /\ task' = [at |-> "subscribed", from |-> from, to |-> backlog.end,
                          seen |-> Len(live), offset |-> from, over |-> FALSE]
        BY <1>2, SubscribeEffect
    <2>2. backlog' = backlog /\ live' = live /\ reader' = reader
        BY <1>2, SubscribeEffect DEF ptyVars
    <2>3. Len(live) <= Chunks => Upto(Len(live)) = backlog.end
        <3>1. Len(live) <= Chunks => Chunks = Len(live)
            BY <1>0 DEF Chunks
        <3>2. QED
            BY <3>1 DEF LiveInv
    <2>4. Position'
        BY <2>1, <2>2, <2>3 DEF Position, Chunks, Upto
    <2>5. QED
        BY <1>0, <2>1, <2>2, <2>4 DEF TaskInv, Serving
<1>3. CASE ReadExited \/ Follow
    <2>1. backlog' = backlog /\ live' = live /\ reader' = reader
        BY <1>3 DEF ReadExited, Follow, ptyVars
    <2>2. /\ UNCHANGED <<task.from, task.to, task.seen, task.offset>>
          /\ \/ task.at = "subscribed" /\ task'.at = "marker"
             \/ task.at = "known" /\ task'.at = "live"
        BY <1>3 DEF ReadExited, Follow, TypeOK
    <2>3. QED
        BY <1>0, <2>1, <2>2 DEF TaskInv, Serving, Position, Chunks, Upto
<1>4. CASE SendMarker
    <2>1. task.at = "marker" /\ Moved(IF task.to > task.from THEN "replay" ELSE "known", task.seen, task.offset)
          /\ backlog' = backlog /\ live' = live /\ reader' = reader
        BY <1>4, SendMarkerEffect DEF Rest
    <2>2. Position => Position'
        BY <2>1 DEF Moved, Position, Chunks, Upto
    <2>3. QED
        BY <1>0, <2>1, <2>2 DEF TaskInv, Serving, Moved
<1>5. CASE SendReplay
    <2>1. task.at = "replay" /\ Moved("known", task.seen, task.to)
          /\ backlog' = backlog /\ live' = live /\ reader' = reader
        BY <1>5, SendReplayEffect DEF Rest
    <2>2. Position => Position'
        BY <2>1 DEF Moved, Position, Chunks, Upto
    <2>3. QED
        BY <1>0, <2>1, <2>2 DEF TaskInv, Serving, Moved
<1>6. CASE ExitKnown
    <2>1. task.at = "known" /\ Moved("ended", task.seen, task.offset)
          /\ backlog' = backlog /\ live' = live /\ reader' = reader
        BY <1>6, ExitKnownEffect DEF Rest
    <2>2. QED
        BY <1>0, <2>1 DEF TaskInv, Serving, Moved
<1>7. CASE RelayChunk
    <2>1. task.at = "live" /\ Moved("live", task.seen + 1, live[task.seen + 1])
          /\ backlog' = backlog /\ live' = live /\ reader' = reader
        BY <1>7, RelayChunkEffect DEF Rest
    <2>2. task.seen + 1 <= Chunks /\ live[task.seen + 1] <= backlog.end
        BY <1>7, RelayChunkEffect
    <2>3. task.seen + 1 <= Len(live) /\ live[task.seen + 1] \in Nat
        BY <1>0, <2>2, Lengths DEF Chunks
    <2>4. Position'
        BY <1>0, <2>1 DEF Moved, Position, Upto
    <2>5. QED
        BY <1>0, <2>1, <2>2, <2>3, <2>4 DEF TaskInv, Serving, Moved
<1>8. CASE RelayExit
    <2>1. task.at = "live" /\ Moved("ended", task.seen, task.offset)
          /\ backlog' = backlog /\ live' = live /\ reader' = reader
        BY <1>8, RelayExitEffect DEF Rest
    <2>2. QED
        BY <1>0, <2>1 DEF TaskInv, Serving, Moved
<1>9. CASE RelayLagged
    <2>1. task.at = "live" /\ Moved("ended", task.seen, task.offset)
          /\ backlog' = backlog /\ live' = live /\ reader' = reader
        BY <1>9, RelayLaggedEffect DEF Rest
    <2>2. QED
        BY <1>0, <2>1 DEF TaskInv, Serving, Moved
<1>10. CASE StreamEnds \/ Breaks
    <2>1. task' = NoTask /\ backlog' = backlog
        BY <1>10 DEF StreamEnds, Breaks, Drop, ptyVars
    <2>2. QED
        BY <1>0, <2>1 DEF NoTask, TaskInv, Serving
<1>11. CASE UNCHANGED <<task, backlog, live, reader>>
    BY <1>11 DEF TaskInv, Serving, Position, Chunks, Upto
<1>12. CASE Receive
    <2>1. StreamEnds \/ UNCHANGED <<task, backlog, live, reader>>
        BY <1>12 DEF Receive, ReceiveReplayStart, ReceiveKnown, ReceiveNew, ReceiveExit, ReceiveLagged,
                      Reopen, ptyVars
    <2>2. QED
        BY <2>1, <1>10, <1>11
<1>13. CASE UNCHANGED vars
    BY <1>11, <1>13 DEF vars, ptyVars
<1>14. QED
    BY <1>1, <1>2, <1>3, <1>4, <1>5, <1>6, <1>7, <1>8, <1>9, <1>10, <1>12, <1>13 DEF Next, Serve, Read

\* Data that goes on where the task is.
LEMMA SendData ==
    ASSUME TypeOK, PipeInv, task.at \in {"replay", "live"}, NEW at \in {"known", "live"}, NEW seen,
           NEW last \in Nat, task.offset < last, last <= backlog.end,
           Sent("data", last, task.offset, last), Moved(at, seen, last), Rest, client' = client
    PROVE  PipeInv'
<1>0. Len(pipe) \in Nat /\ (pipe = <<>> <=> Len(pipe) = 0)
    BY Lengths
<1>1. /\ pipe' # <<>> /\ Len(pipe') = Len(pipe) + 1
      /\ \A k \in 1 .. Len(pipe) : pipe'[k] = pipe[k]
      /\ pipe'[Len(pipe) + 1] = [kind |-> "data", id |-> last, first |-> task.offset, last |-> last]
    BY DEF Sent
<1>2. task'.at = at /\ task'.from = task.from /\ task'.offset = last
    BY DEF Moved
<1>3. backlog' = backlog /\ client' = client
    BY DEF Rest
<1>4. ASSUME NEW k \in 1 .. Len(pipe)
      PROVE  EventOK(k)'
    <2>1. EventOK(k) /\ pipe'[k] = pipe[k] /\ (k > 1 => pipe'[k - 1] = pipe[k - 1])
        BY <1>0, <1>1 DEF PipeInv
    <2>2. pipe[k].kind \in Stream
        BY <2>1 DEF EventOK
    <2>3. QED
        BY <1>2, <1>3, <2>1, <2>2 DEF EventOK
<1>5. ASSUME NEW k, k = Len(pipe) + 1
      PROVE  EventOK(k)'
    <2>1. /\ pipe'[k].kind = "data" /\ pipe'[k].id = last /\ pipe'[k].first = task.offset
          /\ pipe'[k].last = last
        BY <1>1, <1>5
    <2>2. k > 1 => pipe'[k].first = pipe'[k - 1].id
        <3>1. k > 1 => k - 1 = Len(pipe) /\ Len(pipe) \in 1 .. Len(pipe) /\ pipe # <<>>
            BY <1>0, <1>5
        <3>2. QED
            BY <1>1, <2>1, <3>1 DEF PipeInv
    <2>3. k = 1 => pipe'[k].first = client'.next
        BY <1>0, <1>3, <1>5, <2>1 DEF PipeInv
    <2>4. QED
        BY <1>3, <2>1, <2>2, <2>3 DEF EventOK, Stream
<1>6. QED
    <2>1. \A k \in 1 .. Len(pipe') : EventOK(k)'
        BY <1>0, <1>1, <1>4, <1>5
    <2>2. client.state \in {"connecting", "reconnecting"} => pipe'[1].kind = "replay-start"
        BY <1>0, <1>1 DEF PipeInv
    <2>3. client.state # "waiting"
        BY DEF PipeInv
    <2>4. pipe'[Len(pipe')].id = last
        BY <1>1
    <2>5. QED
        BY <1>1, <1>2, <1>3, <2>1, <2>2, <2>3, <2>4 DEF PipeInv

\* The last event of a connection.
LEMMA SendLast ==
    ASSUME TypeOK, PipeInv, task.at \in {"known", "live"}, NEW kind \in {"exit", "lagged"},
           Sent(kind, 0, 0, 0), Moved("ended", task.seen, task.offset), Rest, client' = client
    PROVE  PipeInv'
<1>0. Len(pipe) \in Nat /\ (pipe = <<>> <=> Len(pipe) = 0)
    BY Lengths
<1>1. /\ pipe' # <<>> /\ Len(pipe') = Len(pipe) + 1
      /\ \A k \in 1 .. Len(pipe) : pipe'[k] = pipe[k]
      /\ pipe'[Len(pipe) + 1].kind = kind
    BY DEF Sent
<1>2. task'.at = "ended" /\ task'.from = task.from
    BY DEF Moved
<1>3. backlog' = backlog /\ client' = client
    BY DEF Rest
<1>4. ASSUME NEW k \in 1 .. Len(pipe)
      PROVE  EventOK(k)'
    <2>1. EventOK(k) /\ pipe'[k] = pipe[k] /\ (k > 1 => pipe'[k - 1] = pipe[k - 1])
        BY <1>0, <1>1 DEF PipeInv
    <2>2. pipe[k].kind \in Stream
        BY <2>1 DEF EventOK
    <2>3. QED
        BY <1>2, <1>3, <2>1, <2>2 DEF EventOK
<1>5. ASSUME NEW k, k = Len(pipe) + 1
      PROVE  EventOK(k)'
    BY <1>1, <1>2, <1>5 DEF EventOK, Stream
<1>6. \A k \in 1 .. Len(pipe') : EventOK(k)'
    BY <1>0, <1>1, <1>4, <1>5
<1>7. client.state \in {"connecting", "reconnecting"} => pipe'[1].kind = "replay-start"
    BY <1>0, <1>1 DEF PipeInv
<1>8. QED
    BY <1>1, <1>2, <1>3, <1>6, <1>7 DEF PipeInv

\* The client takes an event and goes on where it ends.
LEMMA TakeStream ==
    ASSUME TypeOK, PipeInv, Taken, task' = task, backlog' = backlog, pipe[1].kind \in Stream,
           client'.state = "open", client'.next = pipe[1].id
    PROVE  PipeInv'
<1>0. Len(pipe) \in Nat /\ (pipe = <<>> <=> Len(pipe) = 0)
    BY Lengths
<1>1. /\ Len(pipe) >= 1 /\ Len(pipe') = Len(pipe) - 1 /\ (pipe' = <<>> <=> Len(pipe) = 1)
      /\ \A k \in 1 .. Len(pipe) - 1 : pipe'[k] = pipe[k + 1]
    BY DEF Taken
<1>2. pipe # <<>> /\ task.at \notin {"none", "subscribed", "marker"}
    BY <1>0, <1>1 DEF PipeInv
<1>3. ASSUME NEW k \in 1 .. Len(pipe) - 1
      PROVE  EventOK(k)'
    <2>1. EventOK(k + 1) /\ pipe'[k] = pipe[k + 1] /\ k + 1 > 1 /\ (k + 1) - 1 = k
        BY <1>0, <1>1 DEF PipeInv
    <2>2. k > 1 => pipe'[k - 1] = pipe[k]
        <3>1. k > 1 => k - 1 \in 1 .. Len(pipe) - 1 /\ (k - 1) + 1 = k
            BY <1>0
        <3>2. QED
            BY <1>1, <3>1
    <2>3. k + 1 = Len(pipe) => k = Len(pipe')
        BY <1>0, <1>1
    <2>4. pipe'[k].kind # "replay-start"
        BY <2>1 DEF EventOK
    <2>5. pipe'[k].kind = "data" =>
              /\ pipe'[k].id = pipe'[k].last /\ pipe'[k].first < pipe'[k].last
              /\ pipe'[k].last <= backlog'.end /\ pipe'[k].first = pipe[k].id
        BY <2>1 DEF EventOK
    <2>6. pipe'[k].kind \notin Stream => k = Len(pipe') /\ task'.at = "ended"
        BY <2>1, <2>3 DEF EventOK
    <2>7. k = 1 => pipe[k].id = client'.next
        OBVIOUS
    <2>8. QED
        BY <2>2, <2>4, <2>5, <2>6, <2>7 DEF EventOK
<1>4. Len(pipe) > 1 => pipe'[Len(pipe')] = pipe[Len(pipe)]
    <2>1. Len(pipe) > 1 => Len(pipe) - 1 \in 1 .. Len(pipe) - 1 /\ (Len(pipe) - 1) + 1 = Len(pipe)
        BY <1>0
    <2>2. QED
        BY <1>1, <2>1
<1>5. task.at \in {"replay", "known", "live"} =>
          task.offset = IF pipe' = <<>> THEN client'.next ELSE pipe'[Len(pipe')].id
    BY <1>0, <1>1, <1>2, <1>4 DEF PipeInv
<1>6. \A k \in 1 .. Len(pipe') : EventOK(k)'
    BY <1>1, <1>3
<1>7. QED
    BY <1>2, <1>5, <1>6 DEF PipeInv

\* The client takes the last event.
LEMMA TakeLast ==
    ASSUME TypeOK, PipeInv, Taken, task' = task, pipe[1].kind \notin Stream,
           client'.state \in {client.state, "exited"}
    PROVE  PipeInv'
<1>0. Len(pipe) \in Nat /\ Len(pipe) >= 1 /\ 1 \in 1 .. Len(pipe)
    BY Lengths DEF Taken
<1>1. EventOK(1) /\ pipe # <<>>
    BY <1>0, Lengths DEF PipeInv
<1>2. Len(pipe) = 1 /\ task.at = "ended"
    BY <1>1 DEF EventOK
<1>3. pipe' = <<>> /\ Len(pipe') = 0
    BY <1>2 DEF Taken
<1>4. client.state \notin {"connecting", "reconnecting", "waiting"}
    BY <1>1, <1>2 DEF PipeInv, Stream, Taken
<1>5. QED
    BY <1>2, <1>3, <1>4 DEF PipeInv

\* Data only reaches a client that knows where the replay starts.
LEMMA DataIsExpected ==
    ASSUME TypeOK, PipeInv, Taken, pipe[1].kind = "data"
    PROVE  /\ client.state = "open" /\ pipe[1].first = client.next
           /\ pipe[1].id = pipe[1].last /\ pipe[1].first < pipe[1].last /\ pipe[1].last <= backlog.end
<1>0. Len(pipe) \in Nat /\ Len(pipe) >= 1 /\ 1 \in 1 .. Len(pipe) /\ pipe # <<>>
    BY Lengths DEF Taken
<1>1. EventOK(1)
    BY <1>0 DEF PipeInv
<1>2. client.state \in ClientStates /\ client.state \notin {"waiting", "exited"} /\ task.at \in TaskPhases
    BY DEF TypeOK, Taken
<1>3. client.state = "open"
    BY <1>0, <1>2 DEF PipeInv, TaskPhases, ClientStates
<1>4. QED
    BY <1>1, <1>3 DEF EventOK

\* A frame below the client's offset moves only the place of the next one.
LEMMA KnownMoves ==
    ASSUME TypeOK, PipeInv, ReceiveKnown
    PROVE  Now(client.state, client.offset, pipe[1].id)
<1>1. /\ Taken /\ pipe[1].kind = "data" /\ pipe[1].id <= client.offset
      /\ (client' = client /\ Seen(pipe[1])) \/ Now(client.state, client.offset, pipe[1].id)
    BY ReceiveKnownEffect
<1>2. /\ pipe[1].first = client.next /\ pipe[1].id = pipe[1].last /\ pipe[1].first < pipe[1].last
    BY <1>1, DataIsExpected
<1>3. pipe[1].first \in Nat /\ pipe[1].last \in Nat /\ client.offset \in Nat
    BY <1>1 DEF TypeOK, Taken, Event
<1>4. ~Seen(pipe[1])
    BY <1>1, <1>2, <1>3 DEF Seen, None
<1>5. QED
    BY <1>1, <1>4

\* Every step keeps the pipe between the client and the task.
LEMMA PipeStep ==
    ASSUME TypeOK, LiveInv, TaskInv, PipeInv, [Next]_vars
    PROVE  PipeInv'
<1>0. /\ Len(pipe) \in Nat /\ (pipe = <<>> <=> Len(pipe) = 0) /\ task.at \in TaskPhases
      /\ client.state \in ClientStates
    BY Lengths DEF TypeOK
<1>1. CASE Read
    <2>1. /\ UNCHANGED <<task, pipe, client>> /\ backlog.end <= backlog'.end
          /\ backlog.end \in Nat /\ backlog'.end \in Nat
        BY <1>1, ReadGrows DEF Grows, TypeOK
    <2>2. ASSUME NEW k \in 1 .. Len(pipe) PROVE EventOK(k)'
        <3>1. EventOK(k) /\ pipe[k].last \in Nat
            BY Lengths DEF PipeInv, Event
        <3>2. QED
            BY <2>1, <3>1 DEF EventOK
    <2>3. QED
        BY <2>1, <2>2 DEF PipeInv
<1>2. CASE Subscribe
    <2>1. /\ Connecting /\ task'.at = "subscribed" /\ UNCHANGED <<pipe, client>>
        BY <1>2, SubscribeEffect
    <2>2. task.at = "none" /\ pipe = <<>> /\ client.state \in {"connecting", "reconnecting"}
        BY <2>1 DEF Connecting, PipeInv
    <2>3. QED
        BY <1>0, <2>1, <2>2 DEF PipeInv
<1>3. CASE ReadExited
    <2>1. task.at = "subscribed" /\ task'.at = "marker" /\ UNCHANGED <<pipe, client>>
        BY <1>3 DEF ReadExited, TypeOK
    <2>2. QED
        BY <1>0, <2>1 DEF PipeInv
<1>4. CASE SendMarker
    <2>1. /\ task.at = "marker" /\ Sent("replay-start", task.from, 0, 0)
          /\ Moved(IF task.to > task.from THEN "replay" ELSE "known", task.seen, task.offset)
          /\ client' = client
        BY <1>4, SendMarkerEffect
    <2>2. pipe = <<>> /\ client.state # "open" /\ client.state # "waiting" /\ Len(pipe) = 0
        BY <1>0, <2>1 DEF PipeInv
    <2>3. /\ pipe' # <<>> /\ Len(pipe') = 1
          /\ pipe'[1] = [kind |-> "replay-start", id |-> task.from, first |-> 0, last |-> 0]
        BY <2>1, <2>2 DEF Sent
    <2>4. task'.at \in {"replay", "known"} /\ task'.from = task.from /\ task'.offset = task.from
        <3>1. task.offset = task.from
            BY <2>1 DEF TaskInv
        <3>2. QED
            BY <2>1, <3>1 DEF Moved
    <2>5. EventOK(1)'
        BY <2>1, <2>2, <2>3, <2>4 DEF EventOK, Stream
    <2>6. QED
        BY <2>1, <2>2, <2>3, <2>4, <2>5 DEF PipeInv
<1>5. CASE SendReplay
    <2>1. /\ task.at = "replay" /\ Moved("known", task.seen, task.to) /\ Rest /\ client' = client
          /\ Sent("data", task.offset + (task.to - task.from), task.from, task.to)
        BY <1>5, SendReplayEffect
    <2>2. /\ task.offset = task.from /\ task.from < task.to /\ task.to <= backlog.end
          /\ task.from \in Nat /\ task.to \in Nat
        BY <2>1 DEF TaskInv, Serving, TypeOK
    <2>3. task.offset + (task.to - task.from) = task.to
        BY <2>2
    <2>4. Sent("data", task.to, task.offset, task.to) /\ task.offset < task.to
        BY <2>1, <2>2, <2>3
    <2>5. QED
        BY <2>1, <2>2, <2>4, SendData
<1>6. CASE ExitKnown
    BY <1>6, ExitKnownEffect, SendLast
<1>7. CASE RelayChunk
    <2>1. live[task.seen + 1] \in Nat
        <3>1. task.seen \in Nat /\ task.seen + 1 <= Len(live)
            BY <1>7 DEF TypeOK, RelayChunk
        <3>2. QED
            BY <3>1, Lengths
    <2>2. QED
        BY <1>7, <2>1, RelayChunkEffect, SendData
<1>8. CASE RelayExit
    BY <1>8, RelayExitEffect, SendLast
<1>9. CASE RelayLagged
    BY <1>9, RelayLaggedEffect, SendLast
<1>10. CASE Follow
    <2>1. /\ task.at = "known" /\ task'.at = "live" /\ UNCHANGED <<pipe, client, backlog>>
          /\ task'.from = task.from /\ task'.offset = task.offset
        BY <1>10 DEF Follow, TypeOK, ptyVars
    <2>2. ASSUME NEW k \in 1 .. Len(pipe) PROVE EventOK(k)'
        BY <2>1 DEF PipeInv, EventOK
    <2>3. QED
        BY <1>0, <2>1, <2>2 DEF PipeInv
<1>11. CASE ReceiveReplayStart
    <2>1. /\ Taken /\ task' = task /\ pipe[1].kind = "replay-start" /\ backlog' = backlog
          /\ client'.state = "open" /\ client'.next = pipe[1].id
        BY <1>11, ReceiveReplayStartEffect DEF Now, Rest
    <2>2. QED
        BY <2>1, TakeStream DEF Stream
<1>12. CASE ReceiveKnown
    <2>1. Taken /\ task' = task /\ pipe[1].kind = "data" /\ backlog' = backlog
        BY <1>12, ReceiveKnownEffect DEF Rest
    <2>2. client'.state = "open" /\ client'.next = pipe[1].id
        BY <1>12, <2>1, KnownMoves, DataIsExpected DEF Now
    <2>3. QED
        BY <2>1, <2>2, TakeStream DEF Stream
<1>13. CASE ReceiveNew
    <2>1. /\ Taken /\ task' = task /\ pipe[1].kind = "data" /\ backlog' = backlog
          /\ client'.state = client.state /\ client'.next = pipe[1].id
        BY <1>13, ReceiveNewEffect DEF Now
    <2>2. client.state = "open"
        BY <2>1, DataIsExpected
    <2>3. QED
        BY <2>1, <2>2, TakeStream DEF Stream
<1>14. CASE ReceiveExit
    <2>1. Taken /\ task' = task /\ pipe[1].kind = "exit" /\ client'.state = "exited"
        BY <1>14, ReceiveExitEffect DEF Now
    <2>2. QED
        BY <2>1, TakeLast DEF Stream
<1>15. CASE ReceiveLagged
    <2>1. Taken /\ task' = task /\ pipe[1].kind = "lagged" /\ client' = client
        BY <1>15, ReceiveLaggedEffect
    <2>2. QED
        BY <2>1, TakeLast DEF Stream
<1>16. CASE StreamEnds \/ Breaks
    <2>1. task'.at = "none" /\ pipe' = <<>> /\ client'.state \in {"reconnecting", "waiting"}
        BY <1>16, StreamEndsEffect, BreaksEffect DEF Disconnected, NoTask
    <2>2. Len(pipe') = 0
        BY <2>1
    <2>3. QED
        BY <2>1, <2>2 DEF PipeInv
<1>17. CASE Reopen
    <2>1. client.state = "waiting" /\ client'.state = "reconnecting" /\ UNCHANGED <<task, pipe>>
        BY <1>17 DEF Reopen, TypeOK
    <2>2. task.at = "none" /\ pipe = <<>>
        BY <2>1 DEF PipeInv
    <2>3. QED
        BY <1>0, <2>1, <2>2 DEF PipeInv
<1>18. CASE UNCHANGED vars
    BY <1>18 DEF vars, ptyVars, PipeInv, EventOK
<1>19. QED
    BY <1>1, <1>2, <1>3, <1>4, <1>5, <1>6, <1>7, <1>8, <1>9, <1>10, <1>11, <1>12, <1>13, <1>14,
       <1>15, <1>16, <1>17, <1>18 DEF Next, Serve, Receive, Read

\* Every step keeps the client's place.
LEMMA ClientStep ==
    ASSUME TypeOK, LiveInv, TaskInv, PipeInv, ClientInv, [Next]_vars
    PROVE  ClientInv'
<1>0. /\ client.url \in Nat /\ client.offset \in Nat /\ client.next \in Nat \cup {None}
      /\ task.from \in Nat /\ backlog.start \in Nat /\ Len(shown) \in Nat
      /\ \A i \in 1 .. Len(shown) : shown[i] \in Nat
    BY Lengths DEF TypeOK
<1>1. CASE Read
    <2>1. UNCHANGED <<task, client, shown>> /\ backlog.start <= backlog'.start /\ backlog'.start \in Nat
        BY <1>1, ReadGrows DEF Grows
    <2>2. QED
        BY <1>0, <2>1 DEF ClientInv
<1>2. CASE Subscribe
    <2>1. PICK from \in Nat :
              /\ from <= client.url \/ from <= backlog.start
              /\ task' = [at |-> "subscribed", from |-> from, to |-> backlog.end,
                          seen |-> Len(live), offset |-> from, over |-> FALSE]
        BY <1>2, SubscribeEffect
    <2>2. task'.from = from /\ UNCHANGED <<client, shown, backlog>>
        BY <1>2, <2>1, SubscribeEffect DEF ptyVars
    <2>3. QED
        BY <1>0, <2>1, <2>2 DEF ClientInv
<1>3. CASE ReadExited \/ Follow
    <2>1. UNCHANGED <<client, shown, backlog, task.from>> /\ task.at # "none"
        BY <1>3 DEF ReadExited, Follow, TypeOK, ptyVars
    <2>2. QED
        BY <2>1 DEF ClientInv
<1>4. ASSUME UNCHANGED <<client, shown, backlog>>, task'.from = task.from, task.at # "none"
      PROVE  ClientInv'
    BY <1>4 DEF ClientInv
<1>5. CASE SendMarker \/ SendReplay \/ ExitKnown \/ RelayChunk \/ RelayExit \/ RelayLagged
    <2>1. UNCHANGED <<client, shown, backlog>> /\ task.at # "none"
        BY <1>5 DEF SendMarker, SendReplay, ExitKnown, RelayChunk, RelayExit, RelayLagged, Send, ptyVars
    <2>2. task'.from = task.from
        BY <1>5, SendMarkerEffect, SendReplayEffect, ExitKnownEffect, RelayChunkEffect, RelayExitEffect,
           RelayLaggedEffect DEF Moved
    <2>3. QED
        BY <1>4, <2>1, <2>2
<1>6. CASE ReceiveReplayStart
    <2>1. /\ task' = task /\ UNCHANGED <<shown, backlog>> /\ pipe[1].id \in Nat
          /\ Now("open", IF client.offset < pipe[1].id THEN pipe[1].id ELSE client.offset, pipe[1].id)
        BY <1>6, ReceiveReplayStartEffect DEF Rest, Taken, Event
    <2>2. /\ client'.next = pipe[1].id /\ client'.url = client.url
          /\ client'.offset >= pipe[1].id /\ client'.offset >= client.offset /\ client'.offset \in Nat
        BY <1>0, <2>1 DEF Now
    <2>3. client'.next # None
        BY <2>1, <2>2 DEF None
    <2>4. shown' = shown /\ task' = task /\ backlog' = backlog /\ pipe[1].id \in Nat
        BY <2>1
    <2>5. \A i \in 1 .. Len(shown) : shown[i] <= client'.offset
        BY <1>0, <2>2 DEF ClientInv
    <2>6. client'.url <= client'.offset /\ client'.next <= client'.offset
        BY <1>0, <2>2, <2>4 DEF ClientInv
    <2>7. task.at # "none" => task.from <= client'.offset \/ task.from <= backlog.start
        BY <1>0, <2>2 DEF ClientInv
    <2>8. QED
        BY <2>3, <2>4, <2>5, <2>6, <2>7 DEF ClientInv
<1>7. CASE ReceiveKnown
    <2>1. /\ task' = task /\ UNCHANGED <<shown, backlog>> /\ pipe[1].id \in Nat
          /\ pipe[1].id <= client.offset
        BY <1>7, ReceiveKnownEffect DEF Rest, Taken, Event
    <2>2. client'.next = pipe[1].id /\ client'.url = client.url /\ client'.offset = client.offset
        BY <1>7, KnownMoves DEF Now
    <2>3. client'.next # None
        BY <2>1, <2>2 DEF None
    <2>4. QED
        BY <1>0, <2>1, <2>2, <2>3 DEF ClientInv
<1>8. CASE ReceiveNew
    <2>1. /\ task' = task /\ backlog' = backlog /\ pipe[1].id \in Nat
          /\ Now(client.state, pipe[1].id, pipe[1].id)
        BY <1>8, ReceiveNewEffect DEF Taken, Event
    <2>2. FreshBytes /\ pipe[1].last > client.offset /\ pipe[1].id = pipe[1].last
        BY <1>8, ShownNew
    <2>3. client'.next = pipe[1].last /\ client'.url = client.url /\ client'.offset = pipe[1].last
        BY <2>1, <2>2 DEF Now
    <2>4. client'.next # None
        BY <2>1, <2>2, <2>3 DEF None
    <2>5. ASSUME NEW i \in 1 .. Len(shown') PROVE shown'[i] <= client'.offset
        <3>1. CASE i \in 1 .. Len(shown)
            BY <1>0, <2>1, <2>2, <2>3, <3>1 DEF ClientInv, FreshBytes
        <3>2. CASE i \notin 1 .. Len(shown)
            <4>0. /\ i \in 1 .. Len(shown) + (pipe[1].last - client.offset)
                  /\ pipe[1].last \in Nat /\ Len(shown) \in Nat /\ client.offset \in Nat
                BY <1>0, <2>1, <2>2 DEF FreshBytes
            <4>1. /\ i - Len(shown) \in 1 .. pipe[1].last - client.offset
                  /\ Len(shown) + (i - Len(shown)) = i
                BY <3>2, <4>0
            <4>2. shown'[i] = client.offset + (i - Len(shown))
                BY <2>2, <4>1 DEF FreshBytes
            <4>3. QED
                BY <1>0, <2>1, <2>2, <2>3, <4>1, <4>2
        <3>3. QED
            BY <3>1, <3>2
    <2>6. QED
        BY <1>0, <2>1, <2>2, <2>3, <2>4, <2>5 DEF ClientInv
<1>9. CASE ReceiveExit \/ ReceiveLagged
    <2>1. /\ UNCHANGED <<task, shown, backlog>> /\ UNCHANGED <<client.url, client.offset, client.next>>
          /\ client'.state \in {client.state, "exited"}
        BY <1>9, ReceiveExitEffect, ReceiveLaggedEffect DEF Rest, Now
    <2>2. QED
        BY <2>1 DEF ClientInv
<1>10. CASE StreamEnds \/ Breaks
    <2>1. /\ task'.at = "none" /\ UNCHANGED <<shown, backlog>> /\ client'.state # "open"
          /\ client'.url = client.url /\ client'.offset = client.offset
        BY <1>10, StreamEndsEffect, BreaksEffect DEF Disconnected, NoTask, ptyVars
    <2>2. QED
        BY <2>1 DEF ClientInv
<1>11. CASE Reopen
    <2>1. /\ UNCHANGED <<task, shown, backlog>> /\ client'.state = "reconnecting"
          /\ client'.url = client.offset /\ client'.offset = client.offset
        BY <1>11 DEF Reopen, TypeOK, ptyVars
    <2>2. QED
        BY <1>0, <2>1 DEF ClientInv
<1>12. CASE UNCHANGED vars
    BY <1>12 DEF vars, ptyVars, ClientInv
<1>13. QED
    BY <1>1, <1>2, <1>3, <1>5, <1>6, <1>7, <1>8, <1>9, <1>10, <1>11, <1>12
       DEF Next, Serve, Receive, Read

--------------------------------------------------------------------------------
\* What the client has shown

\* Only a frame with something new is shown, and only then or at the start of a replay does
\* the client's offset move.
LEMMA ShownStep ==
    ASSUME TypeOK, LiveInv, TaskInv, PipeInv, ClientInv, ShownFaithfully, [Next]_vars
    PROVE  ShownFaithfully'
<1>0. /\ client.offset \in Nat /\ backlog.start \in Nat /\ Len(shown) \in Nat
      /\ \A i \in 1 .. Len(shown) : shown[i] \in Nat
      /\ DOMAIN shown = 1 .. Len(shown)
    BY Lengths DEF TypeOK
<1>1. ASSUME shown' = shown, client'.offset = client.offset,
             backlog.start <= backlog'.start, backlog'.start \in Nat
      PROVE  ShownFaithfully'
    BY <1>0, <1>1 DEF ShownFaithfully, ShownOnceInOrder, SkippedOnlyIfDropped
<1>2. CASE Read
    BY <1>1, <1>2, ReadGrows DEF Grows
<1>3. CASE Serve
    <2>1. UNCHANGED <<shown, client, backlog>>
        BY <1>3 DEF Serve, Subscribe, ReadExited, SendMarker, SendReplay, ExitKnown, Follow, RelayChunk,
                    RelayExit, RelayLagged, Send, ptyVars
    <2>2. QED
        BY <1>0, <1>1, <2>1
<1>4. CASE ReceiveReplayStart
    <2>1. /\ Taken /\ pipe[1].kind = "replay-start" /\ UNCHANGED <<shown, backlog>>
          /\ Now("open", IF client.offset < pipe[1].id THEN pipe[1].id ELSE client.offset, pipe[1].id)
        BY <1>4, ReceiveReplayStartEffect DEF Rest
    <2>2. Len(pipe) \in Nat /\ 1 \in 1 .. Len(pipe) /\ pipe # <<>> /\ pipe[1].id \in Nat
        BY <2>1, Lengths DEF Taken, Event
    <2>3. pipe[1].id = task.from /\ task.at # "none"
        BY <2>1, <2>2 DEF PipeInv, EventOK
    <2>4. CASE client.offset < pipe[1].id
        <3>1. client'.offset = task.from /\ task.from <= backlog.start
            BY <1>0, <2>1, <2>2, <2>3, <2>4 DEF Now, ClientInv
        <3>2. ShownOnceInOrder'
            BY <2>1 DEF ShownFaithfully, ShownOnceInOrder
        <3>3. SkippedOnlyIfDropped'
            BY <1>0, <2>1, <2>2, <2>3, <3>1 DEF SkippedOnlyIfDropped
        <3>4. QED
            BY <3>2, <3>3 DEF ShownFaithfully
    <2>5. CASE ~(client.offset < pipe[1].id)
        BY <1>0, <1>1, <2>1, <2>5 DEF Now
    <2>6. QED
        BY <2>4, <2>5
<1>5. CASE ReceiveKnown
    BY <1>0, <1>1, <1>5, ReceiveKnownEffect, KnownMoves DEF Now, Rest
<1>6. CASE ReceiveNew
    <2>1. /\ FreshBytes /\ pipe[1].last > client.offset /\ pipe[1].last \in Nat
          /\ client'.offset = pipe[1].last /\ backlog' = backlog
        BY <1>6, ReceiveNewEffect, ShownNew DEF Now, Taken, Event
    <2> DEFINE more == pipe[1].last - client.offset
    <2>2. /\ more \in Nat /\ DOMAIN shown' = 1 .. Len(shown) + more
          /\ \A k \in 1 .. Len(shown) : shown'[k] = shown[k]
          /\ \A k \in 1 .. more : shown'[Len(shown) + k] = client.offset + k
          /\ pipe[1].last = client.offset + more
        BY <1>0, <2>1 DEF FreshBytes
    <2> HIDE DEF more
    <2>3. \A i \in 1 .. Len(shown) + more : i \in 1 .. Len(shown) \/
              \E k \in 1 .. more : i = Len(shown) + k
        <3>1. ASSUME NEW i \in 1 .. Len(shown) + more, i \notin 1 .. Len(shown)
              PROVE  i - Len(shown) \in 1 .. more /\ i = Len(shown) + (i - Len(shown))
            BY <1>0, <2>2, <3>1
        <3>2. QED
            BY <3>1
    <2>4. ShownOnceInOrder'
        <3>1. SUFFICES ASSUME NEW i \in DOMAIN shown', NEW j \in DOMAIN shown', i < j
                       PROVE  shown'[i] < shown'[j]
            BY DEF ShownOnceInOrder
        <3>2. CASE i \in 1 .. Len(shown) /\ j \in 1 .. Len(shown)
            BY <1>0, <2>2, <3>1, <3>2 DEF ShownFaithfully, ShownOnceInOrder
        <3>3. CASE i \in 1 .. Len(shown) /\ \E k \in 1 .. more : j = Len(shown) + k
            <4>1. PICK k \in 1 .. more : j = Len(shown) + k
                BY <3>3
            <4>2. shown'[i] <= client.offset /\ shown'[i] \in Nat /\ shown'[j] = client.offset + k
                BY <1>0, <2>2, <3>3, <4>1 DEF ClientInv
            <4>3. QED
                BY <1>0, <2>2, <4>2
        <3>4. CASE /\ \E k \in 1 .. more : i = Len(shown) + k
                   /\ \E k \in 1 .. more : j = Len(shown) + k
            <4>1. PICK k \in 1 .. more : i = Len(shown) + k
                BY <3>4
            <4>2. PICK l \in 1 .. more : j = Len(shown) + l
                BY <3>4
            <4>3. k < l /\ shown'[i] = client.offset + k /\ shown'[j] = client.offset + l
                BY <1>0, <2>2, <3>1, <4>1, <4>2
            <4>4. QED
                BY <1>0, <2>2, <4>3
        <3>5. CASE j \in 1 .. Len(shown) /\ \E k \in 1 .. more : i = Len(shown) + k
            BY <1>0, <2>2, <3>1, <3>5
        <3>6. QED
            BY <2>2, <2>3, <3>2, <3>3, <3>4, <3>5
    <2>5. SkippedOnlyIfDropped'
        <3>1. SUFFICES ASSUME NEW b \in 1 .. client.offset + more
                       PROVE  b <= backlog'.start \/ \E i \in DOMAIN shown' : shown'[i] = b
            BY <2>1, <2>2 DEF SkippedOnlyIfDropped
        <3>2. CASE b <= client.offset
            <4>1. b <= backlog.start \/ \E i \in 1 .. Len(shown) : shown[i] = b
                BY <1>0, <2>2, <3>2 DEF ShownFaithfully, SkippedOnlyIfDropped
            <4>2. 1 .. Len(shown) \subseteq DOMAIN shown'
                BY <1>0, <2>2
            <4>3. QED
                BY <2>1, <2>2, <4>1, <4>2
        <3>3. CASE b > client.offset
            <4>1. b - client.offset \in 1 .. more /\ client.offset + (b - client.offset) = b
                BY <1>0, <2>2, <3>3
            <4>2. /\ shown'[Len(shown) + (b - client.offset)] = b
                  /\ Len(shown) + (b - client.offset) \in DOMAIN shown'
                <5>1. shown'[Len(shown) + (b - client.offset)]
                      = client.offset + (b - client.offset)
                    BY <2>2, <4>1
                <5>2. Len(shown) + (b - client.offset) \in DOMAIN shown'
                    BY <1>0, <2>2, <4>1
                <5>3. QED
                    BY <4>1, <5>1, <5>2
            <4>3. QED
                BY <4>2
        <3>4. QED
            BY <1>0, <2>2, <3>2, <3>3
    <2>6. QED
        BY <2>4, <2>5 DEF ShownFaithfully
<1>7. CASE ReceiveExit \/ ReceiveLagged
    BY <1>0, <1>1, <1>7, ReceiveExitEffect, ReceiveLaggedEffect DEF Now, Rest
<1>8. CASE StreamEnds \/ Breaks
    BY <1>0, <1>1, <1>8, StreamEndsEffect, BreaksEffect DEF Disconnected, ptyVars
<1>9. CASE Reopen
    <2>1. UNCHANGED <<shown, backlog>> /\ client'.offset = client.offset
        BY <1>9 DEF Reopen, TypeOK, ptyVars
    <2>2. QED
        BY <1>0, <1>1, <2>1
<1>10. CASE UNCHANGED vars
    BY <1>0, <1>1, <1>10 DEF vars, ptyVars
<1>11. QED
    BY <1>2, <1>3, <1>4, <1>5, <1>6, <1>7, <1>8, <1>9, <1>10 DEF Next, Receive, Read

--------------------------------------------------------------------------------
\* Theorems

\* Types, the account of what was sent, and what was shown, together.
OutputInv == TypeOK /\ LiveInv /\ TaskInv /\ PipeInv /\ ClientInv /\ ShownFaithfully

\* Nothing has been read, sent or shown at first.
LEMMA OutputInit == Init => OutputInv
<1> SUFFICES ASSUME Init PROVE OutputInv
    OBVIOUS
<1>1. TypeOK
    <2>1. PtyTypes
        <3>1. exited \in BOOLEAN
            BY DEF Init
        <3>2. QED
            BY <3>1 DEF Init, PtyTypes
    <2>2. TaskType
        BY DEF Init, TaskType, NoTask, TaskPhases
    <2>3. PipeType
        BY CapsAssumption DEF Init, PipeType
    <2>4. ClientType
        BY DEF Init, ClientType, ClientStates
    <2>5. shown \in Seq(Nat) /\ breaks \in 0 .. MaxBreaks
        BY BoundsAssumption DEF Init
    <2>6. QED
        BY <2>1, <2>2, <2>3, <2>4, <2>5, TypeParts
<1>2. Len(live) = 0 /\ Len(pipe) = 0 /\ Len(shown) = 0 /\ DOMAIN shown = {}
    BY DEF Init
<1>3. LiveInv
    BY <1>2 DEF Init, LiveInv, Chunks, Upto
<1>4. TaskInv
    BY DEF Init, NoTask, TaskInv, Serving
<1>5. PipeInv /\ ClientInv
    BY <1>2 DEF Init, NoTask, PipeInv, ClientInv
<1>6. ShownFaithfully
    BY <1>2 DEF Init, ShownFaithfully, ShownOnceInOrder, SkippedOnlyIfDropped
<1>7. QED
    BY <1>1, <1>3, <1>4, <1>5, <1>6 DEF OutputInv

\* The invariant holds in every reachable state.
THEOREM Output == Spec => []OutputInv
<1>1. OutputInv /\ [Next]_vars => OutputInv'
    BY TypeStep, LiveStep, TaskStep, PipeStep, ClientStep, ShownStep DEF OutputInv
<1>2. QED
    BY <1>1, OutputInit, PTL DEF Spec

\* Offsets stay natural and the pipe within its capacity.
THEOREM TypeCorrect == Spec => []TypeOK
<1>1. OutputInv => TypeOK
    BY DEF OutputInv
<1>2. QED
    BY <1>1, Output, PTL

\* The screen is the shell's output: every byte once and in order, but for those that had
\* left the backlog, whatever overflows and however often the connection breaks.
THEOREM ScreenIsFaithful == Spec => []ShownFaithfully
<1>1. OutputInv => ShownFaithfully
    BY DEF OutputInv
<1>2. QED
    BY <1>1, Output, PTL

--------------------------------------------------------------------------------
(* TerminalManager. *)

\* The initial states of the store, with no terminal, satisfy the invariant.
LEMMA InitInv == ManagerInit => ShellInv
  BY NoSessionAssumption DEF ManagerInit, ShellInv, ManagerTypeOK, StagesAgree, AdmittedIsSafe,
     NoShellOutlivesSession, NoShellAfterShutdown, Free, Idle

\* Spawning is the step that could start an orphan: the admitted session is neither
\* archived nor deleted, and a closing workspace has set its tombstone or will come.
LEMMA SpawnKeeps == ASSUME ShellInv, Spawn PROVE ShellInv'
  <1> USE NoSessionAssumption
  <1> DEFINE s == admission.session
  <1>0. PICK t \in Unused :
          /\ admission.op \in {"create", "open"} /\ MayOpen(s)
          /\ owner' = [owner EXCEPT ![t] = s] /\ terms' = terms \cup {t}
          /\ alive' = alive \cup {t} /\ admission' = Free
          /\ UNCHANGED <<storeVars, deleting, lifecycle, killing, tombs, stopping>>
    BY DEF Spawn
  <1>1. /\ t \in Terminals /\ owner[t] = NoSession /\ stopping = "no" /\ s \notin tombs
        /\ s \in Sessions \ (deleted \cup archived) /\ (closed => BeingClosed(s))
    BY <1>0 DEF Unused, MayOpen, ShellInv, AdmittedIsSafe
  <1>2. ManagerTypeOK'
    BY <1>0, <1>1 DEF ShellInv, ManagerTypeOK, Free, storeVars
  <1>3. StagesAgree'
    BY <1>0, <1>1 DEF ShellInv, ManagerTypeOK, StagesAgree, Free, storeVars
  <1>4. AdmittedIsSafe'
    BY <1>0 DEF AdmittedIsSafe, Free
  <1>5. NoShellOutlivesSession'
    <2> SUFFICES ASSUME NEW u \in alive' PROVE MayRun(owner[u])'
      BY DEF NoShellOutlivesSession
    <2>1. CASE u = t
      <3>1. owner'[u] = s
        BY <2>1, <1>0, <1>1 DEF ShellInv, ManagerTypeOK
      <3> QED
        BY <3>1, <1>0, <1>1 DEF MayRun, BeingClosed, storeVars
    <2>2. CASE u # t
      <3>1. u \in alive /\ owner'[u] = owner[u]
        BY <2>2, <1>0, <1>1 DEF ShellInv, ManagerTypeOK
      <3>2. MayRun(owner[u]) /\ owner[u] \notin archived
        BY <3>1, <1>0 DEF ShellInv, NoShellOutlivesSession, MayRun, BeingArchived
      <3> QED
        BY <3>1, <3>2, <1>0 DEF MayRun, BeingDeleted, BeingClosed, storeVars
    <2> QED
      BY <2>1, <2>2
  <1>6. NoShellAfterShutdown'
    BY <1>0, <1>1 DEF NoShellAfterShutdown
  <1> QED
    BY <1>2, <1>3, <1>4, <1>5, <1>6 DEF ShellInv

\* Every other step keeps the invariant too: admission checks what AdmittedIsSafe
\* says, and whoever ends a session holds it "being" ended until its shells are gone.
LEMMA StepKeeps == ASSUME ShellInv, [ManagerNext]_shellVars PROVE ShellInv'
  <1> USE NoSessionAssumption
      DEF ShellInv, ManagerTypeOK, StagesAgree, AdmittedIsSafe, NoShellOutlivesSession, MayRun,
          BeingArchived, BeingDeleted, BeingClosed, NoShellAfterShutdown,
          Free, Idle, storeVars, opVars, managerVars
  <1>1. CASE Spawn
    BY <1>1, SpawnKeeps
  <1>2. CASE NoSpawn
    BY <1>2 DEF NoSpawn
  <1>3. CASE UpdateTerminals
    BY <1>3 DEF UpdateTerminals, RemoveSession, ReopenSession, RemoveAll, Of
  <1>4. ASSUME NEW s \in Sessions, OnSession(s) PROVE ShellInv'
    <2>1. CASE CreateTerminal(s) \/ OpenTerminal(s)
      BY <2>1 DEF CreateTerminal, OpenTerminal, Admit
    <2>2. CASE Archive(s)
      BY <2>2 DEF Archive
    <2>3. CASE Unarchive(s)
      BY <2>3 DEF Unarchive
    <2>4. CASE DeleteMark(s)
      BY <2>4 DEF DeleteMark
    <2>5. CASE DeleteGivesUp(s)
      BY <2>5 DEF DeleteGivesUp
    <2>6. CASE DeleteCommit(s)
      BY <2>6 DEF DeleteCommit
    <2>7. CASE DeleteTerminals(s)
      BY <2>7 DEF DeleteTerminals, RemoveSession, RemoveAll, Of
    <2>8. CASE DeleteEnds(s)
      BY <2>8 DEF DeleteEnds
    <2>9. CASE EachSession(s)
      BY <2>9 DEF EachSession, RemoveSession, ReopenSession, RemoveAll, Of
    <2> QED
      BY <1>4, <2>1, <2>2, <2>3, <2>4, <2>5, <2>6, <2>7, <2>8, <2>9 DEF OnSession
  <1>5. ASSUME NEW t \in Terminals, ShellExits(t) \/ KillAdmit(t) \/ Kill(t)
        PROVE ShellInv'
    BY <1>5 DEF ShellExits, KillAdmit, Kill, RemoveAll
  <1>6. CASE CloseWorkspace
    BY <1>6 DEF CloseWorkspace
  <1>7. CASE RegisterWorkspace
    BY <1>7 DEF RegisterWorkspace
  <1>8. CASE ListSessions
    BY <1>8 DEF ListSessions
  <1>9. CASE LifecycleEnds
    BY <1>9 DEF LifecycleEnds
  <1>10. CASE ShutdownFlag
    BY <1>10 DEF ShutdownFlag
  <1>11. CASE ShutdownKill
    BY <1>11 DEF ShutdownKill, RemoveAll
  <1>12. CASE UNCHANGED shellVars
    BY <1>12 DEF shellVars
  <1> HIDE DEF ShellInv
  <1> QED
    BY <1>1, <1>2, <1>3, <1>4, <1>5, <1>6, <1>7, <1>8, <1>9, <1>10, <1>11, <1>12 DEF ManagerNext

\* The inductive invariant holds in every state of every execution.
THEOREM ShellInvariant == ManagerSpec => []ShellInv
  <1>1. ShellInv /\ [ManagerNext]_shellVars => ShellInv'
    BY StepKeeps
  <1> QED
    BY InitInv, <1>1, PTL DEF ManagerSpec

\* Once archiving, deletion or the closing of the workspace has got to a session none
\* of its shells runs, whatever was admitted before (TerminalManager::remove_session).
THEOREM ShellsEndWithSession == ManagerSpec => []NoShellOutlivesSession
  <1>1. ShellInv => NoShellOutlivesSession
    BY DEF ShellInv
  <1> QED
    BY ShellInvariant, <1>1, PTL

\* No shell runs once shutdown has returned (TerminalManager::shutdown).
THEOREM ShellsEndWithShutdown == ManagerSpec => []NoShellAfterShutdown
  <1>1. ShellInv => NoShellAfterShutdown
    BY DEF ShellInv
  <1> QED
    BY ShellInvariant, <1>1, PTL

\* Both: whatever ends the sessions ends their shells.
THEOREM ShellsDoEnd == ManagerSpec => []ShellsEnd
  <1>1. ShellInv => ShellsEnd
    BY DEF ShellInv, ShellsEnd
  <1> QED
    BY ShellInvariant, <1>1, PTL

\* Every variable keeps its type.
THEOREM ManagerTypeCorrect == ManagerSpec => []ManagerTypeOK
  <1>1. ShellInv => ManagerTypeOK
    BY DEF ShellInv
  <1> QED
    BY ShellInvariant, <1>1, PTL

--------------------------------------------------------------------------------
\* Tombstones

\* Why a session is refused terminals, or what is about to let it have them again.
Refused(s) ==
    \/ s \in archived \/ s \in deleted \/ closed
    \/ lifecycle.op = "opening" \/ (lifecycle.op = "open" /\ s \in lifecycle.todo)
    \/ admission = [op |-> "unarchive", session |-> s]

\* Every tombstone has its reason.  Archiving writes the store before the tombstone.
TombInv == /\ \A s \in tombs : Refused(s)
           /\ admission.op = "archive" => admission.session \in archived

\* A step that sets no tombstone and ends no session's refusal.
LEMMA TombFrame ==
    ASSUME TombInv, tombs' \subseteq tombs, archived \subseteq archived', deleted \subseteq deleted',
           closed' = closed, lifecycle' = lifecycle,
           admission' = admission \/ (admission.op \notin {"archive", "unarchive"}
                                      /\ admission'.op \notin {"archive", "unarchive"})
    PROVE  TombInv'
  <1>1. ASSUME NEW s \in tombs' PROVE Refused(s)'
    <2>1. Refused(s)
      BY <1>1 DEF TombInv
    <2>2. admission = [op |-> "unarchive", session |-> s] => admission' = admission
      OBVIOUS
    <2> QED
      BY <2>1, <2>2 DEF Refused
  <1>2. admission'.op = "archive" => admission'.session \in archived'
    BY DEF TombInv
  <1> QED
    BY <1>1, <1>2 DEF TombInv

\* Whoever sets a tombstone has made the session unavailable first, and whoever makes
\* it available again removes the tombstone before its operation ends.
LEMMA TombStep == ASSUME ShellInv, TombInv, [ManagerNext]_shellVars PROVE TombInv'
  <1>1. CASE Spawn \/ NoSpawn
    <2>1. /\ tombs' = tombs /\ archived' = archived /\ deleted' = deleted /\ closed' = closed
          /\ lifecycle' = lifecycle /\ admission.op \in {"create", "open"} /\ admission'.op = "none"
      BY <1>1 DEF Spawn, NoSpawn, storeVars, managerVars, Free
    <2> QED
      BY <2>1, TombFrame
  <1>2. CASE UpdateTerminals
    <2>1. /\ UNCHANGED <<archived, deleted, closed, lifecycle>> /\ admission'.op = "none"
      BY <1>2 DEF UpdateTerminals, storeVars, Free
    <2>2. \/ admission.op = "archive" /\ tombs' = tombs \cup {admission.session}
          \/ admission.op = "unarchive" /\ tombs' = tombs \ {admission.session}
      BY <1>2 DEF UpdateTerminals, RemoveSession, ReopenSession
    <2>3. ASSUME NEW s \in tombs' PROVE Refused(s)'
      <3>1. CASE s \in tombs /\ admission # [op |-> "unarchive", session |-> s]
        BY <2>1, <3>1 DEF TombInv, Refused
      <3>2. CASE s = admission.session /\ admission.op = "archive"
        BY <2>1, <3>2 DEF TombInv, Refused
      <3> QED
        BY <2>2, <2>3, <3>1, <3>2
    <2> QED
      BY <2>1, <2>3 DEF TombInv
  <1>3. ASSUME NEW s \in Sessions, OnSession(s) PROVE TombInv'
    <2>1. CASE CreateTerminal(s) \/ OpenTerminal(s)
      <3>1. /\ UNCHANGED <<tombs, archived, deleted, closed, lifecycle>>
            /\ admission = Free /\ admission'.op \in {"create", "open"}
        BY <2>1 DEF CreateTerminal, OpenTerminal, Admit, storeVars, managerVars
      <3> QED
        BY <3>1, TombFrame DEF Free
    <2>2. CASE Archive(s)
      BY <2>2 DEF Archive, TombInv, Refused, managerVars, Free
    <2>3. CASE Unarchive(s)
      BY <2>3 DEF Unarchive, TombInv, Refused, managerVars, Free
    <2>4. CASE DeleteMark(s) \/ DeleteGivesUp(s) \/ DeleteCommit(s) \/ DeleteEnds(s)
      <3>1. /\ UNCHANGED <<tombs, archived, closed, lifecycle, admission>>
            /\ deleted \subseteq deleted'
        BY <2>4 DEF DeleteMark, DeleteGivesUp, DeleteCommit, DeleteEnds, storeVars, managerVars
      <3> QED
        BY <3>1, TombFrame
    <2>5. CASE DeleteTerminals(s)
      <3>1. /\ UNCHANGED <<archived, deleted, closed, lifecycle, admission>>
            /\ tombs' = tombs \cup {s} /\ s \in deleted
        BY <2>5 DEF DeleteTerminals, RemoveSession, storeVars, ShellInv, StagesAgree
      <3> QED
        BY <3>1 DEF TombInv, Refused
    <2>6. CASE EachSession(s)
      <3>1. /\ UNCHANGED <<archived, deleted, closed, admission>> /\ s \in lifecycle.todo
            /\ lifecycle'.op = lifecycle.op /\ lifecycle'.todo = lifecycle.todo \ {s}
            /\ \/ lifecycle.op = "close" /\ tombs' = tombs \cup {s} /\ closed
               \/ lifecycle.op = "open" /\ tombs' = tombs \ {s}
        BY <2>6 DEF EachSession, RemoveSession, ReopenSession, storeVars, ShellInv, ManagerTypeOK, StagesAgree
      <3> QED
        BY <3>1 DEF TombInv, Refused
    <2> QED
      BY <1>3, <2>1, <2>2, <2>3, <2>4, <2>5, <2>6 DEF OnSession
  <1>4. ASSUME NEW t \in Terminals, ShellExits(t) \/ KillAdmit(t) \/ Kill(t)
        PROVE TombInv'
    <2>1. UNCHANGED <<tombs, archived, deleted, closed, lifecycle, admission>>
      BY <1>4 DEF ShellExits, KillAdmit, Kill, storeVars, opVars, managerVars
    <2> QED
      BY <2>1, TombFrame
  <1>5. CASE CloseWorkspace \/ RegisterWorkspace
    <2>1. /\ UNCHANGED <<tombs, archived, deleted, admission>>
          /\ closed' \/ lifecycle'.op = "opening"
      BY <1>5 DEF CloseWorkspace, RegisterWorkspace, managerVars
    <2> QED
      BY <2>1 DEF TombInv, Refused
  <1>6. CASE ListSessions
    <2>1. /\ UNCHANGED <<tombs, archived, deleted, closed, admission>> /\ tombs \subseteq Sessions
          /\ \/ lifecycle.op = "closing" /\ closed
             \/ /\ lifecycle.op = "opening" /\ lifecycle'.op = "open"
                /\ lifecycle'.todo = Sessions \ (deleted \cup archived)
      BY <1>6 DEF ListSessions, storeVars, managerVars, ShellInv, ManagerTypeOK, StagesAgree
    <2> QED
      BY <2>1 DEF TombInv, Refused
  <1>7. CASE LifecycleEnds
    <2>1. /\ UNCHANGED <<tombs, archived, deleted, closed, admission>>
          /\ lifecycle.op # "opening" /\ lifecycle.todo = {}
      BY <1>7 DEF LifecycleEnds, storeVars, managerVars
    <2> QED
      BY <2>1 DEF TombInv, Refused
  <1>8. CASE ShutdownFlag \/ ShutdownKill \/ UNCHANGED shellVars
    <2>1. /\ UNCHANGED <<archived, deleted, closed, lifecycle, admission>> /\ tombs' \subseteq tombs
      BY <1>8 DEF ShutdownFlag, ShutdownKill, shellVars, storeVars, opVars, managerVars
    <2> QED
      BY <2>1, TombFrame
  <1> QED
    BY <1>1, <1>2, <1>3, <1>4, <1>5, <1>6, <1>7, <1>8 DEF ManagerNext

\* A session that may have terminals is not refused them: no tombstone is left behind
\* by an archiving, a deletion or a closing that is over (closed_sessions).
THEOREM NoTombstoneIsForgotten == ManagerSpec => []AvailableIsOpen
  <1>1. ManagerInit => TombInv
    BY DEF ManagerInit, TombInv, Free
  <1>2. ShellInv /\ TombInv /\ [ManagerNext]_shellVars => TombInv'
    BY TombStep
  <1>3. TombInv => AvailableIsOpen
    <2> SUFFICES ASSUME TombInv, NEW s \in Sessions, s \notin archived \cup deleted, ~closed,
                        lifecycle = Idle, admission = Free
                 PROVE  s \notin tombs
      BY DEF AvailableIsOpen
    <2>1. lifecycle.op = "none" /\ admission.op = "none"
      BY DEF Idle, Free
    <2>2. admission # [op |-> "unarchive", session |-> s]
      BY <2>1
    <2> QED
      BY <2>1, <2>2 DEF TombInv, Refused
  <1> QED
    BY ShellInvariant, <1>1, <1>2, <1>3, PTL DEF ManagerSpec

===============================================================================
