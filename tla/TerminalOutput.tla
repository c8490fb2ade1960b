----------------------------- MODULE TerminalOutput -----------------------------
(***************************************************************************)
(* The output of one integrated terminal on its way to a client: the PTY   *)
(* reader thread with its capped backlog and broadcast channel             *)
(* (trouve-core terminal.rs), the SSE task of one connection               *)
(* (trouve-server terminal_output) and the client's resuming stream        *)
(* (app-ui terminal-output-stream.ts).                                     *)
(*                                                                         *)
(* The byte at absolute offset n is the number n, so a frame is the range  *)
(* of bytes it really carries next to the offset it claims.                *)
(***************************************************************************)
EXTENDS Integers, Sequences

CONSTANTS
    BacklogCap,   \* BACKLOG_CAP
    LiveCap,      \* capacity of the broadcast channel
    PipeCap,      \* capacity of the SSE task's channel
    MaxChunk,     \* bytes one read returns at most
    MaxBytes,     \* bound: bytes the shell writes
    MaxBreaks     \* bound: connections that break

ASSUME CapsAssumption == /\ BacklogCap \in Nat \ {0} /\ LiveCap \in Nat \ {0}
                         /\ PipeCap \in Nat \ {0} /\ MaxChunk \in Nat \ {0}
ASSUME BoundsAssumption == MaxBytes \in Nat /\ MaxBreaks \in Nat

VARIABLES
    backlog,   \* [start, end]: the retained bytes are start + 1 .. end
    live,      \* what was broadcast: the end offset of each chunk, EOF last
    reader,    \* the reader thread
    exited,    \* Terminal::exited
    task,      \* the SSE task of the connection
    pipe,      \* events between the task and the client
    client,    \* TerminalOutputStream
    shown,     \* the bytes it handed to onData, in order
    breaks     \* connections that may still break

ptyVars == <<backlog, live, reader, exited>>
vars == <<ptyVars, task, pipe, client, shown, breaks>>

EOF == 0
None == -1
Bytes(from, to) == [i \in 1 .. (to - from) |-> from + i]

NoTask == [at |-> "none", from |-> 0, to |-> 0, seen |-> 0, offset |-> 0, over |-> FALSE]
TaskPhases == {"none", "subscribed", "marker", "replay", "known", "live", "ended"}
ClientStates == {"connecting", "open", "reconnecting", "waiting", "exited"}

Init ==
    /\ backlog = [start |-> 0, end |-> 0] /\ live = <<>>
    /\ reader = "reading" /\ exited = FALSE
    /\ task = NoTask /\ pipe = <<>>
    /\ client = [state |-> "connecting", url |-> 0, offset |-> 0, next |-> None]
    /\ shown = <<>> /\ breaks = MaxBreaks

-------------------------------------------------------------------------------
(* The reader thread. *)

\* Append, trim and broadcast under the backlog lock.
ReadChunk == \E n \in 1 .. MaxChunk :
    LET end == backlog.end + n IN
    /\ reader = "reading" /\ end <= MaxBytes
    /\ backlog' = [end |-> end,
                   start |-> IF end - backlog.start > BacklogCap THEN end - BacklogCap
                             ELSE backlog.start]
    /\ live' = Append(live, end)
    /\ UNCHANGED <<reader, exited, task, pipe, client, shown, breaks>>

\* End of file: the flag first, the empty chunk after it.
ReadEnds ==
    /\ reader = "reading" /\ reader' = "ending" /\ exited' = TRUE
    /\ UNCHANGED <<backlog, live, task, pipe, client, shown, breaks>>

\* Mutant: nobody is told.
EndQuietly ==
    /\ reader = "ending" /\ reader' = "done"
    /\ UNCHANGED <<backlog, live, exited, task, pipe, client, shown, breaks>>

SendSentinel ==
    /\ reader = "ending" /\ reader' = "done" /\ live' = Append(live, EOF)
    /\ UNCHANGED <<backlog, exited, task, pipe, client, shown, breaks>>

-------------------------------------------------------------------------------
(* The connection: terminal_subscribe and the task of terminal_output. *)

Clamp(n, low, high) == IF n < low THEN low ELSE IF n > high THEN high ELSE n

Connecting == client.state \in {"connecting", "reconnecting"} /\ task.at = "none"

\* Mutant: the receiver is opened before the last chunk, the backlog read after it.
SubscribeEarly ==
    LET from == Clamp(client.url, backlog.start, backlog.end) IN
    /\ Connecting
    /\ task' = [NoTask EXCEPT !.at = "subscribed", !.from = from, !.to = backlog.end,
                              !.seen = IF live = <<>> THEN 0 ELSE Len(live) - 1,
                              !.offset = from]
    /\ UNCHANGED <<ptyVars, pipe, client, shown, breaks>>

\* Terminal::subscribe: receiver and snapshot under the backlog lock.
Subscribe ==
    LET from == Clamp(client.url, backlog.start, backlog.end) IN
    /\ Connecting
    /\ task' = [NoTask EXCEPT !.at = "subscribed", !.from = from, !.to = backlog.end,
                              !.seen = Len(live), !.offset = from]
    /\ UNCHANGED <<ptyVars, pipe, client, shown, breaks>>

\* Terminal::exited, read once the lock is gone.
ReadExited ==
    /\ task.at = "subscribed"
    /\ task' = [task EXCEPT !.at = "marker", !.over = exited]
    /\ UNCHANGED <<ptyVars, pipe, client, shown, breaks>>

\* tx.send waits for room in the pipe.
Send(event, after) ==
    /\ Len(pipe) < PipeCap /\ pipe' = Append(pipe, event) /\ task' = after
    /\ UNCHANGED <<ptyVars, client, shown, breaks>>

Frame(offset, first, last) == [kind |-> "data", id |-> offset + (last - first),
                               first |-> first, last |-> last]
Signal(kind, offset) == [kind |-> kind, id |-> offset, first |-> 0, last |-> 0]

SendMarker ==
    /\ task.at = "marker"
    /\ Send(Signal("replay-start", task.from),
            [task EXCEPT !.at = IF task.to > task.from THEN "replay" ELSE "known"])

SendReplay ==
    /\ task.at = "replay"
    /\ Send(Frame(task.offset, task.from, task.to),
            [task EXCEPT !.at = "known", !.offset = task.to])

\* The flag read at subscription decides whether the task follows the channel.
ExitKnown ==
    /\ task.at = "known" /\ task.over
    /\ Send(Signal("exit", 0), [task EXCEPT !.at = "ended"])

Follow ==
    /\ task.at = "known" /\ ~task.over /\ task' = [task EXCEPT !.at = "live"]
    /\ UNCHANGED <<ptyVars, pipe, client, shown, breaks>>

Lagged == Len(live) - task.seen > LiveCap

ChunkStart(i) == IF i = 1 THEN 0 ELSE live[i - 1]

RelayChunk ==
    LET i == task.seen + 1 IN
    /\ task.at = "live" /\ i <= Len(live) /\ ~Lagged /\ live[i] # EOF
    /\ Send(Frame(task.offset, ChunkStart(i), live[i]),
            [task EXCEPT !.seen = i, !.offset = @ + (live[i] - ChunkStart(i))])

RelayExit ==
    LET i == task.seen + 1 IN
    /\ task.at = "live" /\ i <= Len(live) /\ ~Lagged /\ live[i] = EOF
    /\ Send(Signal("exit", 0), [task EXCEPT !.at = "ended"])

\* Chunks were overwritten before the task read them: it gives the connection up.
RelayLagged ==
    /\ task.at = "live" /\ Lagged
    /\ Send(Signal("lagged", 0), [task EXCEPT !.at = "ended"])

-------------------------------------------------------------------------------
(* The client: TerminalOutputStream over an EventSource. *)

Take == /\ pipe # <<>> /\ pipe' = Tail(pipe) /\ client.state \notin {"waiting", "exited"}

\* #scheduleReconnect: the source is closed; whatever it still holds is not heard.
Drop(c) == /\ client' = [c EXCEPT !.state = "waiting", !.next = None]
           /\ pipe' = <<>> /\ task' = NoTask

\* #receiveReplayStart: a start beyond the offset means that bytes left the backlog.
ReceiveReplayStart ==
    /\ Take /\ Head(pipe).kind = "replay-start"
    /\ client' = [client EXCEPT !.state = "open", !.next = Head(pipe).id,
                                !.offset = IF @ < Head(pipe).id THEN Head(pipe).id ELSE @]
    /\ UNCHANGED <<ptyVars, task, shown, breaks>>

\* The frame #receive takes next, and what it makes of it.
Length(f) == f.last - f.first
FrameOffset == IF client.next = None THEN client.offset ELSE client.next
Seen(f) == f.id <= client.offset /\ client.next \in {None, client.offset}
Contiguous(f) == f.id = FrameOffset + Length(f) /\ FrameOffset <= client.offset

ReceiveKnown ==
    /\ Take /\ Head(pipe).kind = "data" /\ Head(pipe).id <= client.offset
    /\ Seen(Head(pipe)) \/ Contiguous(Head(pipe))
    /\ client' = [client EXCEPT !.next = IF Seen(Head(pipe)) THEN @ ELSE Head(pipe).id]
    /\ UNCHANGED <<ptyVars, task, shown, breaks>>

ReceiveNew ==
    LET f == Head(pipe)
        overlap == client.offset - FrameOffset
    IN
    /\ Take /\ f.kind = "data" /\ f.id > client.offset /\ Contiguous(f)
    /\ client' = [client EXCEPT !.offset = f.id, !.next = f.id]
    /\ shown' = shown \o Bytes(f.first + overlap, f.last)
    /\ UNCHANGED <<ptyVars, task, breaks>>

ReceiveExit ==
    /\ Take /\ Head(pipe).kind = "exit"
    /\ client' = [client EXCEPT !.state = "exited"]
    /\ UNCHANGED <<ptyVars, task, shown, breaks>>

\* Nobody listens to "lagged"; the end of the stream that follows it is what counts.
ReceiveLagged ==
    /\ Take /\ Head(pipe).kind = "lagged"
    /\ UNCHANGED <<ptyVars, task, client, shown, breaks>>

\* The stream is over: the EventSource connects again by itself, to the same URL.
StreamEnds ==
    /\ task.at = "ended" /\ pipe = <<>> /\ client.state = "open"
    /\ task' = NoTask /\ client' = [client EXCEPT !.state = "reconnecting"]
    /\ UNCHANGED <<ptyVars, pipe, shown, breaks>>

\* The connection breaks at any point and what was under way is lost.
Breaks ==
    /\ breaks > 0 /\ breaks' = breaks - 1 /\ task.at # "none"
    /\ client.state \in {"connecting", "open", "reconnecting"}
    /\ \/ /\ task' = NoTask /\ pipe' = <<>>
          /\ client' = [client EXCEPT !.state = "reconnecting"]
       \/ Drop(client)
    /\ UNCHANGED <<ptyVars, shown>>

\* #open after the delay: a new source, from the last good offset.
Reopen ==
    /\ client.state = "waiting"
    /\ client' = [client EXCEPT !.state = "reconnecting", !.url = client.offset]
    /\ UNCHANGED <<ptyVars, task, pipe, shown, breaks>>

-------------------------------------------------------------------------------
Serve == \/ Subscribe \/ ReadExited \/ SendMarker \/ SendReplay \/ ExitKnown \/ Follow
         \/ RelayChunk \/ RelayExit \/ RelayLagged
Receive == \/ ReceiveReplayStart \/ ReceiveKnown \/ ReceiveNew \/ ReceiveExit
           \/ ReceiveLagged \/ StreamEnds \/ Reopen
Next == ReadChunk \/ ReadEnds \/ SendSentinel \/ Serve \/ Receive \/ Breaks

Spec == Init /\ [][Next]_vars
\* The reader thread, the SSE task and the client run; the shell need not write or exit.
FairSpec == Spec /\ WF_vars(SendSentinel) /\ WF_vars(Serve) /\ WF_vars(Receive)

-------------------------------------------------------------------------------
(* Properties. *)

TypeOK ==
    /\ backlog \in [start : Nat, end : Nat] /\ backlog.start <= backlog.end
    /\ live \in Seq(Nat) /\ reader \in {"reading", "ending", "done"} /\ exited \in BOOLEAN
    /\ task \in [at : TaskPhases, from : Nat, to : Nat, seen : Nat, offset : Nat,
                 over : BOOLEAN]
    /\ pipe \in Seq([kind : {"replay-start", "data", "exit", "lagged"}, id : Nat,
                     first : Nat, last : Nat]) /\ Len(pipe) <= PipeCap
    /\ client \in [state : ClientStates, url : Nat, offset : Nat, next : Nat \cup {None}]
    /\ shown \in Seq(Nat) /\ breaks \in 0 .. MaxBreaks

\* No byte of the shell's output is shown twice or after a later one, across replays,
\* reconnections and receivers that fall behind (terminal.rs: a chunk is in exactly
\* one of the replay and the live stream).
ShownOnceInOrder == \A i, j \in DOMAIN shown : i < j => shown[i] < shown[j]

\* A byte below the client's offset that was never shown has left the backlog: the
\* client is never moved past output it could still have had.
SkippedOnlyIfDropped ==
    \A b \in 1 .. client.offset : b <= backlog.start \/ \E i \in DOMAIN shown : shown[i] = b

\* What the client has shown is the shell's output: every byte once and in order,
\* but for those the backlog had dropped before the client could have them.
ShownFaithfully == ShownOnceInOrder /\ SkippedOnlyIfDropped

\* Once the shell has exited the client learns of it.
ExitReachesClient == exited ~> client.state = "exited"

===============================================================================
