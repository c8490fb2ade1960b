-------------------------- MODULE EventFollowerProofs --------------------------
(***************************************************************************)
(* Proofs about EventFollower, for any number of scopes, followers, rows   *)
(* and channel capacities: the delivery invariant, and that the follower   *)
(* implements EventStream.                                                 *)
(***************************************************************************)
EXTENDS EventFollower, SequenceTheorems, TLAPS

--------------------------------------------------------------------------------
\* Sequences

\* What Append does to a sequence.
LEMMA AppendFacts ==
    ASSUME NEW S, NEW q \in Seq(S), NEW x \in S
    PROVE  /\ Append(q, x) \in Seq(S)
           /\ Len(Append(q, x)) = Len(q) + 1
           /\ \A i \in 1..Len(q) : Append(q, x)[i] = q[i]
           /\ Append(q, x)[Len(q) + 1] = x
  OBVIOUS

\* What Tail does to a sequence.
LEMMA TailFacts ==
    ASSUME NEW S, NEW q \in Seq(S), q # <<>>
    PROVE  /\ Tail(q) \in Seq(S)
           /\ Len(Tail(q)) = Len(q) - 1
           /\ \A i \in 1..(Len(q) - 1) : Tail(q)[i] = q[i + 1]
           /\ Head(q) = q[1] /\ Head(q) \in S /\ Len(q) >= 1
  OBVIOUS

\* Dropping the head keeps the last element.
LEMMA TailEnd ==
    ASSUME NEW S, NEW q \in Seq(S), q # <<>>
    PROVE  /\ Tail(q) = <<>> => q[Len(q)] = Head(q)
           /\ Tail(q) # <<>> => Tail(q)[Len(Tail(q))] = q[Len(q)]
  <1>1. /\ Len(q) \in Nat /\ Len(q) >= 1 /\ Head(q) = q[1]
        /\ Tail(q) \in Seq(S) /\ Len(Tail(q)) = Len(q) - 1
        /\ \A i \in 1..(Len(q) - 1) : Tail(q)[i] = q[i + 1]
    BY TailFacts
  <1>2. Tail(q) = <<>> => Len(q) = 1
    <2>1. Tail(q) = <<>> => Len(Tail(q)) = 0
      BY <1>1, EmptySeq
    <2>. QED
      BY <1>1, <2>1
  <1>3. ASSUME Tail(q) # <<>> PROVE Tail(q)[Len(Tail(q))] = q[Len(q)]
    <2>1. Len(q) - 1 \in 1..(Len(q) - 1) /\ (Len(q) - 1) + 1 = Len(q)
      BY <1>1, <1>3
    <2>. QED
      BY <1>1, <2>1
  <1>. QED
    BY <1>1, <1>2, <1>3

\* What concatenation does to a sequence.
LEMMA ConcatFacts ==
    ASSUME NEW S, NEW q \in Seq(S), NEW r \in Seq(S)
    PROVE  /\ q \o r \in Seq(S)
           /\ Len(q \o r) = Len(q) + Len(r)
           /\ \A i \in 1..Len(q) : (q \o r)[i] = q[i]
           /\ \A i \in 1..Len(r) : (q \o r)[Len(q) + i] = r[i]
  OBVIOUS

\* b holds members of R, at most p, in increasing order.
Ordered(b, R, p) ==
    /\ \A i \in 1..Len(b) : b[i] \in R /\ b[i] <= p
    /\ \A i, j \in 1..Len(b) : i < j => b[i] < b[j]

\* An ordered sequence stays ordered without its head.
LEMMA OrderedTail ==
    ASSUME NEW R, NEW p \in Nat, NEW b \in Seq(Nat), b # <<>>, Ordered(b, R, p)
    PROVE  /\ Ordered(Tail(b), R, p)
           /\ \A i \in 1..Len(Tail(b)) : Head(b) < Tail(b)[i]
  <1>1. /\ Len(Tail(b)) = Len(b) - 1 /\ Len(b) \in Nat \ {0} /\ Head(b) = b[1]
        /\ \A i \in 1..Len(Tail(b)) : /\ Tail(b)[i] = b[i + 1]
                                      /\ i + 1 \in 1..Len(b) /\ 1 < i + 1
    BY TailFacts
  <1>2. \A i, j \in 1..Len(Tail(b)) : i < j => i + 1 < j + 1
    BY <1>1
  <1>. QED
    BY <1>1, <1>2 DEF Ordered

\* An ordered sequence stays ordered with a larger member at its end.
LEMMA OrderedAppend ==
    ASSUME NEW R, NEW p \in Nat, NEW b \in Seq(Nat), Ordered(b, R, p),
           p + 1 \in R
    PROVE  Ordered(Append(b, p + 1), R, p + 1)
  <1>. DEFINE d == Append(b, p + 1)
  <1>1. /\ Len(d) = Len(b) + 1 /\ Len(b) \in Nat
        /\ \A i \in 1..Len(b) : d[i] = b[i]
        /\ d[Len(b) + 1] = p + 1
    BY AppendFacts
  <1>2. \A i \in 1..Len(b) : b[i] \in R /\ b[i] <= p /\ b[i] \in Nat
    BY DEF Ordered
  <1>3. \A i \in 1..Len(d) : d[i] \in R /\ d[i] <= p + 1
    BY <1>1, <1>2
  <1>4. ASSUME NEW i \in 1..Len(d), NEW j \in 1..Len(d), i < j
        PROVE  d[i] < d[j]
    <2>1. i \in 1..Len(b)
      BY <1>1, <1>4
    <2>2. CASE j \in 1..Len(b)
      BY <1>1, <1>4, <2>1, <2>2 DEF Ordered
    <2>3. CASE j = Len(b) + 1
      BY <1>1, <1>2, <2>1, <2>3
    <2>. QED
      BY <1>1, <2>2, <2>3
  <1>. QED
    BY <1>3, <1>4 DEF Ordered

--------------------------------------------------------------------------------
\* Types

\* The channels of a task never exceed their capacity.
LEMMA EnqueueFacts ==
    ASSUME NEW b \in Seq(Nat), NEW c \in Nat, Len(b) <= ChannelCap
    PROVE  Enqueue(b, c) \in Seq(Nat) /\ Len(Enqueue(b, c)) <= ChannelCap
  <1>. USE BoundsAssumption
  <1>1. CASE Len(b) >= ChannelCap
    <2>1. b # <<>>
      BY <1>1
    <2>2. Tail(b) \in Seq(Nat) /\ Len(Tail(b)) = Len(b) - 1
      BY <2>1, TailFacts
    <2>. QED
      BY <1>1, <2>2, AppendFacts DEF Enqueue
  <1>2. CASE ~(Len(b) >= ChannelCap)
    BY <1>2, AppendFacts DEF Enqueue
  <1>. QED
    BY <1>1, <1>2

\* Init and every action keep the type invariant.
THEOREM TypeCorrect == Spec => []TypeOK
  <1>. USE FollowScopeAssumption, HistoryAssumption, BatchesAssumption,
           BoundsAssumption
  <1>1. Init => TypeOK
    BY DEF Init, TypeOK, Phases
  <1>2. TypeOK /\ [Next]_vars => TypeOK'
    <2>. SUFFICES ASSUME TypeOK, [Next]_vars PROVE TypeOK'
      OBVIOUS
    <2>. USE DEF TypeOK, Phases
    <2>1. ASSUME NEW s \in Batches, Commit(s) PROVE TypeOK'
      <3>1. log' \in Seq(Row) /\ Len(log') = Len(log) + Len(s)
        BY <2>1, ConcatFacts DEF Commit
      <3>. QED
        BY <2>1, <3>1 DEF Commit, taskVars
    <2>2. CASE LookupSender
      BY <2>2 DEF LookupSender, taskVars
    <2>3. CASE PublishRow
      <3>1. published' \in 0..Len(log') /\ log' = log
        BY <2>3 DEF PublishRow
      <3>2. published + 1 \in Nat
        OBVIOUS
      <3>3. buf' \in [Followers -> Seq(Nat)]
            /\ \A f \in Followers : Len(buf'[f]) <= ChannelCap
        BY <2>3, <3>2, EnqueueFacts DEF PublishRow
      <3>4. lagged' \in [Followers -> BOOLEAN]
        BY <2>3, Zenon DEF PublishRow
      <3>. QED
        BY <2>3, <3>1, <3>3, <3>4 DEF PublishRow
    <2>4. ASSUME NEW f \in Followers, Connect(f) PROVE TypeOK'
      <3>1. senders' \subseteq Scopes
        BY <2>4 DEF Connect, KeptSenders
      <3>. QED
        BY <2>4, <3>1 DEF Connect
    <2>5. ASSUME NEW f \in Followers, SampleThrough(f) PROVE TypeOK'
      <3>1. PICK c \in DOMAIN log \cup {0} :
              through' = [through EXCEPT ![f] = c]
        BY <2>5 DEF SampleThrough
      <3>2. c \in Nat
        OBVIOUS
      <3>3. phase' \in [Followers -> Phases]
        BY <2>5 DEF SampleThrough
      <3>4. through' \in [Followers -> Nat]
        BY <3>1, <3>2
      <3>5. UNCHANGED <<log, published, target, senders, last, next, buf,
                        lagged, pipe, lastId, drops>>
        BY <2>5 DEF SampleThrough, writerVars
      <3>. QED
        BY <3>3, <3>4, <3>5
    <2>6. ASSUME NEW f \in Followers, ReadPage(f) PROVE TypeOK'
      <3>1. PICK n \in Rows(FollowScope[f]) : next' = [next EXCEPT ![f] = n]
        BY <2>6 DEF ReadPage
      <3>2. n \in Nat
        BY DEF Rows
      <3>3. next' \in [Followers -> Nat]
        BY <3>1, <3>2
      <3>4. phase' \in [Followers -> Phases]
        BY <2>6 DEF ReadPage
      <3>5. UNCHANGED <<log, published, target, senders, last, through, buf,
                        lagged, pipe, lastId, drops>>
        BY <2>6 DEF ReadPage, writerVars
      <3>. QED
        BY <3>3, <3>4, <3>5
    <2>7. ASSUME NEW f \in Followers, SendPageRow(f) PROVE TypeOK'
      <3>1. PICK c \in Unsent(f) : pipe' = [pipe EXCEPT ![f] = Append(@, c)]
                                   /\ last' = [last EXCEPT ![f] = c]
        BY <2>7 DEF SendPageRow
      <3>2. c \in Nat
        BY DEF Unsent, Readable, Rows
      <3>3. pipe' \in [Followers -> Seq(Nat)]
            /\ \A g \in Followers : Len(pipe'[g]) <= PipeCap
        BY <2>7, <3>1, <3>2, AppendFacts DEF SendPageRow
      <3>. QED
        BY <2>7, <3>1, <3>2, <3>3 DEF SendPageRow, writerVars
    <2>8. ASSUME NEW f \in Followers, FinishPage(f) PROVE TypeOK'
      BY <2>8 DEF FinishPage, writerVars
    <2>9. ASSUME NEW f \in Followers, RecvLive(f) PROVE TypeOK'
      <3>1. /\ buf' \in [Followers -> Seq(Nat)]
            /\ \A g \in Followers : Len(buf'[g]) <= ChannelCap
            /\ Head(buf[f]) \in Nat
        BY <2>9, TailFacts DEF RecvLive
      <3>. QED
        BY <2>9, <3>1 DEF RecvLive, writerVars
    <2>10. ASSUME NEW f \in Followers, PushLive(f) PROVE TypeOK'
      <3>1. pipe' \in [Followers -> Seq(Nat)]
            /\ \A g \in Followers : Len(pipe'[g]) <= PipeCap
        BY <2>10, AppendFacts DEF PushLive
      <3>. QED
        BY <2>10, <3>1 DEF PushLive, writerVars
    <2>11. ASSUME NEW f \in Followers, RecvLagged(f) PROVE TypeOK'
      BY <2>11 DEF RecvLagged, writerVars
    <2>12. ASSUME NEW f \in Followers, Receive(f) PROVE TypeOK'
      <3>1. /\ pipe' \in [Followers -> Seq(Nat)]
            /\ \A g \in Followers : Len(pipe'[g]) <= PipeCap
            /\ Head(pipe[f]) \in Nat
        BY <2>12, TailFacts DEF Receive
      <3>2. lastId' \in [Followers -> Nat]
        BY <2>12, <3>1 DEF Receive
      <3>3. UNCHANGED <<log, published, target, senders, phase, last, through, next, buf,
                        lagged, drops>>
        BY <2>12 DEF Receive, writerVars
      <3>. QED
        BY <3>1, <3>2, <3>3
    <2>13. ASSUME NEW f \in Followers, Disconnect(f) PROVE TypeOK'
      <3>1. /\ phase' \in [Followers -> Phases] /\ lagged' \in [Followers -> BOOLEAN]
            /\ drops' \in Nat
        BY <2>13 DEF Disconnect, Phases
      <3>2. /\ buf' \in [Followers -> Seq(Nat)] /\ pipe' \in [Followers -> Seq(Nat)]
            /\ \A g \in Followers : Len(buf'[g]) <= ChannelCap /\ Len(pipe'[g]) <= PipeCap
        BY <2>13 DEF Disconnect
      <3>3. UNCHANGED <<log, published, target, senders, last, through, next, lastId>>
        BY <2>13 DEF Disconnect, writerVars
      <3>. QED
        BY <3>1, <3>2, <3>3
    <2>14. CASE Restart
      BY <2>14 DEF Restart
    <2>15. CASE UNCHANGED vars
      BY <2>15 DEF vars, writerVars, taskVars
    <2>. QED
      BY <2>1, <2>2, <2>3, <2>4, <2>5, <2>6, <2>7, <2>8, <2>9, <2>10, <2>11,
         <2>12, <2>13, <2>14, <2>15 DEF Next, TaskStep
  <1>. QED
    BY <1>1, <1>2, PTL DEF Spec

--------------------------------------------------------------------------------
\* Steps that leave a follower alone

\* A follower's cursors stay in order while nothing they mention changes.
LEMMA CursorsFrame ==
    ASSUME NEW g \in Followers, CursorsOK(g), log' = log,
           phase'[g] = phase[g], pipe'[g] = pipe[g], buf'[g] = buf[g],
           lagged'[g] = lagged[g], lastId'[g] = lastId[g], last'[g] = last[g],
           through'[g] = through[g], next'[g] = next[g]
    PROVE  CursorsOK(g)'
  BY DEF CursorsOK

\* Likewise the rows on their way to its client.
LEMMA OutputFrame ==
    ASSUME NEW g \in Followers, OutputOK(g), log' = log,
           phase'[g] = phase[g], pipe'[g] = pipe[g], lastId'[g] = lastId[g],
           last'[g] = last[g]
    PROVE  OutputOK(g)'
  BY DEF OutputOK, OutputEnd, Follows, Clear, Readable, Rows

\* A task that moves on without sending keeps its output.
LEMMA OutputMoves ==
    ASSUME NEW g \in Followers, OutputOK(g), log' = log,
           phase[g] \notin {"off", "push"}, phase'[g] \notin {"off", "push"},
           pipe'[g] = pipe[g], lastId'[g] = lastId[g], last'[g] = last[g]
    PROVE  OutputOK(g)'
  <1>1. OutputEnd(g)' = OutputEnd(g) /\ \A t : Readable(t)' = Readable(t)
    BY DEF OutputEnd, Readable, Rows
  <1>. QED
    BY <1>1 DEF OutputOK, Follows, Clear

\* Likewise its receiver, whatever channels are added.
LEMMA ReceiverFrame ==
    ASSUME NEW g \in Followers, ReceiverOK(g), log' = log,
           phase[g] # "off" => FollowScope[g] \in senders',
           published' = published, target' = target,
           phase'[g] = phase[g], buf'[g] = buf[g], lagged'[g] = lagged[g],
           last'[g] = last[g], through'[g] = through[g]
    PROVE  ReceiverOK(g)'
  BY DEF ReceiverOK, LiveFrom, Readable, Rows

--------------------------------------------------------------------------------
\* The writer's steps

\* A commit adds rows above every cursor in use.
LEMMA CommitKeeps ==
    ASSUME TypeOK, DeliveryInv, NEW s \in Batches, Commit(s)
    PROVE  DeliveryInv'
  <1>. USE BatchesAssumption
  <1>1. /\ log' \in Seq(Row)
        /\ Len(log') = Len(log) + Len(s)
        /\ \A c \in 1..Len(log) : log'[c] = log[c]
        /\ \A c \in 1..Len(log') : c > Len(log) => log'[c].decodable
    <2>1. log \in Seq(Row) /\ s \in Seq(Row) /\ log' = log \o s
      BY DEF Commit, TypeOK
    <2>2. \A c \in 1..Len(s) : log'[Len(log) + c] = s[c]
      BY <2>1, ConcatFacts
    <2>. QED
      BY <2>1, <2>2, ConcatFacts
  <1>2. /\ UNCHANGED <<published, target, senders, phase, last, through, next,
                       buf, lagged, pipe, lastId>>
        /\ published = Len(log) /\ target = "idle"
    BY DEF Commit, taskVars
  <1>3. ASSUME NEW t
        PROVE  /\ Readable(t) \subseteq 1..Len(log)
               /\ Readable(t)' \subseteq Nat
               /\ Readable(t) \subseteq Readable(t)'
               /\ \A c \in Readable(t)' : c \in Readable(t) \/ c > Len(log)
    <2>1. DOMAIN log = 1..Len(log) /\ DOMAIN log' = 1..Len(log')
      BY <1>1 DEF TypeOK
    <2>2. Readable(t) = {c \in 1..Len(log) : log[c].scope = t /\ log[c].decodable}
      BY <2>1 DEF Readable, Rows
    <2>3. Readable(t)' = {c \in 1..Len(log') : log'[c].scope = t /\ log'[c].decodable}
      BY <2>1 DEF Readable, Rows
    <2>4. Len(log) \in Nat /\ Len(log') \in Nat /\ Len(log) <= Len(log')
      BY <1>1 DEF TypeOK
    <2>. QED
      BY <1>1, <2>2, <2>3, <2>4
  <1>a. ASSUME NEW t, NEW a \in Nat, NEW c \in Nat, Follows(t, a, c)
        PROVE  Follows(t, a, c)'
    <2>1. /\ Readable(t) \subseteq 1..Len(log) /\ Readable(t) \subseteq Readable(t)'
          /\ \A d \in Readable(t)' : d \in Nat /\ (d \in Readable(t) \/ d > Len(log))
      BY <1>3
    <2>2. c \in Readable(t) /\ c > a /\ \A d \in Readable(t) : d > a => c <= d
      BY <1>a DEF Follows
    <2>3. Len(log) \in Nat /\ c <= Len(log)
      BY <2>1, <2>2 DEF TypeOK
    <2>4. \A d \in Readable(t)' : d > a => c <= d
      BY <2>1, <2>2, <2>3
    <2>. QED
      BY <2>1, <2>2, <2>4 DEF Follows
  <1>b. ASSUME NEW t, NEW a \in Nat, NEW b \in Nat, b <= Len(log), Clear(t, a, b)
        PROVE  Clear(t, a, b)'
    BY <1>3, <1>b DEF Clear, TypeOK
  <1>4. WriterInv'
    BY <1>1, <1>2 DEF WriterInv, DeliveryInv, TypeOK
  <1>5. ASSUME NEW f \in Followers PROVE CursorsOK(f)'
    <2>1. CursorsOK(f)
      BY DEF DeliveryInv
    <2>2. Len(log) \in Nat /\ Len(log') \in Nat /\ Len(log) <= Len(log')
      BY <1>1 DEF TypeOK
    <2>3. last[f] \in Nat /\ lastId[f] \in Nat /\ through[f] \in Nat /\ next[f] \in Nat
      BY DEF TypeOK
    <2>4. /\ last[f] <= Len(log') /\ lastId[f] <= Len(log')
          /\ through[f] <= Len(log') /\ next[f] <= Len(log')
      BY <2>1, <2>2, <2>3 DEF CursorsOK
    <2>. QED
      BY <1>2, <2>1, <2>4 DEF CursorsOK
  <1>6. ASSUME NEW f \in Followers PROVE OutputOK(f)'
    <2>1. OutputEnd(f) \in Nat /\ OutputEnd(f)' = OutputEnd(f)
          /\ \A i \in 1..Len(pipe[f]) : pipe[f][i] \in Nat
      BY <1>2 DEF OutputEnd, TypeOK
    <2>2. OutputOK(f) /\ CursorsOK(f)
      BY DEF DeliveryInv
    <2>. DEFINE t == FollowScope[f]
    <2>3. /\ lastId[f] \in Nat /\ last[f] \in Nat /\ Len(pipe[f]) \in Nat
          /\ last[f] <= Len(log)
      BY <2>2 DEF CursorsOK, TypeOK
    <2>4. pipe[f] # <<>> => Follows(t, lastId[f], pipe[f][1])'
      <3>. SUFFICES ASSUME pipe[f] # <<>> PROVE Follows(t, lastId[f], pipe[f][1])'
        OBVIOUS
      <3>1. pipe[f][1] \in Nat
        BY <2>1, <2>3 DEF TypeOK
      <3>2. Follows(t, lastId[f], pipe[f][1])
        BY <2>2 DEF OutputOK
      <3>. QED
        BY <1>2, <1>a, <2>3, <3>1, <3>2 DEF Follows
    <2>5. ASSUME NEW i \in 1..(Len(pipe[f]) - 1)
          PROVE  Follows(t, pipe[f][i], pipe[f][i + 1])'
      <3>1. pipe[f][i] \in Nat /\ pipe[f][i + 1] \in Nat
        BY <2>1, <2>3
      <3>2. Follows(t, pipe[f][i], pipe[f][i + 1])
        BY <2>2 DEF OutputOK
      <3>. QED
        BY <1>2, <1>a, <3>1, <3>2 DEF Follows
    <2>6. phase[f] = "push" => Follows(t, OutputEnd(f), last[f])'
      <3>. SUFFICES ASSUME phase[f] = "push" PROVE Follows(t, OutputEnd(f), last[f])'
        OBVIOUS
      <3>1. Follows(t, OutputEnd(f), last[f])
        BY <2>2 DEF OutputOK
      <3>. QED
        BY <1>2, <1>a, <2>1, <2>3, <3>1 DEF Follows
    <2>7. phase[f] \notin {"off", "push"} =>
            OutputEnd(f) <= last[f] /\ Clear(t, OutputEnd(f), last[f])'
      <3>. SUFFICES ASSUME phase[f] \notin {"off", "push"}
                    PROVE  OutputEnd(f) <= last[f] /\ Clear(t, OutputEnd(f), last[f])'
        OBVIOUS
      <3>1. OutputEnd(f) <= last[f] /\ Clear(t, OutputEnd(f), last[f])
        BY <2>2 DEF OutputOK
      <3>. QED
        BY <1>2, <1>b, <2>1, <2>3, <3>1 DEF Clear
    <2>. QED
      BY <1>2, <2>1, <2>4, <2>5, <2>6, <2>7 DEF OutputOK
  <1>7. ASSUME NEW f \in Followers PROVE ReceiverOK(f)'
    <2>. DEFINE t == FollowScope[f]
    <2>1. ReceiverOK(f)
      BY DEF DeliveryInv
    <2>2. /\ LiveFrom(f)' = LiveFrom(f)
          /\ \A i \in 1..Len(buf[f]) : buf[f][i] \in Nat
      BY <1>2 DEF LiveFrom, TypeOK
    <2>3. \A c \in Readable(t)' : c <= published => c \in Readable(t)
      BY <1>2, <1>3 DEF TypeOK
    <2>. QED
      BY <1>2, <1>3, <2>1, <2>2, <2>3 DEF ReceiverOK
  <1>. QED
    BY <1>4, <1>5, <1>6, <1>7 DEF DeliveryInv

\* A lookup that finds no channel concerns no connected follower.
LEMMA LookupKeeps ==
    ASSUME TypeOK, DeliveryInv, LookupSender
    PROVE  DeliveryInv'
  <1>1. UNCHANGED <<log, published, senders, phase, last, through, next, buf,
                    lagged, pipe, lastId>>
    BY DEF LookupSender, taskVars
  <1>2. WriterInv'
    BY <1>1 DEF WriterInv, DeliveryInv, LookupSender
  <1>3. ASSUME NEW f \in Followers PROVE CursorsOK(f)' /\ OutputOK(f)'
    BY <1>1, CursorsFrame, OutputFrame DEF DeliveryInv
  <1>4. ASSUME NEW f \in Followers PROVE ReceiverOK(f)'
    BY <1>1 DEF ReceiverOK, LiveFrom, Readable, Rows, DeliveryInv, LookupSender
  <1>. QED
    BY <1>2, <1>3, <1>4 DEF DeliveryInv

\* Publication appends the row to the receivers of its scope, and a full
\* receiver that drops a row for it is marked as lagged.
LEMMA PublishKeeps ==
    ASSUME TypeOK, DeliveryInv, PublishRow
    PROVE  DeliveryInv'
  <1>. USE FollowScopeAssumption, BoundsAssumption
  <1>. DEFINE c == published + 1
  <1>1. /\ UNCHANGED <<log, senders, phase, last, through, next, pipe, lastId>>
        /\ published' = c /\ target' = "idle" /\ target # "idle"
        /\ c \in 1..Len(log) /\ c \in Nat /\ log[c].decodable
    BY DEF PublishRow, DeliveryInv, WriterInv, TypeOK
  <1>2. WriterInv'
    BY <1>1 DEF WriterInv, DeliveryInv, TypeOK
  <1>3. ASSUME NEW f \in Followers PROVE CursorsOK(f)' /\ OutputOK(f)'
    <2>1. OutputOK(f)'
      BY <1>1, OutputFrame DEF DeliveryInv
    <2>2. phase[f] = "off" => buf'[f] = buf[f] /\ lagged'[f] = lagged[f]
      BY DEF PublishRow, TypeOK
    <2>3. CursorsOK(f)'
      BY <1>1, <2>2 DEF CursorsOK, DeliveryInv
    <2>. QED
      BY <2>1, <2>3
  <1>4. ASSUME NEW f \in Followers PROVE ReceiverOK(f)'
    <2>. DEFINE t == FollowScope[f]
    <2>1. ReceiverOK(f)
      BY DEF DeliveryInv
    <2>2. /\ buf[f] \in Seq(Nat) /\ Readable(t)' = Readable(t)
          /\ LiveFrom(f)' = LiveFrom(f) /\ Readable(t) \subseteq Nat
          /\ published \in Nat /\ LiveFrom(f) \in Nat
      BY <1>1 DEF Readable, Rows, LiveFrom, TypeOK
    <2>3. CASE target = "attached" /\ phase[f] # "off" /\ t = log[c].scope
      <3>1. /\ buf'[f] = Enqueue(buf[f], c)
            /\ lagged'[f] = (lagged[f] \/ Len(buf[f]) >= ChannelCap)
        BY <2>3 DEF PublishRow
      <3>2. c \in Readable(t)
        BY <1>1, <2>3 DEF Readable, Rows, TypeOK
      <3>0. Ordered(buf[f], Readable(t), published)
        BY <2>1 DEF Ordered, ReceiverOK
      <3>3. CASE Len(buf[f]) >= ChannelCap
        <4>1. lagged'[f] /\ buf'[f] = Append(Tail(buf[f]), c)
          BY <3>1, <3>3, Zenon DEF Enqueue
        <4>2. buf[f] # <<>> /\ Tail(buf[f]) \in Seq(Nat)
          BY <2>2, <3>3, TailFacts
        <4>3. Ordered(buf'[f], Readable(t), c)
          BY <2>2, <3>0, <3>2, <4>1, <4>2, OrderedTail, OrderedAppend
        <4>. QED
          BY <1>1, <2>1, <2>2, <4>1, <4>3 DEF ReceiverOK, Ordered
      <3>4. CASE ~(Len(buf[f]) >= ChannelCap)
        <4>1. /\ buf'[f] = Append(buf[f], c)
              /\ lagged[f] \in BOOLEAN /\ lagged'[f] = lagged[f]
          BY <3>1, <3>4, Zenon DEF Enqueue, TypeOK
        <4>2. /\ Len(buf'[f]) = Len(buf[f]) + 1 /\ Len(buf[f]) \in Nat
              /\ \A i \in 1..Len(buf[f]) : buf'[f][i] = buf[f][i]
              /\ buf'[f][Len(buf[f]) + 1] = c
          BY <2>2, <4>1, AppendFacts
        <4>3. Ordered(buf'[f], Readable(t), c)
          BY <2>2, <3>0, <3>2, <4>1, OrderedAppend
        <4>5. \A d \in Readable(t) : d <= c => d <= published \/ d = c
          BY <2>2
        <4>6. ASSUME phase[f] \notin {"off", "sample"}, ~lagged[f],
                     NEW d \in Readable(t), LiveFrom(f) < d, d <= c
              PROVE  \E i \in 1..Len(buf'[f]) : buf'[f][i] = d
          <5>1. CASE d = c
            BY <4>2, <5>1
          <5>2. CASE d <= published
            <6>1. PICK i \in 1..Len(buf[f]) : buf[f][i] = d
              BY <2>1, <4>6, <5>2 DEF ReceiverOK
            <6>. QED
              BY <4>2, <6>1
          <5>. QED
            BY <4>5, <4>6, <5>1, <5>2
        <4>. QED
          BY <1>1, <2>1, <2>2, <4>1, <4>3, <4>6 DEF ReceiverOK, Ordered
      <3>. QED
        BY <3>3, <3>4
    <2>4. CASE ~(target = "attached" /\ phase[f] # "off" /\ t = log[c].scope)
      <3>1. buf'[f] = buf[f] /\ lagged'[f] = lagged[f]
        BY <2>4 DEF PublishRow, TypeOK
      <3>2. phase[f] \notin {"off", "sample"} /\ c \in Readable(t) => c <= LiveFrom(f)
        BY <1>1, <2>1, <2>4 DEF ReceiverOK, Readable, Rows, TypeOK
      <3>3. \A d \in Readable(t) : d <= c => d <= published \/ d = c
        BY <2>2
      <3>4. \A i \in 1..Len(buf[f]) : buf[f][i] <= published => buf[f][i] <= c
        BY <2>2
      <3>6. \A i \in 1..Len(buf[f]) : buf[f][i] \in Readable(t) /\ buf[f][i] <= c
        BY <2>1, <3>4 DEF ReceiverOK
      <3>7. ASSUME phase[f] \notin {"off", "sample"}, ~lagged[f],
                   NEW d \in Readable(t), LiveFrom(f) < d, d <= c
            PROVE  \E i \in 1..Len(buf[f]) : buf[f][i] = d
        <4>1. d # c
          BY <1>1, <2>2, <3>2, <3>7
        <4>2. d <= published
          BY <3>3, <3>7, <4>1
        <4>. QED
          BY <2>1, <3>7, <4>2 DEF ReceiverOK
      <3>8. phase[f] # "off" => t \in senders
        BY <2>1 DEF ReceiverOK
      <3>9. \A i, j \in 1..Len(buf[f]) : i < j => buf[f][i] < buf[f][j]
        BY <2>1 DEF ReceiverOK
      <3>. QED
        BY <1>1, <2>2, <3>1, <3>6, <3>7, <3>8, <3>9 DEF ReceiverOK
    <2>. QED
      BY <2>3, <2>4
  <1>. QED
    BY <1>2, <1>3, <1>4 DEF DeliveryInv

--------------------------------------------------------------------------------
\* The steps of a follower's task and of its client

\* A new subscription keeps every channel that has a receiver, so a row whose
\* channel is pruned under the writer concerns no connected follower; the new
\* task counts on nothing before it has sampled the log.
LEMMA ConnectKeeps ==
    ASSUME TypeOK, DeliveryInv, NEW f \in Followers, Connect(f)
    PROVE  DeliveryInv'
  <1>. USE FollowScopeAssumption
  <1>1. /\ UNCHANGED <<log, published, through, next, buf, lagged, pipe, lastId>>
        /\ phase' = [phase EXCEPT ![f] = "sample"]
        /\ last' = [last EXCEPT ![f] = lastId[f]]
        /\ phase[f] = "off"
    BY DEF Connect
  <1>2. ASSUME NEW g \in Followers, phase[g] # "off"
        PROVE  FollowScope[g] \in KeptSenders
    BY <1>2 DEF KeptSenders, Received, DeliveryInv, ReceiverOK
  <1>3. WriterInv'
    BY <1>1 DEF WriterInv, DeliveryInv, Connect
  <1>4. ASSUME NEW g \in Followers, g # f
        PROVE  CursorsOK(g)' /\ OutputOK(g)' /\ ReceiverOK(g)'
    <2>1. phase'[g] = phase[g] /\ last'[g] = last[g]
      BY <1>1, <1>4 DEF TypeOK
    <2>2. CursorsOK(g)' /\ OutputOK(g)'
      BY <1>1, <2>1, CursorsFrame, OutputFrame DEF DeliveryInv
    <2>3. phase[g] # "off" => FollowScope[g] \in senders'
      BY <1>2 DEF Connect
    <2>4. CASE target' = target
      <3>1. ReceiverOK(g) /\ published' = published /\ log' = log
            /\ buf'[g] = buf[g] /\ lagged'[g] = lagged[g] /\ through'[g] = through[g]
        BY <1>1 DEF DeliveryInv
      <3>. QED
        BY <2>1, <2>2, <2>3, <2>4, <3>1, ReceiverFrame
    <2>5. CASE target' # target
      <3>1. phase[g] # "off" => log[published + 1].scope # FollowScope[g]
        BY <1>2, <2>5 DEF Connect
      <3>2. ReceiverOK(g) /\ published' = published /\ log' = log
            /\ buf'[g] = buf[g] /\ lagged'[g] = lagged[g] /\ through'[g] = through[g]
        BY <1>1 DEF DeliveryInv
      <3>3. LiveFrom(g)' = LiveFrom(g) /\ \A t : Readable(t)' = Readable(t)
        BY <2>1, <3>2 DEF LiveFrom, Readable, Rows
      <3>. QED
        BY <2>1, <2>2, <2>3, <3>1, <3>2, <3>3 DEF ReceiverOK
    <2>. QED
      BY <2>4, <2>5
  <1>5. phase'[f] = "sample" /\ last'[f] = lastId[f] /\ FollowScope[f] \in senders'
    BY <1>1 DEF TypeOK, Connect
  <1>6. CursorsOK(f)'
    BY <1>1, <1>5 DEF DeliveryInv, CursorsOK
  <1>7. OutputOK(f)'
    <2>1. pipe[f] = <<>> /\ lastId[f] \in Nat
      BY <1>1 DEF DeliveryInv, CursorsOK, TypeOK
    <2>2. OutputEnd(f)' = lastId[f]
      BY <1>1, <2>1 DEF OutputEnd
    <2>3. Clear(FollowScope[f], OutputEnd(f), last[f])'
      BY <1>5, <1>1, <2>2 DEF Clear
    <2>. QED
      BY <1>1, <1>5, <2>1, <2>2, <2>3 DEF OutputOK
  <1>8. ReceiverOK(f)'
    BY <1>1, <1>5 DEF DeliveryInv, ReceiverOK, Readable, Rows
  <1>. QED
    BY <1>3, <1>4, <1>6, <1>7, <1>8 DEF DeliveryInv

\* Sampling the newest cursor covers every row, published or not.
LEMMA SampleKeeps ==
    ASSUME TypeOK, DeliveryInv, NEW f \in Followers, SampleThrough(f)
    PROVE  DeliveryInv'
  <1>1. PICK c \in DOMAIN log \cup {0} :
          /\ phase[f] = "sample" /\ IsLatest(FollowScope[f], c)
          /\ through' = [through EXCEPT ![f] = c]
          /\ phase' = [phase EXCEPT ![f] = IF last[f] < c THEN "replay" ELSE "live"]
          /\ UNCHANGED <<log, published, target, senders, last, next, buf,
                         lagged, pipe, lastId>>
    BY DEF SampleThrough, writerVars
  <1>2. c \in Nat /\ c <= Len(log) /\ last[f] \in Nat
    BY DEF TypeOK
  <1>3. WriterInv'
    BY <1>1 DEF WriterInv, DeliveryInv
  <1>4. ASSUME NEW g \in Followers, g # f
        PROVE  CursorsOK(g)' /\ OutputOK(g)' /\ ReceiverOK(g)'
    <2>1. phase'[g] = phase[g] /\ through'[g] = through[g]
      BY <1>1, <1>4 DEF TypeOK
    <2>. QED
      BY <1>1, <2>1, CursorsFrame, OutputFrame, ReceiverFrame
         DEF DeliveryInv, ReceiverOK
  <1>5. /\ through'[f] = c
        /\ phase'[f] = IF last[f] < c THEN "replay" ELSE "live"
    BY <1>1 DEF TypeOK
  <1>6. CursorsOK(f)'
    BY <1>1, <1>2, <1>5 DEF DeliveryInv, CursorsOK
  <1>7. OutputOK(f)'
    <2>1. phase[f] \notin {"off", "push"} /\ phase'[f] \notin {"off", "push"}
      BY <1>1, <1>5
    <2>. QED
      BY <1>1, <2>1, OutputMoves DEF DeliveryInv
  <1>8. ReceiverOK(f)'
    <2>. DEFINE t == FollowScope[f]
    <2>1. LiveFrom(f)' >= c /\ LiveFrom(f)' \in Nat
      BY <1>1, <1>2, <1>5 DEF LiveFrom
    <2>2. Readable(t)' = Readable(t) /\ Readable(t) \subseteq Nat
          /\ \A d \in Readable(t) : d <= c
      BY <1>1 DEF IsLatest, Readable, Rows, TypeOK
    <2>3. target = "detached" /\ log[published + 1].scope = t => published + 1 <= c
      <3>1. target = "detached" => published + 1 \in DOMAIN log
        BY DEF DeliveryInv, WriterInv, TypeOK
      <3>. QED
        BY <1>1, <3>1 DEF IsLatest, Rows
    <2>4. published + 1 \in Nat
      BY DEF TypeOK
    <2>. QED
      BY <1>1, <1>2, <1>5, <2>1, <2>2, <2>3, <2>4 DEF DeliveryInv, ReceiverOK
  <1>. QED
    BY <1>3, <1>4, <1>6, <1>7, <1>8 DEF DeliveryInv

\* A page ends at or below the ceiling.
LEMMA ReadPageKeeps ==
    ASSUME TypeOK, DeliveryInv, NEW f \in Followers, ReadPage(f)
    PROVE  DeliveryInv'
  <1>1. PICK n \in Rows(FollowScope[f]) :
          /\ phase[f] = "replay" /\ last[f] < n /\ n <= through[f]
          /\ next' = [next EXCEPT ![f] = n]
          /\ phase' = [phase EXCEPT ![f] = "page"]
          /\ UNCHANGED <<log, published, target, senders, last, through, buf,
                         lagged, pipe, lastId>>
    BY DEF ReadPage, writerVars
  <1>2. n \in Nat /\ n <= Len(log) /\ last[f] \in Nat
    BY DEF TypeOK, Rows
  <1>3. WriterInv'
    BY <1>1 DEF WriterInv, DeliveryInv
  <1>4. ASSUME NEW g \in Followers, g # f
        PROVE  CursorsOK(g)' /\ OutputOK(g)' /\ ReceiverOK(g)'
    <2>1. phase'[g] = phase[g] /\ next'[g] = next[g]
      BY <1>1, <1>4 DEF TypeOK
    <2>. QED
      BY <1>1, <2>1, CursorsFrame, OutputFrame, ReceiverFrame
         DEF DeliveryInv, ReceiverOK
  <1>5. next'[f] = n /\ phase'[f] = "page"
    BY <1>1 DEF TypeOK
  <1>6. CursorsOK(f)'
    BY <1>1, <1>2, <1>5 DEF DeliveryInv, CursorsOK
  <1>7. OutputOK(f)'
    <2>1. phase[f] \notin {"off", "push"} /\ phase'[f] \notin {"off", "push"}
      BY <1>1, <1>5
    <2>. QED
      BY <1>1, <2>1, OutputMoves DEF DeliveryInv
  <1>8. ReceiverOK(f)'
    BY <1>1, <1>5 DEF DeliveryInv, ReceiverOK, LiveFrom, Readable, Rows
  <1>. QED
    BY <1>3, <1>4, <1>6, <1>7, <1>8 DEF DeliveryInv

\* Sending row c, the first readable one after the task's cursor, extends
\* the run of rows on their way to the client.
LEMMA OutputExtends ==
    ASSUME TypeOK, NEW f \in Followers, NEW c \in Nat,
           OutputOK(f), Follows(FollowScope[f], OutputEnd(f), c),
           log' = log, lastId' = lastId,
           pipe' = [pipe EXCEPT ![f] = Append(@, c)], last'[f] = c,
           phase'[f] \notin {"off", "push"}
    PROVE  OutputOK(f)'
  <1>. DEFINE t == FollowScope[f]
              n == Len(pipe[f])
  <1>1. /\ pipe[f] \in Seq(Nat) /\ n \in Nat /\ pipe'[f] = Append(pipe[f], c)
        /\ lastId'[f] = lastId[f] /\ lastId[f] \in Nat
    BY DEF TypeOK
  <1>2. /\ Len(pipe'[f]) = n + 1
        /\ \A i \in 1..n : pipe'[f][i] = pipe[f][i]
        /\ pipe'[f][n + 1] = c
    BY <1>1, AppendFacts
  <1>3. \A s : Readable(s)' = Readable(s)
    BY DEF Readable, Rows
  <1>4. OutputEnd(f)' = c /\ pipe'[f] # <<>>
    BY <1>1, <1>2 DEF OutputEnd
  <1>5. Follows(t, lastId[f], pipe[f][1])' \/ n = 0
    BY <1>1, <1>2, <1>3 DEF OutputOK, Follows
  <1>6. n = 0 => OutputEnd(f) = lastId[f] /\ pipe'[f][1] = c
    BY <1>1, <1>2 DEF OutputEnd
  <1>7. Follows(t, lastId[f], pipe[f][1])'
    BY <1>1, <1>3, <1>5, <1>6 DEF Follows
  <1>8. ASSUME NEW i \in 1..(Len(pipe'[f]) - 1)
        PROVE  Follows(t, pipe[f][i], pipe[f][i + 1])'
    <2>1. CASE i = n
      <3>1. OutputEnd(f) = pipe[f][n] /\ pipe'[f][i] = pipe[f][n] /\ pipe'[f][i + 1] = c
        BY <1>1, <1>2, <2>1 DEF OutputEnd
      <3>. QED
        BY <1>3, <3>1 DEF Follows
    <2>2. CASE i # n
      <3>1. i \in 1..(n - 1) /\ pipe'[f][i] = pipe[f][i] /\ pipe'[f][i + 1] = pipe[f][i + 1]
        BY <1>1, <1>2, <2>2
      <3>. QED
        BY <1>3, <3>1 DEF OutputOK, Follows
    <2>. QED
      BY <2>1, <2>2
  <1>9. OutputEnd(f)' <= last'[f] /\ Clear(t, OutputEnd(f), last[f])'
    BY <1>4 DEF Clear
  <1>. QED
    BY <1>7, <1>8, <1>9 DEF OutputOK

\* The next row of a page is the first readable one after the cursor.
LEMMA SendPageRowKeeps ==
    ASSUME TypeOK, DeliveryInv, NEW f \in Followers, SendPageRow(f)
    PROVE  DeliveryInv'
  <1>. DEFINE t == FollowScope[f]
  <1>1. PICK c \in Unsent(f) :
          /\ phase[f] = "page" /\ \A d \in Unsent(f) : c <= d
          /\ pipe' = [pipe EXCEPT ![f] = Append(@, c)]
          /\ last' = [last EXCEPT ![f] = c]
          /\ UNCHANGED <<log, published, target, senders, phase, through, next,
                         buf, lagged, lastId>>
    BY DEF SendPageRow, writerVars
  <1>2. /\ c \in Nat /\ c \in Readable(t) /\ last[f] < c /\ c <= next[f]
        /\ last[f] \in Nat /\ c <= Len(log) /\ Readable(t) \subseteq Nat
        /\ OutputEnd(f) \in Nat /\ next[f] \in Nat
    BY DEF TypeOK, Unsent, Readable, Rows, OutputEnd
  <1>3. WriterInv'
    BY <1>1 DEF WriterInv, DeliveryInv
  <1>4. ASSUME NEW g \in Followers, g # f
        PROVE  CursorsOK(g)' /\ OutputOK(g)' /\ ReceiverOK(g)'
    <2>1. pipe'[g] = pipe[g] /\ last'[g] = last[g]
      BY <1>1, <1>4 DEF TypeOK
    <2>. QED
      BY <1>1, <2>1, CursorsFrame, OutputFrame, ReceiverFrame
         DEF DeliveryInv, ReceiverOK
  <1>5. last'[f] = c
    BY <1>1 DEF TypeOK
  <1>6. CursorsOK(f)'
    BY <1>1, <1>2, <1>5 DEF DeliveryInv, CursorsOK
  <1>7. OutputOK(f)'
    <2>1. OutputEnd(f) <= last[f] /\ Clear(t, OutputEnd(f), last[f])
      BY <1>1 DEF DeliveryInv, OutputOK
    <2>2. ASSUME NEW d \in Readable(t), d > OutputEnd(f) PROVE c <= d
      <3>1. d > last[f]
        BY <2>1, <2>2 DEF Clear
      <3>2. CASE d <= next[f]
        BY <1>1, <3>1, <3>2 DEF Unsent
      <3>3. CASE d > next[f]
        BY <1>2, <3>3
      <3>. QED
        BY <1>2, <3>2, <3>3
    <2>3. Follows(t, OutputEnd(f), c)
      BY <1>2, <2>1, <2>2 DEF Follows
    <2>. QED
      BY <1>1, <1>2, <1>5, <2>3, OutputExtends DEF DeliveryInv
  <1>8. ReceiverOK(f)'
    BY <1>1 DEF DeliveryInv, ReceiverOK, LiveFrom, Readable, Rows
  <1>. QED
    BY <1>3, <1>4, <1>6, <1>7, <1>8 DEF DeliveryInv

\* A finished page leaves no readable row up to its end.
LEMMA FinishPageKeeps ==
    ASSUME TypeOK, DeliveryInv, NEW f \in Followers, FinishPage(f)
    PROVE  DeliveryInv'
  <1>. DEFINE t == FollowScope[f]
  <1>1. /\ phase[f] = "page" /\ Unsent(f) = {}
        /\ last' = [last EXCEPT ![f] = next[f]]
        /\ phase' = [phase EXCEPT ![f] = IF next[f] >= through[f] THEN "live"
                                                                  ELSE "replay"]
        /\ UNCHANGED <<log, published, target, senders, through, next, buf,
                       lagged, pipe, lastId>>
    BY DEF FinishPage, writerVars
  <1>2. /\ last[f] \in Nat /\ next[f] \in Nat /\ through[f] \in Nat
        /\ last[f] <= next[f] /\ next[f] <= through[f]
        /\ OutputEnd(f) \in Nat /\ Readable(t) \subseteq Nat
    BY <1>1 DEF TypeOK, DeliveryInv, CursorsOK, OutputEnd, Readable, Rows
  <1>3. WriterInv'
    BY <1>1 DEF WriterInv, DeliveryInv
  <1>4. ASSUME NEW g \in Followers, g # f
        PROVE  CursorsOK(g)' /\ OutputOK(g)' /\ ReceiverOK(g)'
    <2>1. phase'[g] = phase[g] /\ last'[g] = last[g]
      BY <1>1, <1>4 DEF TypeOK
    <2>. QED
      BY <1>1, <2>1, CursorsFrame, OutputFrame, ReceiverFrame
         DEF DeliveryInv, ReceiverOK
  <1>5. /\ last'[f] = next[f]
        /\ phase'[f] = IF next[f] >= through[f] THEN "live" ELSE "replay"
    BY <1>1 DEF TypeOK
  <1>6. CursorsOK(f)'
    BY <1>1, <1>2, <1>5 DEF DeliveryInv, CursorsOK
  <1>7. OutputOK(f)'
    <2>1. OutputEnd(f) <= last[f] /\ Clear(t, OutputEnd(f), last[f]) /\ OutputOK(f)
      BY <1>1 DEF DeliveryInv, OutputOK
    <2>2. \A d \in Readable(t) : d > OutputEnd(f) => d > next[f]
      BY <1>1, <1>2, <2>1 DEF Clear, Unsent
    <2>3. OutputEnd(f)' = OutputEnd(f) /\ \A s : Readable(s)' = Readable(s)
      BY <1>1 DEF OutputEnd, Readable, Rows
    <2>4. OutputEnd(f)' <= last'[f] /\ Clear(t, OutputEnd(f), last[f])'
      BY <1>2, <1>5, <2>1, <2>2, <2>3 DEF Clear
    <2>5. phase'[f] # "push"
      BY <1>5
    <2>. QED
      BY <1>1, <2>1, <2>3, <2>4, <2>5 DEF OutputOK, Follows
  <1>8. ReceiverOK(f)'
    <2>1. LiveFrom(f) = through[f] /\ LiveFrom(f)' = through[f]
      BY <1>1, <1>2, <1>5 DEF LiveFrom
    <2>2. phase[f] \notin {"off", "sample"}
      BY <1>1
    <2>. QED
      BY <1>1, <2>1, <2>2 DEF DeliveryInv, ReceiverOK, Readable, Rows
  <1>. QED
    BY <1>3, <1>4, <1>6, <1>7, <1>8 DEF DeliveryInv

\* A live row above the cursor is the first readable one after it, because a
\* receiver that has not lagged holds every published row above the cursor.
LEMMA RecvLiveKeeps ==
    ASSUME TypeOK, DeliveryInv, NEW f \in Followers, RecvLive(f)
    PROVE  DeliveryInv'
  <1>. DEFINE t == FollowScope[f]
              h == Head(buf[f])
              rest == Tail(buf[f])
  <1>1. /\ phase[f] = "live" /\ ~lagged[f] /\ buf[f] # <<>>
        /\ buf' = [buf EXCEPT ![f] = rest]
        /\ UNCHANGED <<log, published, target, senders, through, next, lagged,
                       pipe, lastId>>
        /\ \A g \in Followers : g # f => phase'[g] = phase[g] /\ last'[g] = last[g]
    BY DEF RecvLive, writerVars, TypeOK
  <1>2. h <= last[f] => phase'[f] = "live" /\ last'[f] = last[f]
    BY <1>1 DEF RecvLive
  <1>3. ~(h <= last[f]) => phase'[f] = "push" /\ last'[f] = h
    BY DEF RecvLive, TypeOK
  <1>4. /\ buf[f] \in Seq(Nat) /\ buf'[f] = rest
        /\ Len(buf[f]) \in Nat \ {0} /\ h = buf[f][1] /\ h \in Nat
        /\ Len(rest) = Len(buf[f]) - 1
        /\ \A i \in 1..(Len(buf[f]) - 1) : rest[i] = buf[f][i + 1]
        /\ last[f] \in Nat /\ published \in Nat /\ OutputEnd(f) \in Nat
    BY <1>1, TailFacts DEF TypeOK, OutputEnd
  <1>5. /\ Ordered(buf[f], Readable(t), published) /\ h \in Readable(t)
        /\ h <= published /\ Readable(t) \subseteq 1..Len(log)
    <2>1. ReceiverOK(f)
      BY DEF DeliveryInv
    <2>2. Readable(t) \subseteq 1..Len(log)
      BY DEF Readable, Rows, TypeOK
    <2>3. Ordered(buf[f], Readable(t), published)
      BY <2>1 DEF ReceiverOK, Ordered
    <2>4. 1 \in 1..Len(buf[f])
      BY <1>4
    <2>5. buf[f][1] \in Readable(t) /\ buf[f][1] <= published
      BY <2>3, <2>4 DEF Ordered
    <2>. QED
      BY <1>4, <2>2, <2>3, <2>5
  <1>6. /\ Ordered(rest, Readable(t), published)
        /\ \A i \in 1..Len(rest) : h < rest[i]
    BY <1>1, <1>4, <1>5, OrderedTail
  <1>7. ASSUME NEW d \in Readable(t), last[f] < d, d <= published
        PROVE  \E i \in 1..Len(buf[f]) : buf[f][i] = d
    BY <1>1, <1>7 DEF DeliveryInv, ReceiverOK, LiveFrom
  <1>8. WriterInv'
    BY <1>1 DEF WriterInv, DeliveryInv
  <1>9. ASSUME NEW g \in Followers, g # f
        PROVE  CursorsOK(g)' /\ OutputOK(g)' /\ ReceiverOK(g)'
    <2>1. buf'[g] = buf[g] /\ phase'[g] = phase[g] /\ last'[g] = last[g]
      BY <1>1, <1>9 DEF TypeOK
    <2>. QED
      BY <1>1, <2>1, CursorsFrame, OutputFrame, ReceiverFrame
         DEF DeliveryInv, ReceiverOK
  <1>10. CursorsOK(f)'
    <2>1. last'[f] <= Len(log) /\ phase'[f] \in {"live", "push"}
      BY <1>2, <1>3, <1>4, <1>5 DEF DeliveryInv, CursorsOK, TypeOK
    <2>. QED
      BY <1>1, <2>1 DEF DeliveryInv, CursorsOK
  <1>11. OutputOK(f)'
    <2>1. OutputOK(f) /\ OutputEnd(f) <= last[f] /\ Clear(t, OutputEnd(f), last[f])
      BY <1>1 DEF DeliveryInv, OutputOK
    <2>2. OutputEnd(f)' = OutputEnd(f) /\ \A s : Readable(s)' = Readable(s)
      BY <1>1 DEF OutputEnd, Readable, Rows
    <2>3. CASE h <= last[f]
      BY <1>1, <1>2, <2>1, <2>3, OutputMoves
    <2>4. CASE ~(h <= last[f])
      <3>1. ASSUME NEW d \in Readable(t), d > OutputEnd(f) PROVE h <= d
        <4>1. d > last[f] /\ d \in Nat
          BY <1>5, <2>1, <3>1 DEF Clear
        <4>2. CASE d <= published
          <5>1. PICK i \in 1..Len(buf[f]) : buf[f][i] = d
            BY <1>7, <4>1, <4>2
          <5>. QED
            BY <1>4, <1>5, <5>1 DEF Ordered
        <4>3. CASE d > published
          BY <1>4, <1>5, <4>1, <4>3
        <4>. QED
          BY <1>4, <4>1, <4>2, <4>3
      <3>2. Follows(t, OutputEnd(f), h)
        BY <1>4, <1>5, <2>1, <2>4, <3>1 DEF Follows
      <3>. QED
        BY <1>1, <1>3, <2>1, <2>2, <2>4, <3>2 DEF OutputOK, Follows
    <2>. QED
      BY <2>3, <2>4
  <1>12. ReceiverOK(f)'
    <2>1. ReceiverOK(f) /\ LiveFrom(f) = last[f] /\ Readable(t)' = Readable(t)
      BY <1>1 DEF DeliveryInv, LiveFrom, Readable, Rows
    <2>2. LiveFrom(f)' = last'[f] /\ last[f] <= last'[f] /\ h <= last'[f]
          /\ last'[f] \in Nat /\ phase'[f] \in {"live", "push"}
      BY <1>2, <1>3, <1>4 DEF LiveFrom
    <2>3. ASSUME NEW d \in Readable(t), last'[f] < d, d <= published
          PROVE  \E i \in 1..Len(rest) : rest[i] = d
      <3>1. d \in Nat /\ last[f] < d /\ h < d
        BY <1>4, <1>5, <2>2, <2>3
      <3>2. PICK i \in 1..Len(buf[f]) : buf[f][i] = d
        BY <1>7, <2>3, <3>1
      <3>3. i # 1
        BY <1>4, <3>1, <3>2
      <3>4. i - 1 \in 1..(Len(buf[f]) - 1) /\ (i - 1) + 1 = i
        BY <1>4, <3>3
      <3>5. rest[i - 1] = d
        BY <1>4, <3>2, <3>4
      <3>. QED
        BY <1>4, <3>4, <3>5
    <2>4. published + 1 <= last[f] => published + 1 <= last'[f]
      BY <1>4, <2>2
    <2>5. /\ t \in senders'
          /\ \A i \in 1..Len(buf'[f]) : /\ buf'[f][i] \in Readable(t)'
                                        /\ buf'[f][i] <= published'
          /\ \A i, j \in 1..Len(buf'[f]) : i < j => buf'[f][i] < buf'[f][j]
      BY <1>1, <1>4, <1>6, <2>1 DEF ReceiverOK, Ordered
    <2>6. \A c \in Readable(t)' : LiveFrom(f)' < c /\ c <= published' =>
             \E i \in 1..Len(buf'[f]) : buf'[f][i] = c
      <3>1. published' = published /\ buf'[f] = rest
        BY <1>1, <1>4
      <3>. QED
        BY <2>1, <2>2, <2>3, <3>1
    <2>7. target' = "detached" /\ log'[published' + 1].scope = t =>
             published' + 1 <= LiveFrom(f)'
      BY <1>1, <2>1, <2>2, <2>4 DEF ReceiverOK
    <2>. QED
      BY <2>5, <2>6, <2>7 DEF ReceiverOK
  <1>. QED
    BY <1>8, <1>9, <1>10, <1>11, <1>12 DEF DeliveryInv

\* The row in hand joins the pipe.
LEMMA PushLiveKeeps ==
    ASSUME TypeOK, DeliveryInv, NEW f \in Followers, PushLive(f)
    PROVE  DeliveryInv'
  <1>1. /\ phase[f] = "push"
        /\ pipe' = [pipe EXCEPT ![f] = Append(@, last[f])]
        /\ phase' = [phase EXCEPT ![f] = "live"]
        /\ UNCHANGED <<log, published, target, senders, last, through, next, buf,
                       lagged, lastId>>
    BY DEF PushLive, writerVars
  <1>2. WriterInv'
    BY <1>1 DEF WriterInv, DeliveryInv
  <1>3. ASSUME NEW g \in Followers, g # f
        PROVE  CursorsOK(g)' /\ OutputOK(g)' /\ ReceiverOK(g)'
    <2>1. pipe'[g] = pipe[g] /\ phase'[g] = phase[g]
      BY <1>1, <1>3 DEF TypeOK
    <2>. QED
      BY <1>1, <2>1, CursorsFrame, OutputFrame, ReceiverFrame
         DEF DeliveryInv, ReceiverOK
  <1>4. phase'[f] = "live" /\ last[f] \in Nat
    BY <1>1 DEF TypeOK
  <1>5. CursorsOK(f)'
    BY <1>1, <1>4 DEF DeliveryInv, CursorsOK
  <1>6. OutputOK(f)'
    <2>1. OutputOK(f) /\ Follows(FollowScope[f], OutputEnd(f), last[f])
      BY <1>1 DEF DeliveryInv, OutputOK
    <2>. QED
      BY <1>1, <1>4, <2>1, OutputExtends
  <1>7. ReceiverOK(f)'
    BY <1>1, <1>4 DEF DeliveryInv, ReceiverOK, LiveFrom, Readable, Rows
  <1>. QED
    BY <1>2, <1>3, <1>5, <1>6, <1>7 DEF DeliveryInv

\* A reported lag sends the task back to sampling.
LEMMA RecvLaggedKeeps ==
    ASSUME TypeOK, DeliveryInv, NEW f \in Followers, RecvLagged(f)
    PROVE  DeliveryInv'
  <1>1. /\ phase[f] = "live"
        /\ lagged' = [lagged EXCEPT ![f] = FALSE]
        /\ phase' = [phase EXCEPT ![f] = "sample"]
        /\ UNCHANGED <<log, published, target, senders, last, through, next, buf,
                       pipe, lastId>>
    BY DEF RecvLagged, writerVars
  <1>2. WriterInv'
    BY <1>1 DEF WriterInv, DeliveryInv
  <1>3. ASSUME NEW g \in Followers, g # f
        PROVE  CursorsOK(g)' /\ OutputOK(g)' /\ ReceiverOK(g)'
    <2>1. lagged'[g] = lagged[g] /\ phase'[g] = phase[g]
      BY <1>1, <1>3, Zenon DEF TypeOK
    <2>. QED
      BY <1>1, <2>1, CursorsFrame, OutputFrame, ReceiverFrame
         DEF DeliveryInv, ReceiverOK
  <1>4. phase'[f] = "sample"
    BY <1>1 DEF TypeOK
  <1>5. CursorsOK(f)'
    BY <1>1, <1>4 DEF DeliveryInv, CursorsOK
  <1>6. OutputOK(f)'
    BY <1>1, <1>4, OutputMoves DEF DeliveryInv
  <1>7. ReceiverOK(f)'
    BY <1>1, <1>4 DEF DeliveryInv, ReceiverOK, Readable, Rows
  <1>. QED
    BY <1>2, <1>3, <1>5, <1>6, <1>7 DEF DeliveryInv

\* The client takes the first row of the run, and the rest continues from it.
LEMMA ReceiveKeeps ==
    ASSUME TypeOK, DeliveryInv, NEW f \in Followers, Receive(f)
    PROVE  /\ DeliveryInv'
           /\ lastId' = [lastId EXCEPT ![f] = Head(pipe[f])]
           /\ Follows(FollowScope[f], lastId[f], Head(pipe[f]))
           /\ log' = log
  <1>. DEFINE t == FollowScope[f]
              h == Head(pipe[f])
              rest == Tail(pipe[f])
  <1>1. /\ pipe[f] # <<>> /\ pipe' = [pipe EXCEPT ![f] = rest]
        /\ UNCHANGED <<log, published, target, senders, phase, last, through,
                       next, buf, lagged>>
    BY DEF Receive, writerVars
  <1>2. /\ pipe[f] \in Seq(Nat) /\ pipe'[f] = rest
        /\ Len(pipe[f]) \in Nat \ {0} /\ h = pipe[f][1] /\ h \in Nat
        /\ Len(rest) = Len(pipe[f]) - 1
        /\ \A i \in 1..(Len(pipe[f]) - 1) : rest[i] = pipe[f][i + 1]
        /\ lastId[f] \in Nat
    BY <1>1, TailFacts DEF TypeOK
  <1>3. OutputOK(f) /\ CursorsOK(f) /\ Follows(t, lastId[f], h)
    BY <1>1, <1>2 DEF DeliveryInv, OutputOK
  <1>4. lastId' = [lastId EXCEPT ![f] = h]
    BY <1>2, <1>3 DEF Receive, Follows
  <1>5. lastId'[f] = h /\ phase[f] # "off"
    BY <1>1, <1>3, <1>4 DEF TypeOK, CursorsOK
  <1>6. WriterInv'
    BY <1>1 DEF WriterInv, DeliveryInv
  <1>7. ASSUME NEW g \in Followers, g # f
        PROVE  CursorsOK(g)' /\ OutputOK(g)' /\ ReceiverOK(g)'
    <2>1. pipe'[g] = pipe[g] /\ lastId'[g] = lastId[g]
      BY <1>1, <1>4, <1>7 DEF TypeOK
    <2>. QED
      BY <1>1, <2>1, CursorsFrame, OutputFrame, ReceiverFrame
         DEF DeliveryInv, ReceiverOK
  <1>8. CursorsOK(f)'
    <2>1. h <= Len(log)
      BY <1>3 DEF Follows, Readable, Rows, TypeOK
    <2>. QED
      BY <1>1, <1>3, <1>5, <2>1 DEF CursorsOK
  <1>9. OutputOK(f)'
    <2>1. \A s : Readable(s)' = Readable(s)
      BY <1>1 DEF Readable, Rows
    <2>2. OutputEnd(f)' = OutputEnd(f)
      <3>1. CASE rest = <<>>
        BY <1>1, <1>2, <1>5, <3>1, TailEnd DEF OutputEnd
      <3>2. CASE rest # <<>>
        BY <1>1, <1>2, <3>2, TailEnd DEF OutputEnd
      <3>. QED
        BY <3>1, <3>2
    <2>3. rest # <<>> => Follows(t, h, rest[1])
      <3>. SUFFICES ASSUME rest # <<>> PROVE Follows(t, h, rest[1])
        OBVIOUS
      <3>1. 1 \in 1..(Len(pipe[f]) - 1)
        BY <1>2
      <3>2. rest[1] = pipe[f][1 + 1] /\ h = pipe[f][1]
        BY <1>2, <3>1
      <3>3. Follows(t, pipe[f][1], pipe[f][1 + 1])
        BY <1>3, <3>1 DEF OutputOK
      <3>. QED
        BY <3>2, <3>3
    <2>4. ASSUME NEW i \in 1..(Len(rest) - 1) PROVE Follows(t, rest[i], rest[i + 1])
      <3>1. i + 1 \in 1..(Len(pipe[f]) - 1) /\ i \in 1..(Len(pipe[f]) - 1)
        BY <1>2
      <3>2. rest[i] = pipe[f][i + 1] /\ rest[i + 1] = pipe[f][(i + 1) + 1]
        BY <1>2, <3>1
      <3>3. Follows(t, pipe[f][i + 1], pipe[f][(i + 1) + 1])
        BY <1>3, <3>1 DEF OutputOK
      <3>. QED
        BY <3>2, <3>3
    <2>5. /\ pipe'[f] # <<>> => Follows(t, lastId[f], pipe[f][1])'
          /\ \A i \in 1..(Len(pipe'[f]) - 1) : Follows(t, pipe[f][i], pipe[f][i + 1])'
      BY <1>2, <1>5, <2>1, <2>3, <2>4 DEF Follows
    <2>6. /\ phase'[f] = "push" => Follows(t, OutputEnd(f), last[f])'
          /\ phase'[f] \notin {"off", "push"} =>
               OutputEnd(f)' <= last'[f] /\ Clear(t, OutputEnd(f), last[f])'
      BY <1>1, <1>3, <2>1, <2>2 DEF OutputOK, Follows, Clear
    <2>. QED
      BY <2>5, <2>6 DEF OutputOK
  <1>10. ReceiverOK(f)'
    BY <1>1, ReceiverFrame DEF DeliveryInv, ReceiverOK
  <1>. QED
    BY <1>1, <1>3, <1>4, <1>6, <1>7, <1>8, <1>9, <1>10 DEF DeliveryInv

\* A task that is gone holds nothing, and its client keeps its cursor.
LEMMA DisconnectKeeps ==
    ASSUME TypeOK, DeliveryInv, NEW f \in Followers, Disconnect(f)
    PROVE  DeliveryInv'
  <1>1. /\ phase' = [phase EXCEPT ![f] = "off"]
        /\ buf' = [buf EXCEPT ![f] = <<>>]
        /\ lagged' = [lagged EXCEPT ![f] = FALSE]
        /\ pipe' = [pipe EXCEPT ![f] = <<>>]
        /\ UNCHANGED <<log, published, target, senders, last, through, next, lastId>>
    BY DEF Disconnect, writerVars
  <1>2. WriterInv'
    BY <1>1 DEF WriterInv, DeliveryInv
  <1>3. ASSUME NEW g \in Followers, g # f
        PROVE  CursorsOK(g)' /\ OutputOK(g)' /\ ReceiverOK(g)'
    <2>1. /\ phase'[g] = phase[g] /\ buf'[g] = buf[g]
          /\ lagged'[g] = lagged[g] /\ pipe'[g] = pipe[g]
      BY <1>1, <1>3, Zenon DEF TypeOK
    <2>. QED
      BY <1>1, <2>1, CursorsFrame, OutputFrame, ReceiverFrame
         DEF DeliveryInv, ReceiverOK
  <1>4. phase'[f] = "off" /\ buf'[f] = <<>> /\ pipe'[f] = <<>> /\ lagged'[f] = FALSE
    BY <1>1, Zenon DEF TypeOK
  <1>5. CursorsOK(f)'
    BY <1>1, <1>4 DEF DeliveryInv, CursorsOK
  <1>6. OutputOK(f)' /\ ReceiverOK(f)'
    BY <1>4 DEF OutputOK, ReceiverOK
  <1>. QED
    BY <1>2, <1>3, <1>5, <1>6 DEF DeliveryInv

\* So does every task after a restart.
LEMMA RestartKeeps ==
    ASSUME TypeOK, DeliveryInv, Restart
    PROVE  DeliveryInv'
  <1>1. /\ published' = Len(log) /\ target' = "idle"
        /\ UNCHANGED <<log, last, through, next, lastId>>
    BY DEF Restart
  <1>2. \A f \in Followers : /\ phase'[f] = "off" /\ buf'[f] = <<>>
                             /\ lagged'[f] = FALSE /\ pipe'[f] = <<>>
    BY Zenon DEF Restart
  <1>3. WriterInv'
    BY <1>1 DEF WriterInv, TypeOK
  <1>4. ASSUME NEW f \in Followers PROVE CursorsOK(f)' /\ OutputOK(f)' /\ ReceiverOK(f)'
    BY <1>1, <1>2 DEF DeliveryInv, CursorsOK, OutputOK, ReceiverOK
  <1>. QED
    BY <1>3, <1>4 DEF DeliveryInv

--------------------------------------------------------------------------------
\* The theorems

\* The rows between the log and every client are at all times a gapless run,
\* split over replay, receiver and pipe (event_stream).
THEOREM Delivery == Spec => []DeliveryInv
  <1>1. Init => DeliveryInv
    <2>. SUFFICES ASSUME Init PROVE DeliveryInv
      OBVIOUS
    <2>1. WriterInv
      BY HistoryAssumption DEF Init, WriterInv
    <2>2. ASSUME NEW f \in Followers PROVE CursorsOK(f) /\ OutputOK(f) /\ ReceiverOK(f)
      BY HistoryAssumption DEF Init, CursorsOK, OutputOK, ReceiverOK
    <2>. QED
      BY <2>1, <2>2 DEF DeliveryInv
  <1>2. TypeOK /\ DeliveryInv /\ [Next]_vars => DeliveryInv'
    <2>. SUFFICES ASSUME TypeOK, DeliveryInv, [Next]_vars PROVE DeliveryInv'
      OBVIOUS
    <2>1. CASE UNCHANGED vars
      <3>1. UNCHANGED <<log, published, target, senders, phase, last, through,
                        next, buf, lagged, pipe, lastId>>
        BY <2>1 DEF vars, writerVars, taskVars
      <3>2. WriterInv'
        BY <3>1 DEF WriterInv, DeliveryInv
      <3>3. ASSUME NEW f \in Followers
            PROVE  CursorsOK(f)' /\ OutputOK(f)' /\ ReceiverOK(f)'
        BY <3>1, CursorsFrame, OutputFrame, ReceiverFrame DEF DeliveryInv, ReceiverOK
      <3>. QED
        BY <3>2, <3>3 DEF DeliveryInv
    <2>. QED
      BY <2>1, CommitKeeps, LookupKeeps, PublishKeeps, ConnectKeeps, SampleKeeps,
         ReadPageKeeps, SendPageRowKeeps, FinishPageKeeps, RecvLiveKeeps,
         PushLiveKeeps, RecvLaggedKeeps, ReceiveKeeps, DisconnectKeeps,
         RestartKeeps
         DEF Next, TaskStep
  <1>. QED
    BY <1>1, <1>2, TypeCorrect, PTL DEF Spec

\* A follower that waits with nothing buffered has sent its whole scope.
THEOREM CaughtUp == Spec => []CaughtUpWhenQuiet
  <1>1. TypeOK /\ DeliveryInv => CaughtUpWhenQuiet
    <2>. SUFFICES ASSUME TypeOK, DeliveryInv, NEW f \in Followers, Quiet(f),
                         NEW c \in Readable(FollowScope[f])
                  PROVE  c <= last[f]
      BY DEF CaughtUpWhenQuiet
    <2>1. /\ c \in Nat /\ c <= published /\ last[f] \in Nat
          /\ 1..Len(buf[f]) = {} /\ LiveFrom(f) = last[f]
      BY DEF Quiet, TypeOK, Readable, Rows, LiveFrom
    <2>2. ~(last[f] < c)
      BY <2>1 DEF DeliveryInv, ReceiverOK, Quiet
    <2>. QED
      BY <2>1, <2>2
  <1>. QED
    BY <1>1, TypeCorrect, Delivery, PTL

\* The follower, the channels and the reconnecting client implement
\* EventStream: every client accepts its scope's rows exactly once, in order.
THEOREM ImplementsEventStream == Spec => ExactlyOnceInOrder
  <1>1. Init => Promise!Init
    BY DEF Init, Promise!Init
  <1>2. TypeOK /\ DeliveryInv /\ [Next]_vars => [Promise!Next]_(Promise!vars)
    <2>. SUFFICES ASSUME TypeOK, DeliveryInv, [Next]_vars
                  PROVE  Promise!Next \/ UNCHANGED <<log, lastId>>
      BY DEF Promise!vars
    <2>1. ASSUME NEW s \in Batches, Commit(s) PROVE Promise!Next
      <3>1. log \in Seq(Row) /\ s \in Seq(Row) /\ log' = log \o s
        BY <2>1, BatchesAssumption DEF TypeOK, Commit
      <3>2. /\ log' \in Seq(Row) /\ Len(log') >= Len(log)
            /\ \A i \in 1..Len(log) : log'[i] = log[i]
        BY <3>1, ConcatFacts
      <3>3. SubSeq(log', 1, Len(log)) = log
        BY <3>1, <3>2
      <3>. QED
        BY <2>1, <3>2, <3>3 DEF Commit, Promise!Next, Promise!Grow
    <2>2. ASSUME NEW f \in Followers, Receive(f) PROVE Promise!Next
      <3>1. /\ lastId' = [lastId EXCEPT ![f] = Head(pipe[f])]
            /\ Follows(FollowScope[f], lastId[f], Head(pipe[f]))
            /\ log' = log
        BY <2>2, ReceiveKeeps
      <3>2. Promise!IsNext(FollowScope[f], lastId[f], Head(pipe[f]))
        BY <3>1 DEF Follows, Readable, Rows, Promise!IsNext, Promise!Readable
      <3>3. Head(pipe[f]) \in DOMAIN log
        BY <3>1 DEF Follows, Readable, Rows
      <3>4. Promise!Deliver(f)
        BY <3>1, <3>2, <3>3 DEF Promise!Deliver
      <3>. QED
        BY <3>4 DEF Promise!Next
    <2>3. ASSUME NEW f \in Followers,
                 Connect(f) \/ TaskStep(f) \/ Disconnect(f)
          PROVE  UNCHANGED <<log, lastId>>
      BY <2>3 DEF Connect, TaskStep, SampleThrough, ReadPage, SendPageRow,
                  FinishPage, RecvLive, PushLive, RecvLagged, Disconnect, writerVars
    <2>4. CASE LookupSender \/ PublishRow \/ Restart
      BY <2>4 DEF LookupSender, PublishRow, Restart
    <2>5. CASE UNCHANGED vars
      BY <2>5 DEF vars, writerVars
    <2>. QED
      BY <2>1, <2>2, <2>3, <2>4, <2>5 DEF Next
  <1>. QED
    BY <1>1, <1>2, TypeCorrect, Delivery, PTL DEF Spec, ExactlyOnceInOrder, Promise!Spec
================================================================================
