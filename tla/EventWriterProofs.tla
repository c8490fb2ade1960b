--------------------------- MODULE EventWriterProofs ---------------------------
(***************************************************************************)
(* Proofs about EventWriter, for any requests, rows, batch limit, outbox   *)
(* rows, faults and restarts: the writer implements DurableLog, outbox     *)
(* rows reach the log once and in order, every caller is told the truth,   *)
(* and cursors are assigned in the order of the queue.                     *)
(***************************************************************************)
EXTENDS EventWriter, SequenceTheorems, FiniteSetTheorems, TLAPS

--------------------------------------------------------------------------------
\* The invariants

\* The members of a sequence.
In(s) == {s[k] : k \in DOMAIN s}
Once(s) == \A k, l \in DOMAIN s : s[k] = s[l] => k = l

\* A request is in the writer's hands once, and its caller waits.
FlightInv ==
    /\ Once(queue) /\ Once(batch)
    /\ In(queue) \cap In(batch) = {} /\ In(queue) \cap In(deferred) = {}
    /\ In(deferred) \cap In(batch) = {}
    /\ \A r \in In(queue) \cup In(batch) \cup In(deferred) : reply[r] = "waiting"

\* A flush is a batch of its own.
BatchInv ==
    /\ wpc = "idle" <=> batch = <<>>
    /\ wpc = "gather" => deferred = <<>>
    /\ In(batch) \subseteq Appends
       \/ (Len(batch) = 1 /\ batch[1] \in Flushers /\ wpc # "gather")

\* What a flusher read is older than what it did not.
IdsInv ==
    /\ nextId \in Nat \ {0} /\ outbox \subseteq 1 .. nextId - 1
    /\ \A f \in Flushers : ids[f] \subseteq 1 .. nextId - 1
    /\ \A f \in Flushers : \A i \in ids[f], j \in outbox : j \in ids[f] \/ i < j

\* The transaction of a flush has inserted the oldest of its rows, in order.
Inserting(f) ==
    /\ ids[f] \subseteq outbox /\ (todo = <<>> \/ todo = batch)
    /\ \A k \in DOMAIN staged : staged[k].origin = Outbox /\ staged[k].idx \in ids[f]
    /\ \A k, l \in DOMAIN staged : k < l => staged[k].idx < staged[l].idx
    /\ \A i \in ids[f] : \/ \E k \in DOMAIN staged : staged[k].idx = i
                         \/ todo # <<>> /\ \A k \in DOMAIN staged : staged[k].idx < i

StagedInv ==
    wpc = "insert" =>
        /\ batch[1] \in Flushers => Inserting(batch[1])
        /\ batch[1] \in Appends => /\ In(todo) \subseteq Appends
                                   /\ \A k \in DOMAIN staged : staged[k].origin \in Appends

\* Rows that were pending once are in the log, in order, below those that still are.
LogInv ==
    /\ \A c \in DOMAIN log : log[c].origin = Outbox =>
           log[c].idx \in 1 .. nextId - 1 /\ \A j \in outbox : log[c].idx < j
    /\ \A i \in 1 .. nextId - 1 : i \in outbox \/
           \E c \in DOMAIN log : log[c].origin = Outbox /\ log[c].idx = i
    /\ \A c, d \in DOMAIN log :
           (log[c].origin = Outbox /\ log[d].origin = Outbox /\ c < d) => log[c].idx < log[d].idx

\* Only the writer that has just committed owes publications.
PublishInv == /\ published <= Len(log)
              /\ wpc # "publish" => published = Len(log)

\* In the order o in which callers sent them.
Before(o, a, b) == \A i, j \in DOMAIN o : o[i] = a /\ o[j] = b => i < j
Ahead(o, S, T) == \A a \in S \cap Appends, b \in T \cap Appends : Before(o, a, b)
InOrder(o, s) == \A k, l \in DOMAIN s :
                     (k < l /\ s[k] \in Appends /\ s[l] \in Appends) => Before(o, s[k], s[l])
Origins(s) == {s[k].origin : k \in DOMAIN s}
RowsInOrder(o, s) == \A k, l \in DOMAIN s :
    (k < l /\ s[k].origin \in Appends /\ s[l].origin \in Appends)
        => s[k].origin = s[l].origin \/ Before(o, s[k].origin, s[l].origin)

\* The appends that were sent, once each.
SentInv == Once(order) /\ \A a \in Appends : a \in In(order) <=> reply[a] # "none"

\* Requests wait in the order they were sent.
LineInv ==
    /\ InOrder(order, queue) /\ InOrder(order, batch)
    /\ Ahead(order, In(deferred), In(queue))
    /\ Ahead(order, In(batch), In(queue)) /\ Ahead(order, In(batch), In(deferred))

\* A transaction inserts its appends in order.
SortedInv ==
    wpc = "insert" =>
        /\ InOrder(order, todo) /\ Once(todo) /\ In(todo) \subseteq In(batch)
        /\ RowsInOrder(order, staged) /\ Origins(staged) \cap Appends \subseteq In(batch)
        /\ Ahead(order, Origins(staged), In(todo))

\* What is in the log was sent before what is still to come.
CursorInv ==
    /\ RowsInOrder(order, log) /\ Origins(log) \cap Appends \subseteq In(order)
    /\ Ahead(order, Origins(log), In(queue)) /\ Ahead(order, Origins(log), In(deferred))
    /\ wpc \in {"gather", "begin", "insert"} => Ahead(order, Origins(log), In(batch))

\* The rows of append a, all of them and in one piece, after row c of s.
Block(s, a, c) == /\ c + Len(Rows[a]) <= Len(s)
                  /\ \A k \in 1 .. Len(Rows[a]) : s[c + k] = RowsOf(a)[k]
                  /\ \A d \in DOMAIN s : s[d].origin = a => d \in c + 1 .. c + Len(Rows[a])
Whole(s, a) == \E c \in 0 .. Len(s) : Block(s, a, c)

\* An append that may decline its event is alone in its batch.
CountInv ==
    /\ (Len(batch) = 1 /\ batch[1] \in Appends) => count = Size[batch[1]]
    /\ (Len(batch) > 1 \/ wpc = "gather") => In(batch) \cap Isolated = {}

\* A transaction holds the rows of the appends it is done with.
WholeInv ==
    wpc = "insert" =>
        \A a \in In(batch) \cap Appends : IF a \in In(todo) THEN a \notin Origins(staged)
                                          ELSE Whole(staged, a)

\* How a transaction ends, and why.
OutcomeInv ==
    /\ wpc = "publish" => outcome = "ok"
    /\ wpc = "reply" => outcome \in {"ok", "skipped", "refused", "fault"}
    /\ (wpc = "reply" /\ outcome \in {"skipped", "refused"}) =>
           \A a \in In(batch) \cap Appends : a \in Conditional /\ outcome = "skipped"

\* Whether the current transaction has been committed.
Committed == wpc = "publish" \/ (wpc = "reply" /\ outcome = "ok")

\* What the log has of an append whose caller was told, or will be told, w.
Told(s, p, a, w) ==
    /\ w \in {"none", "skipped", "refused", "fault"} => a \notin Origins(s)
    /\ w \in {"skipped", "refused"} => a \in Conditional /\ w = "skipped"
    /\ w = "ok" => Whole(s, a) /\ \A c \in DOMAIN s : s[c].origin = a => c <= p
    /\ w = "lost" => a \notin Origins(s) \/ Whole(s, a)

ReplyInv ==
    \A a \in Appends :
        /\ reply[a] # "read" /\ Told(log, published, a, reply[a])
        /\ reply[a] = "waiting" =>
               IF a \in In(batch) /\ Committed THEN Whole(log, a) ELSE a \notin Origins(log)

--------------------------------------------------------------------------------
\* Sequences

\* What is known of any sequence.
LEMMA Indices ==
    ASSUME NEW S, NEW s \in Seq(S)
    PROVE  /\ Len(s) \in Nat /\ DOMAIN s = 1 .. Len(s) /\ (s = <<>> <=> Len(s) = 0)
           /\ \A k \in DOMAIN s : s[k] \in S
           /\ In(s) \subseteq S /\ In(<<>>) = {} /\ Once(<<>>)
           /\ s # <<>> => 1 \in DOMAIN s /\ s[1] \in In(s)
<1>1. /\ Len(s) \in Nat /\ DOMAIN s = 1 .. Len(s) /\ (s = <<>> <=> Len(s) = 0)
      /\ \A k \in DOMAIN s : s[k] \in S
    OBVIOUS
<1>2. DOMAIN <<>> = {}
    OBVIOUS
<1>3. QED
    BY <1>1, <1>2 DEF In, Once

\* Adding at the end.
LEMMA Adding ==
    ASSUME NEW S, NEW s \in Seq(S), NEW x \in S
    PROVE  /\ Append(s, x) \in Seq(S) /\ Append(s, x) # <<>> /\ Len(Append(s, x)) = Len(s) + 1
           /\ DOMAIN Append(s, x) = 1 .. Len(s) + 1
           /\ \A k \in DOMAIN s : Append(s, x)[k] = s[k]
           /\ Append(s, x)[Len(s) + 1] = x
           /\ In(Append(s, x)) = In(s) \cup {x}
           /\ Once(s) /\ x \notin In(s) => Once(Append(s, x))
<1> DEFINE t == Append(s, x)
<1>1. /\ t \in Seq(S) /\ t # <<>> /\ Len(t) = Len(s) + 1 /\ DOMAIN t = 1 .. Len(s) + 1
      /\ \A k \in DOMAIN s : t[k] = s[k] /\ t[Len(s) + 1] = x
    BY AppendProperties
<1>2. Len(s) \in Nat /\ DOMAIN s = 1 .. Len(s) /\ t[Len(s) + 1] = x
    BY AppendProperties
<1>3. DOMAIN t = DOMAIN s \cup {Len(s) + 1} /\ Len(s) + 1 \notin DOMAIN s
    BY <1>1, <1>2
<1> HIDE DEF t
<1>4. In(t) = In(s) \cup {x}
    BY <1>1, <1>2, <1>3 DEF In
<1>5. Once(s) /\ x \notin In(s) => Once(t)
    BY <1>1, <1>2, <1>3 DEF Once, In
<1>6. QED
    BY <1>1, <1>2, <1>4, <1>5 DEF t

\* Taking the first.
LEMMA Removing ==
    ASSUME NEW S, NEW s \in Seq(S), s # <<>>
    PROVE  /\ Tail(s) \in Seq(S) /\ Head(s) \in S /\ Head(s) = s[1] /\ Head(s) \in In(s)
           /\ In(Tail(s)) \subseteq In(s)
           /\ Once(s) => Once(Tail(s)) /\ Head(s) \notin In(Tail(s))
<1> DEFINE t == Tail(s)
<1>1. /\ t \in Seq(S) /\ Len(t) = Len(s) - 1 /\ DOMAIN t = 1 .. Len(s) - 1 /\ Len(s) \in Nat
      /\ DOMAIN s = 1 .. Len(s) /\ Len(s) >= 1 /\ Head(s) = s[1] /\ Head(s) \in S
    OBVIOUS
<1>2. \A k \in 1 .. Len(s) - 1 : t[k] = s[k + 1] /\ k + 1 \in DOMAIN s /\ k + 1 # 1
    BY <1>1
<1>3. 1 \in DOMAIN s
    BY <1>1
<1> HIDE DEF t
<1>4. In(t) \subseteq In(s) /\ Head(s) \in In(s)
    BY <1>1, <1>2, <1>3 DEF In
<1>5. Once(s) => Head(s) \notin In(t)
    BY <1>1, <1>2, <1>3 DEF In, Once
<1>6. Once(s) => Once(t)
    <2>1. ASSUME Once(s), NEW k \in DOMAIN t, NEW l \in DOMAIN t, t[k] = t[l] PROVE k = l
        <3>1. k + 1 = l + 1
            BY <1>1, <1>2, <2>1 DEF Once
        <3>2. QED
            BY <1>1, <3>1
    <2>2. QED
        BY <2>1 DEF Once
<1>7. QED
    BY <1>1, <1>4, <1>5, <1>6 DEF t

\* A sequence of one.
LEMMA Single ==
    ASSUME NEW S, NEW x \in S
    PROVE  /\ <<x>> \in Seq(S) /\ Len(<<x>>) = 1 /\ <<x>>[1] = x /\ <<x>> # <<>>
           /\ In(<<x>>) = {x} /\ Once(<<x>>)
<1>1. <<x>> \in Seq(S) /\ Len(<<x>>) = 1 /\ <<x>>[1] = x /\ DOMAIN <<x>> = {1} /\ <<x>> # <<>>
    OBVIOUS
<1>2. QED
    BY <1>1 DEF In, Once

\* Adding many.
LEMMA Joining ==
    ASSUME NEW S, NEW s \in Seq(S), NEW t \in Seq(S)
    PROVE  /\ s \o t \in Seq(S) /\ Len(s \o t) = Len(s) + Len(t)
           /\ DOMAIN (s \o t) = 1 .. Len(s) + Len(t)
           /\ \A k \in DOMAIN s : (s \o t)[k] = s[k] /\ k \in DOMAIN (s \o t)
           /\ \A k \in DOMAIN t : (s \o t)[Len(s) + k] = t[k] /\ Len(s) + k \in DOMAIN (s \o t)
           /\ \A c \in DOMAIN (s \o t) : c \in DOMAIN s \/ (c - Len(s) \in DOMAIN t /\ c > Len(s))
           /\ SubSeq(s \o t, 1, Len(s)) = s /\ (t = <<>> => s \o t = s)
<1>1. /\ s \o t \in Seq(S) /\ Len(s \o t) = Len(s) + Len(t) /\ DOMAIN (s \o t) = 1 .. Len(s) + Len(t)
      /\ Len(s) \in Nat /\ Len(t) \in Nat /\ DOMAIN s = 1 .. Len(s) /\ DOMAIN t = 1 .. Len(t)
      /\ \A k \in 1 .. Len(s) : (s \o t)[k] = s[k]
      /\ \A k \in 1 .. Len(t) : (s \o t)[Len(s) + k] = t[k]
    OBVIOUS
<1>2. SubSeq(s \o t, 1, Len(s)) = s
    BY <1>1
<1>3. t = <<>> => s \o t = s
    BY ConcatEmptySeq
<1>4. \A c \in DOMAIN (s \o t) : c \in DOMAIN s \/ (c - Len(s) \in DOMAIN t /\ c > Len(s))
    BY <1>1
<1>5. \A k \in DOMAIN t : Len(s) + k \in DOMAIN (s \o t)
    BY <1>1
<1>6. \A k \in DOMAIN s : k \in DOMAIN (s \o t)
    BY <1>1
<1>7. QED
    BY <1>1, <1>2, <1>3, <1>4, <1>5, <1>6

--------------------------------------------------------------------------------
\* Types

LogTypes == log \in Seq(Row) /\ published \in Nat /\ mishaps \in Nat
CallerTypes ==
    /\ outbox \subseteq Nat /\ nextId \in Nat /\ ids \in [Flushers -> SUBSET Nat]
    /\ reply \in [Requests -> Status] /\ order \in Seq(Appends)
WaitingTypes == queue \in Seq(Requests) /\ deferred \in Seq(Requests) /\ Len(deferred) <= 1
BatchTypes == /\ batch \in Seq(Requests) /\ count \in Nat /\ (Len(batch) <= 1 \/ count <= BatchMax)
              /\ wpc \in {"idle", "gather", "begin", "insert", "publish", "reply"}
StagedTypes == todo \in Seq(Requests) /\ staged \in Seq(Row) /\ outcome \in Status

\* The type invariant in parts.
LEMMA TypeParts ==
    TypeOK <=> LogTypes /\ CallerTypes /\ WaitingTypes /\ BatchTypes /\ StagedTypes
BY Zenon DEF TypeOK, LogTypes, CallerTypes, WaitingTypes, BatchTypes, StagedTypes

\* The parts of the next state's type invariant.
LEMMA TypePartsNext ==
    TypeOK' <=> LogTypes' /\ CallerTypes' /\ WaitingTypes' /\ BatchTypes' /\ StagedTypes'
BY Zenon DEF TypeOK, LogTypes, CallerTypes, WaitingTypes, BatchTypes, StagedTypes

\* A request has a number of events.
LEMMA SizeIsNat ==
    ASSUME TypeOK, IdsInv, NEW r \in Requests
    PROVE  SizeOf(r) \in Nat
<1>1. CASE r \in Appends
    BY <1>1, RowsAssumption DEF SizeOf
<1>2. CASE r \notin Appends
    <2>1. r \in Flushers /\ ids[r] \subseteq 1 .. nextId - 1 /\ nextId - 1 \in Nat
        BY <1>2 DEF Requests, IdsInv
    <2>2. IsFiniteSet(1 .. nextId - 1)
        BY <2>1, FS_Interval
    <2>3. Cardinality(ids[r]) \in Nat
        BY <2>1, <2>2, FS_Subset, FS_CardinalityType
    <2>4. QED
        BY <1>2, <2>3 DEF SizeOf
<1>3. QED
    BY <1>1, <1>2

\* The rows of an append.
LEMMA RowsAreRows ==
    ASSUME NEW a \in Appends
    PROVE  /\ RowsOf(a) \in Seq(Row)
           /\ \A k \in DOMAIN RowsOf(a) : RowsOf(a)[k].origin = a
<1>1. Rows[a] \in Seq(Scopes) /\ Len(Rows[a]) \in Nat
    BY RowsAssumption
<1>2. \A k \in 1 .. Len(Rows[a]) : Rows[a][k] \in Scopes
    BY <1>1
<1>3. \A k \in 1 .. Len(Rows[a]) :
          [scope |-> Rows[a][k], origin |-> a, idx |-> k] \in Row
    BY <1>1, <1>2 DEF Row
<1>4. RowsOf(a) \in [1 .. Len(Rows[a]) -> Row]
    BY <1>3 DEF RowsOf
<1>5. QED
    BY <1>1, <1>4 DEF RowsOf

\* The end of a transaction.
Ends(o) == /\ wpc \in {"begin", "insert"} /\ wpc' = "reply" /\ outcome' = o
           /\ o \in {"skipped", "refused", "fault"} /\ o \in Status
           /\ todo' = <<>> /\ staged' = <<>> /\ mishaps' \in Nat
           /\ UNCHANGED <<log, published, queue, callerVars, batch, count, deferred>>

Aborts == SkipStaleFlush \/ DeclineAppend \/ StorageFault

\* A transaction that is given up leaves log and outbox alone.
LEMMA AbortEnds ==
    ASSUME TypeOK, Aborts
    PROVE  \E o : Ends(o)
<1>0. mishaps \in Nat
    BY DEF TypeOK
<1>1. CASE SkipStaleFlush
    <2>1. Ends("skipped")
        BY <1>0, <1>1 DEF SkipStaleFlush, End, Ends, Status
    <2>2. QED
        BY <2>1
<1>2. CASE DeclineAppend
    <2> DEFINE o == IF count <= 1 THEN "skipped" ELSE "refused"
    <2>1. o \in {"skipped", "refused", "fault"} /\ o \in Status
        BY DEF Status
    <2>2. wpc = "insert" /\ End(o) /\ mishaps' = mishaps
        BY <1>2 DEF DeclineAppend
    <2>3. Ends(o)
        BY <1>0, <2>1, <2>2 DEF End, Ends
    <2>4. QED
        BY <2>3
<1>3. CASE StorageFault
    <2>1. Ends("fault")
        BY <1>0, <1>3 DEF StorageFault, End, Ends, Status
    <2>2. QED
        BY <2>1
<1>4. QED
    BY <1>1, <1>2, <1>3 DEF Aborts

\* Taking the first request of a batch.
Starts(r) == /\ r \in Requests /\ wpc = "idle" /\ batch' = <<r>> /\ count' = SizeOf(r)
             /\ wpc' = AfterTaking(r, SizeOf(r)) /\ wpc' \in {"gather", "begin"}
             /\ UNCHANGED <<log, published, callerVars, todo, staged, outcome, mishaps>>

\* It is the one put aside, or else the first of the queue.
LEMMA TakeStarts ==
    ASSUME TypeOK, TakeDeferred \/ TakeFirst
    PROVE  \E r \in Requests :
               /\ Starts(r)
               /\ \/ deferred = <<r>> /\ deferred' = <<>> /\ queue' = queue
                  \/ /\ deferred = <<>> /\ deferred' = deferred /\ queue # <<>>
                     /\ r = Head(queue) /\ queue' = Tail(queue)
<1>1. CASE TakeDeferred
    <2>1. deferred \in Seq(Requests) /\ Len(deferred) <= 1 /\ deferred # <<>>
        BY <1>1 DEF TakeDeferred, TypeOK
    <2>p. /\ Len(deferred) \in Nat /\ Len(deferred) # 0 /\ 1 \in DOMAIN deferred
          /\ \A k \in DOMAIN deferred : deferred[k] \in Requests
        BY <2>1, Indices
    <2>q. ASSUME NEW n \in Nat, n # 0, n <= 1 PROVE n = 1
        BY <2>q
    <2>a. Len(deferred) = 1 /\ deferred[1] \in Requests
        BY <2>1, <2>p, <2>q, Zenon
    <2>b. <<deferred[1]>> \in Seq(Requests) /\ Len(<<deferred[1]>>) = 1
        BY <2>a
    <2>c. \A k \in 1 .. Len(deferred) : deferred[k] = <<deferred[1]>>[k]
        BY <2>a
    <2>2. deferred[1] \in Requests /\ deferred = <<deferred[1]>>
        BY <2>1, <2>a, <2>b, <2>c, SeqEqual
    <2>3. Starts(deferred[1])
        BY <1>1, <2>2 DEF TakeDeferred, Start, Starts, AfterTaking
    <2>4. QED
        BY <1>1, <2>2, <2>3 DEF TakeDeferred
<1>2. CASE TakeFirst
    <2>1. Head(queue) \in Requests /\ queue # <<>>
        BY <1>2, Removing DEF TakeFirst, TypeOK
    <2>2. Starts(Head(queue))
        BY <1>2, <2>1 DEF TakeFirst, Start, Starts, AfterTaking
    <2>3. QED
        BY <1>2, <2>1, <2>2 DEF TakeFirst
<1>3. QED
    BY <1>1, <1>2


--------------------------------------------------------------------------------
\* Orders and blocks

\* A request sent last is behind all the others, which keep their order.
LEMMA SentLast ==
    ASSUME NEW o \in Seq(Appends), NEW x \in Appends, x \notin In(o)
    PROVE  /\ In(Append(o, x)) = In(o) \cup {x} /\ (Once(o) => Once(Append(o, x)))
           /\ \A a, b \in In(o) : Before(o, a, b) => Before(Append(o, x), a, b)
           /\ \A a \in In(o) : Before(Append(o, x), a, x)
<1> DEFINE p == Append(o, x)
           n == Len(o) + 1
<1>1. /\ In(p) = In(o) \cup {x} /\ (Once(o) => Once(p))
      /\ Len(o) \in Nat /\ DOMAIN o = 1 .. Len(o) /\ DOMAIN p = 1 .. n
      /\ \A k \in DOMAIN o : p[k] = o[k] /\ p[n] = x
    BY Adding, Indices
<1>2. p[n] = x
    BY Adding
<1>3. \A k \in DOMAIN p : k \in DOMAIN o \/ k = n
    BY <1>1
<1>4. \A k \in DOMAIN o : k < n
    BY <1>1
<1>5. \A k \in DOMAIN p : p[k] \in In(o) => k \in DOMAIN o
    BY <1>2, <1>3
<1>6. \A k \in DOMAIN p : p[k] = x => k = n
    BY <1>1, <1>3 DEF In
<1> HIDE DEF p, n
<1>7. \A a, b \in In(o) : Before(o, a, b) => Before(p, a, b)
    BY <1>1, <1>5 DEF Before
<1>8. \A a \in In(o) : Before(p, a, x)
    BY <1>4, <1>5, <1>6 DEF Before
<1>9. QED
    BY <1>1, <1>7, <1>8 DEF p

\* Ahead of nothing, of less, of more.
LEMMA AheadSets ==
    ASSUME NEW o
    PROVE  /\ \A S : Ahead(o, S, {}) /\ Ahead(o, {}, S)
           /\ \A S, T, U, V : (Ahead(o, S, T) /\ U \cap Appends \subseteq S /\ V \cap Appends \subseteq T)
                                 => Ahead(o, U, V)
           /\ \A S, T, U : Ahead(o, S, T) /\ Ahead(o, S, U) => Ahead(o, S, T \cup U)
           /\ \A S, T, U : Ahead(o, S, U) /\ Ahead(o, T, U) => Ahead(o, S \cup T, U)
<1>1. \A S : Ahead(o, S, {}) /\ Ahead(o, {}, S)
    BY DEF Ahead
<1>2. \A S, T, U, V : (Ahead(o, S, T) /\ U \cap Appends \subseteq S /\ V \cap Appends \subseteq T)
                          => Ahead(o, U, V)
    BY DEF Ahead
<1>3. \A S, T, U : Ahead(o, S, T) /\ Ahead(o, S, U) => Ahead(o, S, T \cup U)
    BY DEF Ahead
<1>4. \A S, T, U : Ahead(o, S, U) /\ Ahead(o, T, U) => Ahead(o, S \cup T, U)
    BY DEF Ahead
<1>5. QED
    BY <1>1, <1>2, <1>3, <1>4

\* What was in order stays in order when another request is sent.
LEMMA OrderKept ==
    ASSUME NEW o \in Seq(Appends), NEW x \in Appends, x \notin In(o)
    PROVE  /\ \A S, T : (Ahead(o, S, T) /\ S \cap Appends \subseteq In(o) /\ T \cap Appends \subseteq In(o))
                            => Ahead(Append(o, x), S, T)
           /\ \A S : S \cap Appends \subseteq In(o) => Ahead(Append(o, x), S, {x})
           /\ \A s : (InOrder(o, s) /\ In(s) \cap Appends \subseteq In(o)) => InOrder(Append(o, x), s)
           /\ \A s : (RowsInOrder(o, s) /\ Origins(s) \cap Appends \subseteq In(o))
                         => RowsInOrder(Append(o, x), s)
<1> DEFINE p == Append(o, x)
<1>1. /\ \A a, b \in In(o) : Before(o, a, b) => Before(p, a, b)
      /\ \A a \in In(o) : Before(p, a, x)
    BY SentLast
<1> HIDE DEF p
<1>2. \A S, T : (Ahead(o, S, T) /\ S \cap Appends \subseteq In(o) /\ T \cap Appends \subseteq In(o))
                    => Ahead(p, S, T)
    BY <1>1 DEF Ahead
<1>3. \A S : S \cap Appends \subseteq In(o) => Ahead(p, S, {x})
    BY <1>1 DEF Ahead
<1>4. ASSUME NEW s, InOrder(o, s), In(s) \cap Appends \subseteq In(o) PROVE InOrder(p, s)
    <2>1. \A k \in DOMAIN s : s[k] \in In(s)
        BY DEF In
    <2>2. QED
        BY <1>1, <1>4, <2>1 DEF InOrder
<1>5. ASSUME NEW s, RowsInOrder(o, s), Origins(s) \cap Appends \subseteq In(o) PROVE RowsInOrder(p, s)
    <2>1. \A k \in DOMAIN s : s[k].origin \in Origins(s)
        BY DEF Origins
    <2>2. QED
        BY <1>1, <1>5, <2>1 DEF RowsInOrder
<1>6. QED
    BY <1>2, <1>3, <1>4, <1>5 DEF p

\* A queue stays in order when it grows by a request sent later.
LEMMA LineGrows ==
    ASSUME NEW o, NEW s \in Seq(Requests), NEW x \in Requests, InOrder(o, s), Ahead(o, In(s), {x})
    PROVE  InOrder(o, Append(s, x))
<1> DEFINE t == Append(s, x)
           n == Len(s) + 1
<1>1. /\ Len(s) \in Nat /\ DOMAIN s = 1 .. Len(s) /\ DOMAIN t = 1 .. n
      /\ \A k \in DOMAIN s : t[k] = s[k] /\ s[k] \in In(s)
    BY Adding, Indices DEF In
<1>2. t[n] = x
    BY Adding
<1> HIDE DEF t
<1>3. ASSUME NEW k \in DOMAIN t, NEW l \in DOMAIN t, k < l, t[k] \in Appends, t[l] \in Appends
      PROVE  Before(o, t[k], t[l])
    <2>1. k \in DOMAIN s /\ (l \in DOMAIN s \/ l = n)
        BY <1>1, <1>3
    <2>2. CASE l \in DOMAIN s
        BY <1>1, <1>3, <2>1, <2>2 DEF InOrder
    <2>3. CASE l = n
        <3>1. t[k] \in In(s) /\ t[l] = x
            BY <1>1, <1>2, <2>1, <2>3
        <3>2. QED
            BY <1>3, <3>1 DEF Ahead
    <2>4. QED
        BY <2>1, <2>2, <2>3
<1>4. InOrder(o, t)
    BY <1>3 DEF InOrder
<1>5. QED
    BY <1>4 DEF t

\* Without its first request, which is ahead of the others, a queue stays in order.
LEMMA LineShrinks ==
    ASSUME NEW o, NEW s \in Seq(Requests), s # <<>>, InOrder(o, s)
    PROVE  InOrder(o, Tail(s)) /\ Ahead(o, {Head(s)}, In(Tail(s)))
<1> DEFINE t == Tail(s)
<1>1. /\ Len(s) \in Nat /\ Len(s) >= 1 /\ DOMAIN s = 1 .. Len(s) /\ DOMAIN t = 1 .. Len(s) - 1
      /\ Head(s) = s[1] /\ \A k \in 1 .. Len(s) - 1 : t[k] = s[k + 1]
    OBVIOUS
<1>2. \A k \in DOMAIN t : k + 1 \in DOMAIN s /\ 1 < k + 1 /\ 1 \in DOMAIN s
    BY <1>1
<1>3. \A k, l \in DOMAIN t : k < l => k + 1 < l + 1
    BY <1>1
<1> HIDE DEF t
<1>4. InOrder(o, t)
    BY <1>1, <1>2, <1>3 DEF InOrder
<1>5. Ahead(o, {s[1]}, In(t))
    <2>1. ASSUME NEW k \in DOMAIN t, s[1] \in Appends, t[k] \in Appends PROVE Before(o, s[1], t[k])
        BY <1>1, <1>2, <2>1 DEF InOrder
    <2>2. QED
        BY <2>1 DEF Ahead, In
<1>6. QED
    BY <1>1, <1>4, <1>5 DEF t

\* The rows of two sequences, one after the other.
LEMMA RowsJoin ==
    ASSUME NEW s \in Seq(Row), NEW t \in Seq(Row)
    PROVE  /\ Origins(s \o t) = Origins(s) \cup Origins(t)
           /\ \A o : RowsInOrder(o, s) /\ RowsInOrder(o, t) /\ Ahead(o, Origins(s), Origins(t))
                         => RowsInOrder(o, s \o t)
<1> DEFINE u == s \o t
<1>1. /\ Len(s) \in Nat /\ DOMAIN s = 1 .. Len(s) /\ DOMAIN t = 1 .. Len(t) /\ Len(t) \in Nat
      /\ DOMAIN u = 1 .. Len(s) + Len(t)
      /\ \A k \in DOMAIN s : u[k] = s[k] /\ k \in DOMAIN u
    BY Joining, Indices
<1>2. \A k \in DOMAIN t : u[Len(s) + k] = t[k] /\ Len(s) + k \in DOMAIN u
    BY Joining
<1>3. ASSUME NEW c \in DOMAIN u, c \notin DOMAIN s PROVE \E k \in DOMAIN t : c = Len(s) + k
    <2>1. c - Len(s) \in DOMAIN t /\ c = Len(s) + (c - Len(s))
        BY <1>1, <1>3
    <2>2. QED
        BY <2>1
<1> HIDE DEF u
<1>4. Origins(u) = Origins(s) \cup Origins(t)
    <2>1. ASSUME NEW x \in Origins(u) PROVE x \in Origins(s) \cup Origins(t)
        <3>1. PICK c \in DOMAIN u : x = u[c].origin
            BY <2>1 DEF Origins
        <3>2. QED
            BY <1>1, <1>2, <1>3, <3>1 DEF Origins
    <2>2. ASSUME NEW x \in Origins(s) \cup Origins(t) PROVE x \in Origins(u)
        BY <1>1, <1>2, <2>2 DEF Origins
    <2>3. QED
        BY <2>1, <2>2
<1>5. ASSUME NEW o, RowsInOrder(o, s), RowsInOrder(o, t), Ahead(o, Origins(s), Origins(t)),
             NEW c \in DOMAIN u, NEW d \in DOMAIN u, c < d,
             u[c].origin \in Appends, u[d].origin \in Appends
      PROVE  u[c].origin = u[d].origin \/ Before(o, u[c].origin, u[d].origin)
    <2>1. CASE d \in DOMAIN s
        <3>1. c \in DOMAIN s
            BY <1>1, <1>5, <2>1
        <3>2. QED
            BY <1>1, <1>5, <2>1, <3>1 DEF RowsInOrder
    <2>2. CASE c \in DOMAIN s /\ d \notin DOMAIN s
        <3>1. PICK l \in DOMAIN t : d = Len(s) + l
            BY <1>3, <2>2
        <3>2. u[c].origin \in Origins(s) /\ u[d].origin \in Origins(t)
            BY <1>1, <1>2, <2>2, <3>1 DEF Origins
        <3>3. QED
            BY <1>5, <3>2 DEF Ahead
    <2>3. CASE c \notin DOMAIN s /\ d \notin DOMAIN s
        <3>1. PICK k \in DOMAIN t : c = Len(s) + k
            BY <1>3, <2>3
        <3>2. PICK l \in DOMAIN t : d = Len(s) + l
            BY <1>3, <2>3
        <3>3. k < l
            BY <1>1, <1>5, <3>1, <3>2
        <3>4. u[c] = t[k] /\ u[d] = t[l]
            BY <1>2, <3>1, <3>2
        <3>5. QED
            BY <1>5, <3>3, <3>4 DEF RowsInOrder
    <2>4. QED
        BY <2>1, <2>2, <2>3
<1>6. \A o : RowsInOrder(o, s) /\ RowsInOrder(o, t) /\ Ahead(o, Origins(s), Origins(t))
                 => RowsInOrder(o, u)
    BY <1>5 DEF RowsInOrder
<1>7. QED
    BY <1>4, <1>6 DEF u

\* A block stays one whatever precedes and follows.
LEMMA BlockStays ==
    ASSUME NEW s \in Seq(Row), NEW t \in Seq(Row), NEW a \in Appends
    PROVE  /\ Whole(s, a) /\ a \notin Origins(t) => Whole(s \o t, a)
           /\ a \notin Origins(s) /\ Whole(t, a) => Whole(s \o t, a)
<1> DEFINE u == s \o t
           n == Len(Rows[a])
<1>1. /\ Len(s) \in Nat /\ DOMAIN s = 1 .. Len(s) /\ DOMAIN t = 1 .. Len(t) /\ Len(t) \in Nat
      /\ DOMAIN u = 1 .. Len(s) + Len(t) /\ Len(u) = Len(s) + Len(t)
      /\ \A k \in DOMAIN s : u[k] = s[k] /\ k \in DOMAIN u
    BY Joining, Indices
<1>2. \A k \in DOMAIN t : u[Len(s) + k] = t[k] /\ Len(s) + k \in DOMAIN u
    BY Joining
<1>3. ASSUME NEW c \in DOMAIN u, c \notin DOMAIN s PROVE \E k \in DOMAIN t : c = Len(s) + k
    <2>1. c - Len(s) \in DOMAIN t /\ c = Len(s) + (c - Len(s))
        BY <1>1, <1>3
    <2>2. QED
        BY <2>1
<1>4. n \in Nat
    BY RowsAssumption
<1> HIDE DEF u, n
<1>5. ASSUME Whole(s, a), a \notin Origins(t) PROVE Whole(u, a)
    <2>1. PICK c \in 0 .. Len(s) : Block(s, a, c)
        BY <1>5 DEF Whole
    <2>2. /\ c + n <= Len(s) /\ \A k \in 1 .. n : s[c + k] = RowsOf(a)[k]
          /\ \A d \in DOMAIN s : s[d].origin = a => d \in c + 1 .. c + n
        BY <2>1 DEF Block, n
    <2>3. \A k \in 1 .. n : c + k \in DOMAIN s
        BY <1>1, <1>4, <2>2
    <2>4. \A k \in 1 .. n : u[c + k] = RowsOf(a)[k]
        BY <1>1, <2>2, <2>3
    <2>5. \A d \in DOMAIN u : u[d].origin = a => d \in DOMAIN s
        BY <1>2, <1>3, <1>5 DEF Origins
    <2>6. \A d \in DOMAIN u : u[d].origin = a => d \in c + 1 .. c + n
        BY <1>1, <2>2, <2>5
    <2>7. c \in 0 .. Len(u) /\ c + n <= Len(u)
        BY <1>1, <1>4, <2>2
    <2>8. Block(u, a, c)
        BY <2>4, <2>6, <2>7 DEF Block, n
    <2>9. QED
        BY <2>7, <2>8 DEF Whole
<1>6. ASSUME a \notin Origins(s), Whole(t, a) PROVE Whole(u, a)
    <2>1. PICK c \in 0 .. Len(t) : Block(t, a, c)
        BY <1>6 DEF Whole
    <2>2. /\ c + n <= Len(t) /\ \A k \in 1 .. n : t[c + k] = RowsOf(a)[k]
          /\ \A d \in DOMAIN t : t[d].origin = a => d \in c + 1 .. c + n
        BY <2>1 DEF Block, n
    <2>3. \A k \in 1 .. n : c + k \in DOMAIN t /\ Len(s) + (c + k) = (Len(s) + c) + k
        BY <1>1, <1>4, <2>2
    <2>4. \A k \in 1 .. n : u[(Len(s) + c) + k] = RowsOf(a)[k]
        <3>1. ASSUME NEW k \in 1 .. n PROVE u[(Len(s) + c) + k] = RowsOf(a)[k]
            <4>1. u[Len(s) + (c + k)] = t[c + k]
                BY <1>2, <2>3
            <4>2. QED
                BY <2>2, <2>3, <4>1
        <3>2. QED
            BY <3>1
    <2>5. ASSUME NEW d \in DOMAIN u, u[d].origin = a PROVE d \in (Len(s) + c) + 1 .. (Len(s) + c) + n
        <3>1. d \notin DOMAIN s
            BY <1>1, <1>6, <2>5 DEF Origins
        <3>2. PICK l \in DOMAIN t : d = Len(s) + l
            BY <1>3, <3>1
        <3>3. l \in c + 1 .. c + n
            BY <1>2, <2>2, <2>5, <3>2
        <3>4. QED
            BY <1>1, <1>4, <3>2, <3>3
    <2>6. Len(s) + c \in 0 .. Len(u) /\ (Len(s) + c) + n <= Len(u)
        BY <1>1, <1>4, <2>2
    <2>7. Block(u, a, Len(s) + c)
        BY <2>4, <2>5, <2>6 DEF Block, n
    <2>8. QED
        BY <2>6, <2>7 DEF Whole
<1>7. QED
    BY <1>5, <1>6 DEF u

\* The rows of an append are a block of it and of nobody else.
LEMMA RowsAreWhole ==
    ASSUME NEW a \in Appends
    PROVE  Whole(RowsOf(a), a) /\ Origins(RowsOf(a)) \subseteq {a} /\ \A o : RowsInOrder(o, RowsOf(a))
<1>1. Len(Rows[a]) \in Nat
    BY RowsAssumption
<1>2. RowsOf(a) \in Seq(Row) /\ \A k \in DOMAIN RowsOf(a) : RowsOf(a)[k].origin = a
    BY RowsAreRows
<1>3. DOMAIN RowsOf(a) = 1 .. Len(Rows[a])
    BY DEF RowsOf
<1>4. Len(RowsOf(a)) = Len(Rows[a])
    BY <1>1, <1>2, <1>3, LenProperties
<1>5. 0 \in 0 .. Len(RowsOf(a)) /\ \A k \in 1 .. Len(Rows[a]) : 0 + k = k
    BY <1>1, <1>4
<1>6. Block(RowsOf(a), a, 0)
    BY <1>1, <1>3, <1>4, <1>5 DEF Block
<1>7. QED
    BY <1>2, <1>5, <1>6 DEF Whole, Origins, RowsInOrder
--------------------------------------------------------------------------------
\* The type invariant

\* The writer starts typed.
LEMMA TypeStart == Init => TypeOK /\ IdsInv
<1> SUFFICES ASSUME Init PROVE TypeOK /\ IdsInv
    OBVIOUS
<1>1. LogTypes
    BY DEF Init, LogTypes
<1>2. CallerTypes
    BY DEF Init, CallerTypes, Status
<1>3. WaitingTypes
    BY DEF Init, WaitingTypes
<1>4. BatchTypes
    BY DEF Init, BatchTypes
<1>5. StagedTypes
    BY DEF Init, StagedTypes, Status
<1>6. IdsInv
    BY DEF Init, IdsInv
<1>7. QED
    BY <1>1, <1>2, <1>3, <1>4, <1>5, <1>6, TypeParts

\* The log is typed.
LEMMA LogTyped ==
    ASSUME TypeOK, Next
    PROVE  LogTypes'
<1>0. LogTypes /\ staged \in Seq(Row)
    BY TypeParts DEF StagedTypes
<1>1. CASE \E a \in Appends : Send(a)
    BY <1>0, <1>1 DEF Send, LogTypes
<1>2. CASE EnqueueOutbox
    BY <1>0, <1>2 DEF EnqueueOutbox, LogTypes
<1>3. CASE \E f \in Flushers : ReadPending(f) \/ SendFlush(f)
    BY <1>0, <1>3 DEF ReadPending, SendFlush, LogTypes
<1>4. CASE TakeDeferred \/ TakeFirst
    BY <1>0, <1>4 DEF TakeDeferred, TakeFirst, Start, LogTypes
<1>5. CASE GatherMore \/ Defer \/ QueueEmpty
    BY <1>0, <1>5 DEF GatherMore, Defer, QueueEmpty, LogTypes
<1>6. CASE Aborts
    BY <1>0, <1>6, AbortEnds DEF Ends, LogTypes
<1>7. CASE Begin \/ InsertAppend \/ InsertOutbox
    BY <1>0, <1>7 DEF Begin, InsertAppend, InsertOutbox, LogTypes
<1>8. CASE CommitBatch
    <2>1. log \o staged \in Seq(Row)
        BY <1>0, Joining DEF LogTypes
    <2>2. QED
        BY <1>0, <1>8, <2>1 DEF CommitBatch, LogTypes
<1>9. CASE PublishRow \/ PublishedAll \/ SendReplies
    BY <1>0, <1>9 DEF PublishRow, PublishedAll, SendReplies, LogTypes
<1>10. CASE Restart
    <2>1. Len(log) \in Nat
        BY <1>0 DEF LogTypes
    <2>2. QED
        BY <1>0, <1>10, <2>1 DEF Restart, LogTypes
<1>11. QED
    BY <1>1, <1>2, <1>3, <1>4, <1>5, <1>6, <1>7, <1>8, <1>9, <1>10
       DEF Next, Gather, Transact, Announce, Aborts

\* What callers keep is typed.
LEMMA CallersTyped ==
    ASSUME TypeOK, Next
    PROVE  CallerTypes'
<1>0. CallerTypes /\ outcome \in Status
    BY TypeParts DEF StagedTypes
<1>1. ASSUME NEW a \in Appends, Send(a) PROVE CallerTypes'
    <2>1. Append(order, a) \in Seq(Appends)
        BY <1>0, <1>1, Adding DEF CallerTypes
    <2>2. reply' \in [Requests -> Status]
        BY <1>0, <1>1 DEF Send, CallerTypes, Status
    <2>3. QED
        BY <1>0, <1>1, <2>1, <2>2 DEF Send, CallerTypes
<1>2. CASE EnqueueOutbox
    BY <1>0, <1>2 DEF EnqueueOutbox, CallerTypes
<1>3. ASSUME NEW f \in Flushers, ReadPending(f) PROVE CallerTypes'
    <2>1. reply' \in [Requests -> Status]
        BY <1>0, <1>3 DEF ReadPending, CallerTypes, Status
    <2>2. ids' \in [Flushers -> SUBSET Nat]
        BY <1>0, <1>3 DEF ReadPending, CallerTypes
    <2>3. QED
        BY <1>0, <1>3, <2>1, <2>2 DEF ReadPending, CallerTypes
<1>4. ASSUME NEW f \in Flushers, SendFlush(f) PROVE CallerTypes'
    <2>1. reply' \in [Requests -> Status]
        BY <1>0, <1>4 DEF SendFlush, CallerTypes, Status
    <2>2. QED
        BY <1>0, <1>4, <2>1 DEF SendFlush, CallerTypes
<1>5. CASE TakeDeferred \/ TakeFirst
    BY <1>0, <1>5 DEF TakeDeferred, TakeFirst, Start, CallerTypes, callerVars
<1>6. CASE GatherMore \/ Defer \/ QueueEmpty
    BY <1>0, <1>6 DEF GatherMore, Defer, QueueEmpty, CallerTypes, callerVars
<1>7. CASE Aborts
    BY <1>0, <1>7, AbortEnds DEF Ends, CallerTypes, callerVars
<1>8. CASE Begin \/ InsertAppend \/ InsertOutbox \/ PublishRow \/ PublishedAll
    BY <1>0, <1>8 DEF Begin, InsertAppend, InsertOutbox, PublishRow, PublishedAll,
                      CallerTypes, callerVars
<1>9. CASE CommitBatch
    BY <1>0, <1>9 DEF CommitBatch, CallerTypes
<1>10. CASE SendReplies
    <2>1. reply' \in [Requests -> Status]
        BY <1>0, <1>10 DEF SendReplies, CallerTypes
    <2>2. QED
        BY <1>0, <1>10, <2>1 DEF SendReplies, CallerTypes
<1>11. CASE Restart
    <2>1. reply' \in [Requests -> Status]
        BY <1>0, <1>11 DEF Restart, CallerTypes, Status
    <2>2. ids' \in [Flushers -> SUBSET Nat]
        BY <1>11 DEF Restart
    <2>3. QED
        BY <1>0, <1>11, <2>1, <2>2 DEF Restart, CallerTypes
<1>12. QED
    BY <1>1, <1>2, <1>3, <1>4, <1>5, <1>6, <1>7, <1>8, <1>9, <1>10, <1>11
       DEF Next, Gather, Transact, Announce, Aborts

\* What waits for the writer is typed.
LEMMA WaitingTyped ==
    ASSUME TypeOK, Next
    PROVE  WaitingTypes'
<1>0. WaitingTypes /\ <<>> \in Seq(Requests) /\ Len(<<>>) = 0
    BY TypeParts
<1>1. ASSUME NEW a \in Requests, queue' = Append(queue, a), deferred' = deferred PROVE WaitingTypes'
    BY <1>0, <1>1, Adding DEF WaitingTypes
<1>2. ASSUME queue # <<>>, queue' = Tail(queue), deferred' = deferred PROVE WaitingTypes'
    BY <1>0, <1>2, Removing DEF WaitingTypes
<1>3. CASE (\E a \in Appends : Send(a)) \/ \E f \in Flushers : SendFlush(f)
    BY <1>1, <1>3 DEF Send, SendFlush, Requests, writerVars
<1>4. CASE EnqueueOutbox \/ \E f \in Flushers : ReadPending(f)
    BY <1>0, <1>4 DEF EnqueueOutbox, ReadPending, writerVars, WaitingTypes
<1>5. CASE TakeDeferred
    BY <1>0, <1>5 DEF TakeDeferred, WaitingTypes
<1>6. CASE TakeFirst \/ GatherMore
    BY <1>2, <1>6 DEF TakeFirst, GatherMore
<1>7. CASE Defer
    <2>1. queue # <<>> /\ Tail(queue) \in Seq(Requests) /\ Head(queue) \in Requests
        BY <1>0, <1>7, Removing DEF Defer, WaitingTypes
    <2>2. <<Head(queue)>> \in Seq(Requests) /\ Len(<<Head(queue)>>) = 1
        BY <2>1, Single
    <2>3. QED
        BY <1>7, <2>1, <2>2 DEF Defer, WaitingTypes
<1>8. CASE QueueEmpty
    BY <1>0, <1>8 DEF QueueEmpty, WaitingTypes
<1>9. CASE Aborts
    BY <1>0, <1>9, AbortEnds DEF Ends, WaitingTypes
<1>10. CASE Begin \/ InsertAppend \/ InsertOutbox \/ CommitBatch
    BY <1>0, <1>10 DEF Begin, InsertAppend, InsertOutbox, CommitBatch, WaitingTypes
<1>11. CASE PublishRow \/ PublishedAll \/ SendReplies
    BY <1>0, <1>11 DEF PublishRow, PublishedAll, SendReplies, WaitingTypes, writerVars
<1>12. CASE Restart
    BY <1>0, <1>12 DEF Restart, WaitingTypes
<1>13. QED
    BY <1>3, <1>4, <1>5, <1>6, <1>7, <1>8, <1>9, <1>10, <1>11, <1>12
       DEF Next, Gather, Transact, Announce, Aborts

\* The batch is typed, and only one caller's events exceed the limit.
LEMMA BatchTyped ==
    ASSUME TypeOK, IdsInv, Next
    PROVE  BatchTypes'
<1>0. BatchTypes /\ WaitingTypes /\ <<>> \in Seq(Requests) /\ Len(<<>>) = 0
    BY TypeParts
<1>1. ASSUME UNCHANGED <<batch, count>>,
             wpc' \in {"idle", "gather", "begin", "insert", "publish", "reply"}
      PROVE  BatchTypes'
    BY <1>0, <1>1 DEF BatchTypes
<1>2. CASE (\E a \in Appends : Send(a)) \/ EnqueueOutbox
           \/ \E f \in Flushers : ReadPending(f) \/ SendFlush(f)
    BY <1>0, <1>2 DEF Send, EnqueueOutbox, ReadPending, SendFlush, writerVars, BatchTypes
<1>3. CASE TakeDeferred \/ TakeFirst
    <2>1. PICK r \in Requests : Starts(r)
        BY <1>3, TakeStarts
    <2>2. SizeOf(r) \in Nat
        BY SizeIsNat
    <2>3. <<r>> \in Seq(Requests) /\ Len(<<r>>) = 1
        BY Single
    <2>4. QED
        BY <2>1, <2>2, <2>3 DEF Starts, BatchTypes
<1>4. CASE GatherMore
    <2>1. Head(queue) \in Requests
        BY <1>0, <1>4, Removing DEF GatherMore, WaitingTypes
    <2>2. Append(batch, Head(queue)) \in Seq(Requests)
        BY <1>0, <2>1, Adding DEF BatchTypes
    <2>3. SizeOf(Head(queue)) \in Nat
        BY <2>1, SizeIsNat
    <2>4. count' \in Nat /\ count' <= BatchMax
        BY <1>0, <1>4, <2>3 DEF GatherMore, Joins, BatchTypes
    <2>5. wpc' \in {"gather", "begin"}
        BY <1>4 DEF GatherMore, AfterTaking
    <2>6. batch' = Append(batch, Head(queue))
        BY <1>4 DEF GatherMore
    <2>7. QED
        BY <2>2, <2>4, <2>5, <2>6 DEF BatchTypes
<1>5. CASE Defer \/ QueueEmpty \/ Begin \/ PublishedAll
    BY <1>1, <1>5 DEF Defer, QueueEmpty, Begin, PublishedAll
<1>6. CASE Aborts
    BY <1>1, <1>6, AbortEnds DEF Ends
<1>7. CASE InsertAppend \/ InsertOutbox
    BY <1>0, <1>1, <1>7 DEF InsertAppend, InsertOutbox, BatchTypes
<1>8. CASE CommitBatch
    BY <1>1, <1>8 DEF CommitBatch
<1>9. CASE PublishRow
    BY <1>0, <1>1, <1>9 DEF PublishRow, writerVars, BatchTypes
<1>10. CASE SendReplies \/ Restart
    <2>1. batch' = <<>> /\ count' = 0 /\ wpc' = "idle"
        BY <1>10 DEF SendReplies, Restart
    <2>2. QED
        BY <1>0, <2>1 DEF BatchTypes
<1>11. QED
    BY <1>2, <1>3, <1>4, <1>5, <1>6, <1>7, <1>8, <1>9, <1>10
       DEF Next, Gather, Transact, Announce, Aborts

\* The transaction is typed.
LEMMA StagedTyped ==
    ASSUME TypeOK, IdsInv, Next
    PROVE  StagedTypes'
<1>0. /\ StagedTypes /\ batch \in Seq(Requests)
      /\ <<>> \in Seq(Requests) /\ <<>> \in Seq(Row) /\ "none" \in Status /\ "ok" \in Status
    BY TypeParts DEF BatchTypes, Status
<1>1. ASSUME UNCHANGED <<todo, staged, outcome>> PROVE StagedTypes'
    BY <1>0, <1>1 DEF StagedTypes
<1>2. CASE (\E a \in Appends : Send(a)) \/ EnqueueOutbox
           \/ \E f \in Flushers : ReadPending(f) \/ SendFlush(f)
    BY <1>1, <1>2 DEF Send, EnqueueOutbox, ReadPending, SendFlush, writerVars
<1>3. CASE TakeDeferred \/ TakeFirst
    BY <1>1, <1>3 DEF TakeDeferred, TakeFirst, Start
<1>4. CASE GatherMore \/ Defer \/ QueueEmpty
    BY <1>1, <1>4 DEF GatherMore, Defer, QueueEmpty
<1>5. CASE Aborts
    BY <1>0, <1>5, AbortEnds DEF Ends, StagedTypes
<1>6. CASE Begin
    BY <1>0, <1>6 DEF Begin, StagedTypes
<1>7. CASE InsertAppend
    <2>1. todo # <<>> /\ Head(todo) \in Appends /\ Tail(todo) \in Seq(Requests)
        BY <1>0, <1>7, Removing DEF InsertAppend, StagedTypes
    <2>2. staged \o RowsOf(Head(todo)) \in Seq(Row)
        BY <1>0, <2>1, RowsAreRows, Joining DEF StagedTypes
    <2>3. QED
        BY <1>0, <1>7, <2>1, <2>2 DEF InsertAppend, StagedTypes
<1>8. CASE InsertOutbox
    <2> DEFINE left == {i \in ids[Head(todo)] : \A k \in DOMAIN staged : staged[k].idx # i}
    <2>1. todo # <<>> /\ Head(todo) \in Flushers /\ Tail(todo) \in Seq(Requests)
        BY <1>0, <1>8, Removing DEF InsertOutbox, StagedTypes
    <2>2. ids[Head(todo)] \subseteq Nat
        BY <2>1 DEF TypeOK
    <2>3. \/ todo' = Tail(todo) /\ staged' = staged
          \/ \E i \in left : staged' = Append(staged, OutboxRow(i)) /\ todo' = todo
        BY <1>8 DEF InsertOutbox
    <2>4. ASSUME NEW i \in Nat PROVE OutboxRow(i) \in Row
        BY RowsAssumption DEF OutboxRow, Row
    <2>5. ASSUME NEW i \in left PROVE Append(staged, OutboxRow(i)) \in Seq(Row)
        <3>1. i \in Nat
            BY <2>2
        <3>2. QED
            BY <1>0, <2>4, <3>1, Adding DEF StagedTypes
    <2>6. todo' \in Seq(Requests) /\ staged' \in Seq(Row)
        BY <1>0, <2>1, <2>3, <2>5, Zenon DEF StagedTypes
    <2>7. outcome' = outcome
        BY <1>8 DEF InsertOutbox
    <2>8. QED
        BY <1>0, <2>6, <2>7 DEF StagedTypes
<1>9. CASE CommitBatch
    BY <1>0, <1>9 DEF CommitBatch, StagedTypes
<1>10. CASE PublishRow \/ PublishedAll
    BY <1>1, <1>10 DEF PublishRow, PublishedAll, writerVars
<1>11. CASE SendReplies \/ Restart
    BY <1>0, <1>11 DEF SendReplies, Restart, StagedTypes
<1>12. QED
    BY <1>2, <1>3, <1>4, <1>5, <1>6, <1>7, <1>8, <1>9, <1>10, <1>11
       DEF Next, Gather, Transact, Announce, Aborts

\* What flushers read stays older than what they did not.
LEMMA IdsStep ==
    ASSUME TypeOK, IdsInv, Next
    PROVE  IdsInv'
<1>0. ASSUME outbox' \subseteq outbox, nextId' = nextId, ids' = ids PROVE IdsInv'
    BY <1>0 DEF IdsInv
<1>1. CASE \E a \in Appends : Send(a)
    BY <1>0, <1>1 DEF Send
<1>2. CASE EnqueueOutbox
    <2>1. nextId' = nextId + 1 /\ outbox' = outbox \cup {nextId} /\ ids' = ids
        BY <1>2 DEF EnqueueOutbox
    <2>2. 1 .. nextId - 1 \subseteq 1 .. nextId' - 1 /\ nextId \in 1 .. nextId' - 1 /\ nextId' \in Nat \ {0}
        BY <2>1 DEF IdsInv
    <2>3. ASSUME NEW f \in Flushers, NEW i \in ids[f], NEW j \in outbox' PROVE j \in ids[f] \/ i < j
        <3>1. i \in 1 .. nextId - 1 /\ nextId \in Nat
            BY <2>3 DEF IdsInv
        <3>2. CASE j \in outbox
            BY <3>2 DEF IdsInv
        <3>3. CASE j = nextId
            BY <3>1, <3>3
        <3>4. QED
            BY <2>1, <2>3, <3>2, <3>3
    <2>4. QED
        BY <2>1, <2>2, <2>3 DEF IdsInv
<1>3. ASSUME NEW f \in Flushers, ReadPending(f) PROVE IdsInv'
    <2>1. ids \in [Flushers -> SUBSET Nat]
        BY DEF TypeOK
    <2>2. outbox' = outbox /\ nextId' = nextId /\ ids' = [ids EXCEPT ![f] = outbox]
        BY <1>3 DEF ReadPending
    <2>3. \A g \in Flushers : ids'[g] = ids[g] \/ ids'[g] = outbox
        BY <2>1, <2>2
    <2>4. QED
        BY <2>2, <2>3 DEF IdsInv
<1>4. CASE \E f \in Flushers : SendFlush(f)
    BY <1>0, <1>4 DEF SendFlush
<1>5. CASE TakeDeferred \/ TakeFirst
    BY <1>0, <1>5 DEF TakeDeferred, TakeFirst, Start, callerVars
<1>6. CASE GatherMore \/ Defer \/ QueueEmpty
    BY <1>0, <1>6 DEF GatherMore, Defer, QueueEmpty, callerVars
<1>7. CASE Aborts
    BY <1>0, <1>7, AbortEnds DEF Ends, callerVars
<1>8. CASE Begin \/ InsertAppend \/ InsertOutbox \/ PublishRow \/ PublishedAll
    BY <1>0, <1>8 DEF Begin, InsertAppend, InsertOutbox, PublishRow, PublishedAll, callerVars
<1>9. CASE CommitBatch \/ SendReplies
    BY <1>0, <1>9 DEF CommitBatch, SendReplies
<1>10. CASE Restart
    BY <1>10 DEF Restart, IdsInv
<1>11. QED
    BY <1>1, <1>2, <1>3, <1>4, <1>5, <1>6, <1>7, <1>8, <1>9, <1>10
       DEF Next, Gather, Transact, Announce, Aborts

--------------------------------------------------------------------------------
\* Requests in the writer's hands

\* A caller that does not wait has nothing with the writer.
LEMMA NotWaiting ==
    ASSUME FlightInv, NEW r, reply[r] # "waiting"
    PROVE  r \notin In(queue) /\ r \notin In(batch) /\ r \notin In(deferred)
BY DEF FlightInv

\* A request joins the queue.
LEMMA Enqueued ==
    ASSUME TypeOK, FlightInv, NEW r \in Requests, reply[r] # "waiting",
           queue' = Append(queue, r), reply' = [reply EXCEPT ![r] = "waiting"],
           UNCHANGED <<batch, deferred>>
    PROVE  FlightInv'
<1>1. r \notin In(queue) /\ r \notin In(batch) /\ r \notin In(deferred)
    BY NotWaiting
<1>2. queue \in Seq(Requests) /\ reply \in [Requests -> Status]
    BY DEF TypeOK
<1>3. In(queue') = In(queue) \cup {r} /\ Once(queue')
    BY <1>1, <1>2, Adding DEF FlightInv
<1>4. \A x \in Requests : reply[x] = "waiting" => reply'[x] = "waiting"
    BY <1>2
<1>5. reply'[r] = "waiting"
    BY <1>2
<1>6. In(queue) \subseteq Requests /\ In(batch) \subseteq Requests /\ In(deferred) \subseteq Requests
    BY Indices DEF TypeOK
<1>7. \A x \in In(queue) \cup In(batch) \cup In(deferred) : reply'[x] = "waiting"
    BY <1>4, <1>6 DEF FlightInv
<1>8. In(batch') = In(batch) /\ In(deferred') = In(deferred) /\ (Once(batch) => Once(batch'))
    OBVIOUS
<1>9. QED
    BY <1>1, <1>3, <1>5, <1>7, <1>8 DEF FlightInv

\* A request is in one place, and its caller waits.
LEMMA FlightStep ==
    ASSUME TypeOK, FlightInv, BatchInv, Next
    PROVE  FlightInv'
<1>0. /\ queue \in Seq(Requests) /\ batch \in Seq(Requests) /\ deferred \in Seq(Requests)
      /\ In(queue) \subseteq Requests /\ In(batch) \subseteq Requests /\ In(deferred) \subseteq Requests
      /\ In(<<>>) = {} /\ Once(<<>>) /\ reply \in [Requests -> Status]
    BY Indices DEF TypeOK
<1>s. ASSUME UNCHANGED <<queue, batch, deferred, reply>> PROVE FlightInv'
    BY <1>s DEF FlightInv, In, Once
<1>1. ASSUME NEW a \in Appends, Send(a) PROVE FlightInv'
    BY <1>1, Enqueued DEF Send, Requests, writerVars
<1>2. CASE EnqueueOutbox
    BY <1>s, <1>2 DEF EnqueueOutbox, writerVars
<1>3. ASSUME NEW f \in Flushers, ReadPending(f) PROVE FlightInv'
    <2>1. /\ reply[f] # "waiting" /\ reply' = [reply EXCEPT ![f] = "read"]
          /\ UNCHANGED <<queue, batch, deferred>>
        BY <1>3 DEF ReadPending, writerVars
    <2>2. f \notin In(queue) /\ f \notin In(batch) /\ f \notin In(deferred)
        BY <2>1, NotWaiting
    <2>3. \A x \in Requests : x # f => reply'[x] = reply[x]
        BY <1>0, <2>1
    <2>4. In(queue') = In(queue) /\ In(batch') = In(batch) /\ In(deferred') = In(deferred)
          /\ (Once(queue) => Once(queue')) /\ (Once(batch) => Once(batch'))
        BY <2>1
    <2>5. \A x \in In(queue) \cup In(batch) \cup In(deferred) : reply'[x] = "waiting"
        BY <1>0, <2>2, <2>3 DEF FlightInv
    <2>6. QED
        BY <2>4, <2>5 DEF FlightInv
<1>4. ASSUME NEW f \in Flushers, SendFlush(f) PROVE FlightInv'
    BY <1>4, Enqueued DEF SendFlush, Requests, writerVars
<1>5. CASE TakeDeferred \/ TakeFirst
    <2>1. PICK r \in Requests :
               /\ Starts(r)
               /\ \/ deferred = <<r>> /\ deferred' = <<>> /\ queue' = queue
                  \/ /\ deferred = <<>> /\ deferred' = deferred /\ queue # <<>>
                     /\ r = Head(queue) /\ queue' = Tail(queue)
        BY <1>5, TakeStarts
    <2>2. batch' = <<r>> /\ reply' = reply /\ batch = <<>>
        BY <2>1 DEF Starts, callerVars, BatchInv
    <2>3. In(batch') = {r} /\ Once(batch')
        BY <2>2, Single
    <2>4. CASE deferred = <<r>> /\ deferred' = <<>> /\ queue' = queue
        <3>1. In(deferred) = {r} /\ In(deferred') = {} /\ In(queue') = In(queue)
              /\ (Once(queue) => Once(queue'))
            BY <1>0, <2>4, Single
        <3>2. QED
            BY <2>2, <2>3, <3>1 DEF FlightInv
    <2>5. CASE deferred = <<>> /\ deferred' = deferred /\ queue # <<>>
               /\ r = Head(queue) /\ queue' = Tail(queue)
        <3>1. In(deferred') = {} /\ In(queue') \subseteq In(queue) /\ r \in In(queue)
              /\ (Once(queue) => Once(queue') /\ r \notin In(queue'))
            BY <1>0, <2>5, Removing
        <3>2. QED
            BY <2>2, <2>3, <3>1 DEF FlightInv
    <2>6. QED
        BY <2>1, <2>4, <2>5
<1>6. ASSUME GatherMore PROVE FlightInv'
    <2> DEFINE r == Head(queue)
    <2>1. /\ queue # <<>> /\ queue' = Tail(queue) /\ batch' = Append(batch, r)
          /\ deferred' = deferred /\ reply' = reply
        BY <1>6 DEF GatherMore, callerVars
    <2>2. r \in Requests /\ r \in In(queue) /\ In(queue') \subseteq In(queue)
          /\ (Once(queue) => Once(queue') /\ r \notin In(queue'))
        BY <1>0, <2>1, Removing
    <2>3. r \notin In(batch)
        BY <2>2 DEF FlightInv
    <2> HIDE DEF r
    <2>4. In(batch') = In(batch) \cup {r} /\ (Once(batch) => Once(batch'))
        BY <1>0, <2>1, <2>2, <2>3, Adding
    <2>5. In(deferred') = In(deferred)
        BY <2>1
    <2>6. QED
        BY <2>1, <2>2, <2>3, <2>4, <2>5 DEF FlightInv
<1>7. ASSUME Defer PROVE FlightInv'
    <2> DEFINE r == Head(queue)
    <2>1. /\ queue # <<>> /\ queue' = Tail(queue) /\ batch' = batch
          /\ deferred' = <<r>> /\ reply' = reply
        BY <1>7 DEF Defer, callerVars
    <2>2. r \in Requests /\ r \in In(queue) /\ In(queue') \subseteq In(queue)
          /\ (Once(queue) => Once(queue') /\ r \notin In(queue'))
        BY <1>0, <2>1, Removing
    <2> HIDE DEF r
    <2>3. In(deferred') = {r} /\ In(batch') = In(batch) /\ (Once(batch) => Once(batch'))
        BY <2>1, <2>2, Single
    <2>4. QED
        BY <2>1, <2>2, <2>3 DEF FlightInv
<1>8. CASE QueueEmpty
    BY <1>s, <1>8 DEF QueueEmpty, callerVars
<1>9. CASE Aborts
    BY <1>s, <1>9, AbortEnds DEF Ends, callerVars
<1>10. CASE Begin \/ InsertAppend \/ InsertOutbox \/ PublishRow \/ PublishedAll
    BY <1>s, <1>10 DEF Begin, InsertAppend, InsertOutbox, PublishRow, PublishedAll,
                       callerVars, writerVars
<1>11. CASE CommitBatch
    BY <1>s, <1>11 DEF CommitBatch
<1>12. CASE SendReplies
    <2>1. /\ batch' = <<>> /\ UNCHANGED <<queue, deferred>>
          /\ reply' = [r \in Requests |-> IF InBatch(r) THEN outcome ELSE reply[r]]
        BY <1>12 DEF SendReplies
    <2>2. \A r \in In(queue) \cup In(deferred) : ~InBatch(r)
        BY DEF FlightInv, InBatch, In
    <2>3. \A r \in In(queue) \cup In(deferred) : reply'[r] = "waiting"
        BY <1>0, <2>1, <2>2 DEF FlightInv
    <2>4. In(queue') = In(queue) /\ In(batch') = {} /\ In(deferred') = In(deferred)
          /\ (Once(queue) => Once(queue')) /\ Once(batch')
        BY <1>0, <2>1
    <2>5. QED
        BY <2>3, <2>4 DEF FlightInv
<1>13. CASE Restart
    <2>1. queue' = <<>> /\ batch' = <<>> /\ deferred' = <<>>
        BY <1>13 DEF Restart
    <2>2. In(queue') = {} /\ In(batch') = {} /\ In(deferred') = {} /\ Once(queue') /\ Once(batch')
        BY <1>0, <2>1
    <2>3. QED
        BY <2>2 DEF FlightInv
<1>14. QED
    BY <1>1, <1>2, <1>3, <1>4, <1>5, <1>6, <1>7, <1>8, <1>9, <1>10, <1>11, <1>12, <1>13
       DEF Next, Gather, Transact, Announce, Aborts

\* A flush is a batch of its own.
LEMMA BatchStep ==
    ASSUME TypeOK, BatchInv, Next
    PROVE  BatchInv'
<1>0. /\ queue \in Seq(Requests) /\ batch \in Seq(Requests)
      /\ In(<<>>) = {} /\ Appends \cup Flushers = Requests
    BY Indices DEF TypeOK, Requests
<1>s. ASSUME UNCHANGED <<wpc, batch, deferred>> PROVE BatchInv'
    BY <1>s DEF BatchInv, In
<1>t. ASSUME UNCHANGED batch, wpc # "idle", wpc' \in {"begin", "insert", "publish", "reply"}
      PROVE  BatchInv'
    <2>1. In(batch') = In(batch)
        BY <1>t
    <2>2. QED
        BY <1>t, <2>1 DEF BatchInv
<1>e. ASSUME batch' = <<>>, wpc' = "idle" PROVE BatchInv'
    <2>1. In(batch') = {}
        BY <1>0, <1>e
    <2>2. QED
        BY <1>e, <2>1 DEF BatchInv
<1>1. CASE (\E a \in Appends : Send(a)) \/ EnqueueOutbox
           \/ \E f \in Flushers : ReadPending(f) \/ SendFlush(f)
    BY <1>s, <1>1 DEF Send, EnqueueOutbox, ReadPending, SendFlush, writerVars
<1>2. CASE TakeDeferred \/ TakeFirst
    <2>1. PICK r \in Requests : Starts(r) /\ deferred' = <<>>
        BY <1>2, TakeStarts
    <2>2. batch' = <<r>> /\ wpc' \in {"gather", "begin"} /\ wpc' = AfterTaking(r, SizeOf(r))
        BY <2>1 DEF Starts
    <2>3. In(batch') = {r} /\ Len(batch') = 1 /\ batch'[1] = r /\ batch' # <<>>
        BY <2>2, Single
    <2>4. r \in Flushers => wpc' = "begin"
        BY <2>2 DEF AfterTaking, TravelsAlone
    <2>5. In(batch') \subseteq Appends \/ (Len(batch') = 1 /\ batch'[1] \in Flushers /\ wpc' # "gather")
        BY <1>0, <2>3, <2>4
    <2>6. QED
        BY <2>1, <2>2, <2>3, <2>5 DEF BatchInv
<1>3. CASE GatherMore
    <2> DEFINE r == Head(queue)
    <2>1. /\ wpc = "gather" /\ queue # <<>> /\ Joins(r) /\ batch' = Append(batch, r)
          /\ deferred' = deferred /\ wpc' \in {"gather", "begin"}
        BY <1>3 DEF GatherMore, AfterTaking
    <2>2. r \in Appends
        BY <1>0, <2>1, Removing DEF Joins, TravelsAlone
    <2>3. In(batch) \subseteq Appends /\ deferred = <<>>
        BY <2>1 DEF BatchInv
    <2> HIDE DEF r
    <2>4. In(batch') = In(batch) \cup {r} /\ batch' # <<>>
        BY <1>0, <2>1, <2>2, Adding
    <2>5. QED
        BY <2>1, <2>2, <2>3, <2>4 DEF BatchInv
<1>4. CASE Defer \/ QueueEmpty \/ Begin \/ PublishedAll
    BY <1>t, <1>4 DEF Defer, QueueEmpty, Begin, PublishedAll
<1>5. CASE Aborts
    BY <1>t, <1>5, AbortEnds DEF Ends
<1>6. CASE InsertAppend \/ InsertOutbox \/ PublishRow
    BY <1>s, <1>6 DEF InsertAppend, InsertOutbox, PublishRow, writerVars
<1>7. CASE CommitBatch
    BY <1>t, <1>7 DEF CommitBatch
<1>8. CASE SendReplies \/ Restart
    BY <1>e, <1>8 DEF SendReplies, Restart
<1>9. QED
    BY <1>1, <1>2, <1>3, <1>4, <1>5, <1>6, <1>7, <1>8
       DEF Next, Gather, Transact, Announce, Aborts

--------------------------------------------------------------------------------
\* The transaction

\* Nothing follows the only element of a sequence.
LEMMA SingleTail ==
    ASSUME NEW S, NEW q \in Seq(S), Len(q) = 1
    PROVE  Tail(q) = <<>>
<1>1. q # <<>> /\ Tail(q) \in Seq(S) /\ Len(Tail(q)) = 0
    OBVIOUS
<1>2. QED
    BY <1>1, EmptySeq

\* A flush is inserted in id order.
LEMMA InsertInOrder ==
    ASSUME TypeOK, BatchInv, IdsInv, StagedInv, InsertOutbox
    PROVE  StagedInv'
<1> DEFINE f == batch[1]
           left == {i \in ids[f] : \A k \in DOMAIN staged : staged[k].idx # i}
<1>1. /\ wpc = "insert" /\ todo # <<>> /\ Head(todo) \in Flushers
      /\ UNCHANGED <<wpc, batch, outbox, ids>>
    BY DEF InsertOutbox, callerVars
<1>2. /\ todo \in Seq(Requests) /\ staged \in Seq(Row) /\ batch \in Seq(Requests)
      /\ batch # <<>> /\ ids \in [Flushers -> SUBSET Nat]
    BY <1>1 DEF TypeOK, BatchInv
<1>3. Head(todo) = todo[1] /\ todo[1] \in In(todo)
    BY <1>1, <1>2, Removing
<1>4. f \in Requests
    BY <1>2, Indices
<1>5. f \notin Appends
    BY <1>1, <1>3, RequestsAssumption DEF StagedInv
<1>6. f \in Flushers /\ Inserting(f)
    BY <1>1, <1>4, <1>5 DEF StagedInv, Requests
<1>7. todo = batch /\ Head(todo) = f /\ Len(batch) = 1
    BY <1>1, <1>2, <1>3, <1>5, <1>6, Indices DEF Inserting, BatchInv
<1>8. Tail(todo) = <<>>
    <2>1. Len(todo) = 1
        BY <1>7, Zenon
    <2>2. QED
        BY <1>2, <2>1, SingleTail
<1>9. \/ left = {} /\ todo' = Tail(todo) /\ staged' = staged
      \/ \E i \in left : /\ \A j \in left : i <= j
                         /\ staged' = Append(staged, OutboxRow(i)) /\ todo' = todo
    BY <1>7 DEF InsertOutbox
<1>10. f' = f /\ ids[f] \subseteq Nat /\ ids[f] \subseteq outbox
    BY <1>1, <1>2, <1>6 DEF Inserting
<1>11. CASE left = {} /\ todo' = Tail(todo) /\ staged' = staged
    <2>1. \A i \in ids[f] : \E k \in DOMAIN staged : staged[k].idx = i
        BY <1>11
    <2>2. todo' = <<>>
        BY <1>8, <1>11
    <2>3. Inserting(f)'
        BY <1>1, <1>6, <1>10, <1>11, <2>1, <2>2 DEF Inserting
    <2>4. QED
        BY <1>1, <1>5, <1>10, <2>3 DEF StagedInv
<1>12. ASSUME NEW i \in left, \A j \in left : i <= j,
              staged' = Append(staged, OutboxRow(i)), todo' = todo
       PROVE  StagedInv'
    <2> DEFINE n == Len(staged) + 1
    <2>1. i \in ids[f] /\ i \in Nat /\ \A k \in DOMAIN staged : staged[k].idx # i
        BY <1>10
    <2>2. OutboxRow(i) \in Row /\ OutboxRow(i).origin = Outbox /\ OutboxRow(i).idx = i
        BY <2>1, RowsAssumption DEF OutboxRow, Row
    <2>3. /\ Len(staged) \in Nat /\ DOMAIN staged = 1 .. Len(staged) /\ DOMAIN staged' = 1 .. n
          /\ \A k \in DOMAIN staged : staged'[k] = staged[k]
          /\ staged'[n] = OutboxRow(i)
        BY <1>2, <1>12, <2>2, Adding, Indices
    <2>4. n \in DOMAIN staged' /\ \A k \in DOMAIN staged' : k \in DOMAIN staged \/ k = n
        BY <2>3
    <2>5. \A k \in DOMAIN staged : staged[k].idx < i
        BY <1>1, <1>6, <2>1 DEF Inserting
    <2>6. \A k \in DOMAIN staged : staged[k].idx \in Nat /\ k < n /\ k \in DOMAIN staged'
        <3>1. \A k \in DOMAIN staged : staged[k] \in Row
            BY <1>2, Indices
        <3>2. \A k \in DOMAIN staged : staged[k].idx \in Nat
            BY <3>1 DEF Row
        <3>3. QED
            BY <2>3, <3>2
    <2> HIDE DEF n
    <2>7. \A k \in DOMAIN staged' : staged'[k].origin = Outbox /\ staged'[k].idx \in ids[f]
        BY <1>6, <2>1, <2>2, <2>3, <2>4 DEF Inserting
    <2>8. ASSUME NEW k \in DOMAIN staged', NEW l \in DOMAIN staged', k < l
          PROVE  staged'[k].idx < staged'[l].idx
        <3>1. k \in DOMAIN staged
            <4>1. n \in Nat /\ k \in 1 .. n /\ l \in 1 .. n
                BY <2>3, <2>8 DEF n
            <4>2. k # n
                BY <2>8, <4>1
            <4>3. QED
                BY <2>4, <4>2
        <3>2. CASE l \in DOMAIN staged
            BY <1>6, <2>3, <2>8, <3>1, <3>2 DEF Inserting
        <3>3. CASE l = n
            BY <2>2, <2>3, <2>5, <3>1, <3>3
        <3>4. QED
            BY <2>4, <3>2, <3>3
    <2>9. ASSUME NEW j \in ids[f]
          PROVE  \/ \E k \in DOMAIN staged' : staged'[k].idx = j
                 \/ todo' # <<>> /\ \A k \in DOMAIN staged' : staged'[k].idx < j
        <3>1. CASE \E k \in DOMAIN staged : staged[k].idx = j
            BY <2>3, <2>6, <3>1
        <3>2. CASE j = i
            BY <2>2, <2>3, <2>4, <3>2
        <3>3. CASE j # i /\ ~\E k \in DOMAIN staged : staged[k].idx = j
            <4>1. j \in left /\ j \in Nat
                BY <1>10, <3>3
            <4>2. i < j
                BY <1>12, <2>1, <3>3, <4>1
            <4>3. \A k \in DOMAIN staged : staged[k].idx < j
                BY <2>1, <2>5, <2>6, <4>1, <4>2
            <4>4. QED
                BY <1>1, <1>12, <2>2, <2>3, <2>4, <4>2, <4>3
        <3>4. QED
            BY <3>1, <3>2, <3>3
    <2>10. ids'[f] = ids[f] /\ outbox' = outbox /\ (todo' = <<>> \/ todo' = batch')
        BY <1>1, <1>7, <1>12
    <2>11. Inserting(f)'
        BY <1>10, <2>7, <2>8, <2>9, <2>10 DEF Inserting
    <2>12. QED
        BY <1>1, <1>5, <1>10, <2>11 DEF StagedInv
<1>13. QED
    BY <1>9, <1>11, <1>12

\* The rows of an append are the append's.
LEMMA InsertTheirs ==
    ASSUME TypeOK, BatchInv, StagedInv, InsertAppend
    PROVE  StagedInv'
<1>1. /\ wpc = "insert" /\ todo # <<>> /\ Head(todo) \in Appends /\ UNCHANGED <<wpc, batch>>
      /\ staged' = staged \o RowsOf(Head(todo)) /\ todo' = Tail(todo)
    BY DEF InsertAppend
<1>2. todo \in Seq(Requests) /\ staged \in Seq(Row) /\ batch \in Seq(Requests) /\ batch # <<>>
    BY <1>1 DEF TypeOK, BatchInv
<1>3. Head(todo) = todo[1] /\ In(Tail(todo)) \subseteq In(todo)
    BY <1>1, <1>2, Removing
<1>4. batch[1] \in Requests
    BY <1>2, Indices
<1>5. batch[1] \notin Flushers
    BY <1>1, <1>3, RequestsAssumption DEF StagedInv, Inserting
<1>6. /\ batch[1] \in Appends /\ In(todo) \subseteq Appends
      /\ \A k \in DOMAIN staged : staged[k].origin \in Appends
    BY <1>1, <1>4, <1>5 DEF StagedInv, Requests
<1> DEFINE rows == RowsOf(Head(todo))
<1>7. rows \in Seq(Row) /\ \A k \in DOMAIN rows : rows[k].origin \in Appends
    BY <1>1, RowsAreRows
<1> HIDE DEF rows
<1>8. ASSUME NEW c \in DOMAIN (staged \o rows) PROVE (staged \o rows)[c].origin \in Appends
    <2>1. CASE c \in DOMAIN staged
        BY <1>2, <1>6, <1>7, <2>1, Joining
    <2>2. CASE c - Len(staged) \in DOMAIN rows /\ c > Len(staged)
        <3> DEFINE k == c - Len(staged)
        <3>1. Len(staged) \in Nat /\ c \in Int
            BY <1>2, <1>7, <1>8, Joining, Indices
        <3>2. c = Len(staged) + k
            BY <3>1
        <3>3. (staged \o rows)[Len(staged) + k] = rows[k]
            BY <1>2, <1>7, <2>2, Joining
        <3>4. QED
            BY <1>7, <2>2, <3>2, <3>3
    <2>3. QED
        BY <1>2, <1>7, <1>8, <2>1, <2>2, Joining
<1>9. \A k \in DOMAIN staged' : staged'[k].origin \in Appends
    BY <1>1, <1>8 DEF rows
<1>10. In(todo') \subseteq Appends
    BY <1>1, <1>3, <1>6
<1>11. QED
    BY <1>1, <1>5, <1>9, <1>10 DEF StagedInv

\* What the transaction has inserted.
LEMMA StagedStep ==
    ASSUME TypeOK, FlightInv, BatchInv, IdsInv, StagedInv, Next
    PROVE  StagedInv'
<1>s. ASSUME UNCHANGED <<wpc, batch, ids, outbox, todo, staged>> PROVE StagedInv'
    BY <1>s DEF StagedInv, Inserting, In
<1>n. ASSUME wpc' # "insert" PROVE StagedInv'
    BY <1>n DEF StagedInv
<1>1. CASE (\E a \in Appends : Send(a)) \/ \E f \in Flushers : SendFlush(f)
    BY <1>s, <1>1 DEF Send, SendFlush, writerVars
<1>2. CASE EnqueueOutbox
    BY <1>n, <1>2 DEF EnqueueOutbox, writerVars
<1>3. ASSUME NEW g \in Flushers, ReadPending(g), wpc = "insert" PROVE StagedInv'
    <2>1. /\ reply[g] # "waiting" /\ ids' = [ids EXCEPT ![g] = outbox]
          /\ UNCHANGED <<wpc, batch, outbox, todo, staged>>
        BY <1>3 DEF ReadPending, writerVars
    <2>2. batch \in Seq(Requests) /\ batch # <<>> /\ ids \in [Flushers -> SUBSET Nat]
        BY <1>3 DEF TypeOK, BatchInv
    <2>3. batch[1] \in In(batch) /\ g \notin In(batch)
        BY <2>1, <2>2, NotWaiting, Indices
    <2>4. batch[1] \in Flushers => ids'[batch[1]] = ids[batch[1]]
        BY <2>1, <2>2, <2>3
    <2>5. In(todo') = In(todo)
        BY <2>1
    <2>6. ASSUME batch[1] \in Flushers PROVE Inserting(batch[1])'
        BY <1>3, <2>1, <2>4, <2>6 DEF StagedInv, Inserting
    <2>7. QED
        BY <1>3, <2>1, <2>5, <2>6 DEF StagedInv
<1>4. ASSUME NEW g \in Flushers, ReadPending(g) PROVE StagedInv'
    BY <1>3, <1>4, <1>n DEF ReadPending, writerVars
<1>5. CASE TakeDeferred \/ TakeFirst
    BY <1>n, <1>5, TakeStarts DEF Starts
<1>6. CASE GatherMore \/ Defer \/ QueueEmpty
    BY <1>n, <1>6 DEF GatherMore, Defer, QueueEmpty, AfterTaking
<1>7. CASE Aborts
    BY <1>n, <1>7, AbortEnds DEF Ends
<1>8. CASE Begin
    <2>1. /\ wpc = "begin" /\ IdsOf(batch) \subseteq outbox /\ todo' = batch /\ staged' = <<>>
          /\ UNCHANGED <<batch, ids, outbox>>
        BY <1>8 DEF Begin, callerVars
    <2>2. batch \in Seq(Requests) /\ batch # <<>> /\ DOMAIN staged' = {}
        BY <2>1 DEF TypeOK, BatchInv
    <2>3. batch[1] \in In(batch) /\ batch' # <<>>
        BY <2>1, <2>2, Indices
    <2>4. ASSUME batch[1] \in Flushers PROVE Inserting(batch[1])'
        BY <2>1, <2>2, <2>4 DEF Inserting, IdsOf
    <2>5. ASSUME batch[1] \in Appends PROVE In(todo') \subseteq Appends
        BY <2>1, <2>5, RequestsAssumption DEF BatchInv
    <2>6. QED
        BY <2>1, <2>2, <2>4, <2>5 DEF StagedInv
<1>9. CASE InsertAppend
    BY <1>9, InsertTheirs
<1>10. CASE InsertOutbox
    BY <1>10, InsertInOrder
<1>11. CASE CommitBatch
    BY <1>n, <1>11 DEF CommitBatch
<1>12. CASE PublishRow
    BY <1>s, <1>12 DEF PublishRow, callerVars, writerVars
<1>13. CASE PublishedAll \/ SendReplies \/ Restart
    BY <1>n, <1>13 DEF PublishedAll, SendReplies, Restart
<1>14. QED
    BY <1>1, <1>2, <1>4, <1>5, <1>6, <1>7, <1>8, <1>9, <1>10, <1>11, <1>12, <1>13
       DEF Next, Gather, Transact, Announce, Aborts

--------------------------------------------------------------------------------
\* The log

\* A row of the log is an old one or one of the transaction.
LEMMA LogGrows ==
    ASSUME TypeOK, log' = log \o staged
    PROVE  /\ \A c \in DOMAIN log : c \in DOMAIN log' /\ log'[c] = log[c]
           /\ \A k \in DOMAIN staged : Len(log) + k \in DOMAIN log' /\ log'[Len(log) + k] = staged[k]
           /\ \A c \in DOMAIN log' : \/ c \in DOMAIN log
                                     \/ \E k \in DOMAIN staged : c = Len(log) + k
           /\ Len(log) \in Nat /\ DOMAIN log = 1 .. Len(log)
           /\ Len(staged) \in Nat /\ DOMAIN staged = 1 .. Len(staged)
<1>1. log \in Seq(Row) /\ staged \in Seq(Row)
    BY DEF TypeOK
<1>2. /\ Len(log) \in Nat /\ DOMAIN log = 1 .. Len(log)
      /\ Len(staged) \in Nat /\ DOMAIN staged = 1 .. Len(staged)
    BY <1>1, Indices
<1>3. DOMAIN log' = 1 .. Len(log) + Len(staged)
    BY <1>1, Joining
<1>4. ASSUME NEW c \in DOMAIN log', c \notin DOMAIN log
      PROVE  \E k \in DOMAIN staged : c = Len(log) + k
    <2>1. c - Len(log) \in DOMAIN staged /\ c = Len(log) + (c - Len(log))
        BY <1>2, <1>3, <1>4
    <2>2. QED
        BY <2>1
<1>5. \A c \in DOMAIN log : c \in DOMAIN log' /\ log'[c] = log[c]
    BY <1>1, Joining
<1>6. \A k \in DOMAIN staged : Len(log) + k \in DOMAIN log' /\ log'[Len(log) + k] = staged[k]
    BY <1>1, Joining
<1>7. QED
    BY <1>2, <1>4, <1>5, <1>6

\* A flush appends the oldest pending rows.
LEMMA FlushAppends ==
    ASSUME TypeOK, BatchInv, IdsInv, StagedInv, LogInv, CommitBatch,
           NEW f \in Flushers, batch[1] = f
    PROVE  LogInv'
<1>1. /\ wpc = "insert" /\ todo = <<>> /\ log' = log \o staged /\ nextId' = nextId
      /\ outbox' = outbox \ ids[f]
    BY DEF CommitBatch, IdsOf
<1>2. Inserting(f)
    BY <1>1 DEF StagedInv
<1>3. /\ \A c \in DOMAIN log : c \in DOMAIN log' /\ log'[c] = log[c]
      /\ \A k \in DOMAIN staged : Len(log) + k \in DOMAIN log' /\ log'[Len(log) + k] = staged[k]
      /\ \A c \in DOMAIN log' : c \in DOMAIN log \/ \E k \in DOMAIN staged : c = Len(log) + k
      /\ Len(log) \in Nat /\ DOMAIN log = 1 .. Len(log)
      /\ Len(staged) \in Nat /\ DOMAIN staged = 1 .. Len(staged)
    BY <1>1, LogGrows
<1>4. /\ ids[f] \subseteq outbox /\ outbox \subseteq 1 .. nextId - 1
      /\ \A i \in ids[f], j \in outbox' : i < j
      /\ \A k \in DOMAIN staged : staged[k].origin = Outbox /\ staged[k].idx \in ids[f]
      /\ \A i \in ids[f] : \E k \in DOMAIN staged : staged[k].idx = i
    BY <1>1, <1>2 DEF Inserting, IdsInv
<1>5. ASSUME NEW c \in DOMAIN log', log'[c].origin = Outbox
      PROVE  log'[c].idx \in 1 .. nextId - 1 /\ \A j \in outbox' : log'[c].idx < j
    <2>1. CASE c \in DOMAIN log
        BY <1>1, <1>3, <1>5, <2>1 DEF LogInv
    <2>2. ASSUME NEW k \in DOMAIN staged, c = Len(log) + k
          PROVE  log'[c].idx \in 1 .. nextId - 1 /\ \A j \in outbox' : log'[c].idx < j
        <3>1. log'[c].idx = staged[k].idx /\ staged[k].idx \in ids[f]
            BY <1>3, <1>4, <2>2
        <3>2. QED
            BY <1>4, <3>1
    <2>3. QED
        BY <1>3, <1>5, <2>1, <2>2
<1>6. ASSUME NEW i \in 1 .. nextId - 1, i \notin outbox'
      PROVE  \E c \in DOMAIN log' : log'[c].origin = Outbox /\ log'[c].idx = i
    <2>1. CASE i \in outbox
        <3>1. PICK k \in DOMAIN staged : staged[k].idx = i
            BY <1>1, <1>4, <1>6, <2>1
        <3>2. QED
            BY <1>3, <1>4, <3>1
    <2>2. CASE i \notin outbox
        <3>1. PICK c \in DOMAIN log : log[c].origin = Outbox /\ log[c].idx = i
            BY <1>6, <2>2 DEF LogInv
        <3>2. QED
            BY <1>3, <3>1
    <2>3. QED
        BY <2>1, <2>2
<1>7. ASSUME NEW c \in DOMAIN log', NEW d \in DOMAIN log', c < d,
             log'[c].origin = Outbox, log'[d].origin = Outbox
      PROVE  log'[c].idx < log'[d].idx
    <2>1. CASE c \in DOMAIN log /\ d \in DOMAIN log
        BY <1>3, <1>7, <2>1 DEF LogInv
    <2>2. ASSUME c \in DOMAIN log, NEW l \in DOMAIN staged, d = Len(log) + l
          PROVE  log'[c].idx < log'[d].idx
        <3>1. log'[c] = log[c] /\ log'[d].idx \in outbox
            BY <1>3, <1>4, <2>2
        <3>2. QED
            BY <1>7, <2>2, <3>1 DEF LogInv
    <2>3. ASSUME NEW k \in DOMAIN staged, c = Len(log) + k, d \in DOMAIN log
          PROVE  FALSE
        BY <1>3, <1>7, <2>3
    <2>4. ASSUME NEW k \in DOMAIN staged, c = Len(log) + k,
                 NEW l \in DOMAIN staged, d = Len(log) + l
          PROVE  log'[c].idx < log'[d].idx
        <3>1. k < l
            BY <1>3, <1>7, <2>4
        <3>2. log'[c] = staged[k] /\ log'[d] = staged[l]
            BY <1>3, <2>4
        <3>3. QED
            BY <1>2, <3>1, <3>2 DEF Inserting
    <2>5. QED
        BY <1>3, <1>7, <2>1, <2>2, <2>3, <2>4
<1>8. QED
    BY <1>1, <1>5, <1>6, <1>7 DEF LogInv

\* Appends leave the outbox's rows where they are.
LEMMA AppendsAppend ==
    ASSUME TypeOK, StagedInv, LogInv, CommitBatch, batch[1] \in Appends
    PROVE  LogInv'
<1>1. wpc = "insert" /\ log' = log \o staged /\ nextId' = nextId /\ outbox' = outbox
    BY RequestsAssumption DEF CommitBatch, IdsOf
<1>2. \A k \in DOMAIN staged : staged[k].origin # Outbox
    BY <1>1, RequestsAssumption DEF StagedInv, Requests
<1>3. /\ \A c \in DOMAIN log : c \in DOMAIN log' /\ log'[c] = log[c]
      /\ \A k \in DOMAIN staged : log'[Len(log) + k] = staged[k]
      /\ \A c \in DOMAIN log' : c \in DOMAIN log \/ \E k \in DOMAIN staged : c = Len(log) + k
    BY <1>1, LogGrows
<1>4. \A c \in DOMAIN log' : log'[c].origin = Outbox => c \in DOMAIN log
    BY <1>2, <1>3
<1>5. ASSUME NEW c \in DOMAIN log', log'[c].origin = Outbox
      PROVE  log'[c].idx \in 1 .. nextId - 1 /\ \A j \in outbox : log'[c].idx < j
    BY <1>3, <1>4, <1>5 DEF LogInv
<1>6. ASSUME NEW i \in 1 .. nextId - 1, i \notin outbox
      PROVE  \E c \in DOMAIN log' : log'[c].origin = Outbox /\ log'[c].idx = i
    <2>1. PICK c \in DOMAIN log : log[c].origin = Outbox /\ log[c].idx = i
        BY <1>6 DEF LogInv
    <2>2. QED
        BY <1>3, <2>1
<1>7. ASSUME NEW c \in DOMAIN log', NEW d \in DOMAIN log', c < d,
             log'[c].origin = Outbox, log'[d].origin = Outbox
      PROVE  log'[c].idx < log'[d].idx
    BY <1>3, <1>4, <1>7 DEF LogInv
<1>8. QED
    BY <1>1, <1>5, <1>6, <1>7 DEF LogInv

\* Outbox rows are pending or in the log, in order.
LEMMA LogStep ==
    ASSUME TypeOK, BatchInv, IdsInv, StagedInv, LogInv, Next
    PROVE  LogInv'
<1>s. ASSUME UNCHANGED <<log, outbox, nextId>> PROVE LogInv'
    BY <1>s DEF LogInv
<1>1. CASE (\E a \in Appends : Send(a)) \/ \E f \in Flushers : ReadPending(f) \/ SendFlush(f)
    BY <1>s, <1>1 DEF Send, ReadPending, SendFlush
<1>2. CASE EnqueueOutbox
    <2>1. log' = log /\ nextId' = nextId + 1 /\ outbox' = outbox \cup {nextId} /\ nextId \in Nat \ {0}
        BY <1>2 DEF EnqueueOutbox, IdsInv
    <2>2. 1 .. nextId' - 1 = (1 .. nextId - 1) \cup {nextId}
        BY <2>1
    <2>3. ASSUME NEW c \in DOMAIN log, log[c].origin = Outbox
          PROVE  log[c].idx \in 1 .. nextId - 1 /\ \A j \in outbox' : log[c].idx < j
        <3>1. log[c].idx \in 1 .. nextId - 1 /\ \A j \in outbox : log[c].idx < j
            BY <2>3 DEF LogInv
        <3>2. log[c].idx < nextId
            BY <2>1, <3>1
        <3>3. QED
            BY <2>1, <3>1, <3>2
    <2>4. \A i \in 1 .. nextId' - 1 : i \in outbox' \/
              \E c \in DOMAIN log' : log'[c].origin = Outbox /\ log'[c].idx = i
        BY <2>1, <2>2 DEF LogInv
    <2>5. QED
        BY <2>1, <2>2, <2>3, <2>4 DEF LogInv
<1>3. CASE TakeDeferred \/ TakeFirst
    BY <1>s, <1>3 DEF TakeDeferred, TakeFirst, Start, callerVars
<1>4. CASE GatherMore \/ Defer \/ QueueEmpty
    BY <1>s, <1>4 DEF GatherMore, Defer, QueueEmpty, callerVars
<1>5. CASE Aborts
    BY <1>s, <1>5, AbortEnds DEF Ends, callerVars
<1>6. CASE Begin \/ InsertAppend \/ InsertOutbox \/ PublishRow \/ PublishedAll
    BY <1>s, <1>6 DEF Begin, InsertAppend, InsertOutbox, PublishRow, PublishedAll, callerVars
<1>7. CASE CommitBatch
    <2>1. batch \in Seq(Requests) /\ batch # <<>>
        BY <1>7 DEF CommitBatch, TypeOK, BatchInv
    <2>2. batch[1] \in Appends \/ batch[1] \in Flushers
        BY <2>1, Indices DEF Requests
    <2>3. QED
        BY <1>7, <2>2, FlushAppends, AppendsAppend
<1>8. CASE SendReplies \/ Restart
    BY <1>s, <1>8 DEF SendReplies, Restart
<1>9. QED
    BY <1>1, <1>2, <1>3, <1>4, <1>5, <1>6, <1>7, <1>8
       DEF Next, Gather, Transact, Announce, Aborts

\* Only the writer that has just committed owes publications, and a commit
\* adds to a log that is fully published.
LEMMA PublishStep ==
    ASSUME TypeOK, PublishInv, Next
    PROVE  PublishInv' /\ [Promise!Next]_<<log, published>>
<1>0. log \in Seq(Row) /\ staged \in Seq(Row) /\ published \in Nat /\ Len(log) \in Nat
    BY DEF TypeOK
<1>s. ASSUME UNCHANGED <<log, published>>, wpc' # "publish" => wpc # "publish"
      PROVE  PublishInv' /\ [Promise!Next]_<<log, published>>
    BY <1>s DEF PublishInv
<1>1. CASE (\E a \in Appends : Send(a)) \/ EnqueueOutbox
           \/ \E f \in Flushers : ReadPending(f) \/ SendFlush(f)
    BY <1>s, <1>1 DEF Send, EnqueueOutbox, ReadPending, SendFlush, writerVars
<1>2. CASE TakeDeferred \/ TakeFirst
    BY <1>s, <1>2 DEF TakeDeferred, TakeFirst, Start
<1>3. CASE GatherMore \/ Defer \/ QueueEmpty
    BY <1>s, <1>3 DEF GatherMore, Defer, QueueEmpty
<1>4. CASE Aborts
    <2>1. UNCHANGED <<log, published>> /\ wpc # "publish"
        BY <1>4, AbortEnds DEF Ends
    <2>2. QED
        BY <1>s, <2>1
<1>5. CASE Begin \/ InsertAppend \/ InsertOutbox
    BY <1>s, <1>5 DEF Begin, InsertAppend, InsertOutbox
<1>6. CASE CommitBatch
    <2>1. /\ wpc = "insert" /\ log' = log \o staged /\ published' = published /\ wpc' = "publish"
        BY <1>6 DEF CommitBatch
    <2>2. published = Len(log)
        BY <2>1 DEF PublishInv
    <2>3. Len(log') = Len(log) + Len(staged) /\ SubSeq(log', 1, Len(log)) = log
        BY <1>0, <2>1, Joining
    <2>4. Len(staged) \in Nat /\ (staged = <<>> <=> Len(staged) = 0)
        BY <1>0, Indices
    <2>5. PublishInv'
        BY <1>0, <2>1, <2>2, <2>3, <2>4 DEF PublishInv
    <2>6. CASE staged = <<>>
        <3>1. log' = log
            BY <1>0, <2>1, <2>6, Joining
        <3>2. QED
            BY <2>1, <2>5, <3>1
    <2>7. CASE staged # <<>>
        <3>1. Len(log') > Len(log)
            BY <1>0, <2>3, <2>4, <2>7
        <3>2. Promise!Grow
            BY <2>1, <2>2, <2>3, <3>1 DEF Promise!Grow
        <3>3. QED
            BY <2>5, <3>2 DEF Promise!Next
    <2>8. QED
        BY <2>6, <2>7
<1>7. CASE PublishRow
    <2>1. /\ wpc = "publish" /\ wpc' = wpc /\ published < Len(log) /\ published' = published + 1
          /\ log' = log
        BY <1>7 DEF PublishRow, writerVars
    <2>2. Promise!Publish
        BY <2>1 DEF Promise!Publish
    <2>3. PublishInv'
        BY <1>0, <2>1 DEF PublishInv
    <2>4. QED
        BY <2>2, <2>3 DEF Promise!Next
<1>8. CASE PublishedAll
    BY <1>8 DEF PublishedAll, PublishInv
<1>9. CASE SendReplies
    BY <1>s, <1>9 DEF SendReplies
<1>10. CASE Restart
    <2>1. published' = Len(log) /\ log' = log
        BY <1>10 DEF Restart
    <2>2. Promise!Crash
        BY <2>1 DEF Promise!Crash
    <2>3. PublishInv'
        BY <1>0, <2>1 DEF PublishInv
    <2>4. QED
        BY <2>2, <2>3 DEF Promise!Next
<1>11. QED
    BY <1>1, <1>2, <1>3, <1>4, <1>5, <1>6, <1>7, <1>8, <1>9, <1>10
       DEF Next, Gather, Transact, Announce, Aborts


--------------------------------------------------------------------------------
\* The order in which requests travel

\* The types, and what waits was sent.
LEMMA Waiters ==
    ASSUME TypeOK, FlightInv, SentInv
    PROVE  /\ queue \in Seq(Requests) /\ batch \in Seq(Requests) /\ deferred \in Seq(Requests)
           /\ order \in Seq(Appends) /\ reply \in [Requests -> Status]
           /\ In(queue) \subseteq Requests /\ In(batch) \subseteq Requests /\ In(deferred) \subseteq Requests
           /\ In(queue) \cap Appends \subseteq In(order) /\ In(batch) \cap Appends \subseteq In(order)
           /\ In(deferred) \cap Appends \subseteq In(order)
           /\ In(<<>>) = {} /\ Once(<<>>)
<1>1. /\ queue \in Seq(Requests) /\ batch \in Seq(Requests) /\ deferred \in Seq(Requests)
      /\ order \in Seq(Appends) /\ reply \in [Requests -> Status]
    BY DEF TypeOK
<1>2. /\ In(queue) \subseteq Requests /\ In(batch) \subseteq Requests /\ In(deferred) \subseteq Requests
      /\ In(<<>>) = {} /\ Once(<<>>)
    BY <1>1, Indices
<1>3. \A r \in In(queue) \cup In(batch) \cup In(deferred) : r \in Appends => r \in In(order)
    BY DEF FlightInv, SentInv
<1>4. QED
    BY <1>1, <1>2, <1>3

\* Flushers change their own reply only.
LEMMA FlusherReplies ==
    ASSUME TypeOK, NEW f \in Flushers, NEW w, reply' = [reply EXCEPT ![f] = w]
    PROVE  \A a \in Appends : reply'[a] = reply[a]
<1>1. reply \in [Requests -> Status] /\ \A a \in Appends : a # f /\ a \in Requests
    BY RequestsAssumption DEF TypeOK, Requests
<1>2. QED
    BY <1>1

\* The callers' replies, as far as the appends see them.
LEMMA SentStep ==
    ASSUME TypeOK, FlightInv, SentInv, OutcomeInv, Next
    PROVE  SentInv'
<1>0. order \in Seq(Appends) /\ reply \in [Requests -> Status] /\ \A a \in Appends : a \in Requests
    BY DEF TypeOK, Requests
<1>s. ASSUME order' = order, \A a \in Appends : reply'[a] = "none" <=> reply[a] = "none"
      PROVE  SentInv'
    BY <1>s DEF SentInv, Once, In
<1>1. ASSUME NEW x \in Appends, Send(x) PROVE SentInv'
    <2>1. reply[x] = "none" /\ reply' = [reply EXCEPT ![x] = "waiting"] /\ order' = Append(order, x)
        BY <1>1 DEF Send
    <2>2. x \notin In(order) /\ Once(order)
        BY <2>1 DEF SentInv
    <2>3. In(order') = In(order) \cup {x} /\ Once(order')
        BY <1>0, <2>1, <2>2, SentLast
    <2>4. \A a \in Appends : a # x => reply'[a] = reply[a]
        BY <1>0, <2>1
    <2>5. reply'[x] = "waiting"
        BY <1>0, <2>1
    <2>6. QED
        BY <2>3, <2>4, <2>5 DEF SentInv
<1>2. CASE EnqueueOutbox
    BY <1>s, <1>2 DEF EnqueueOutbox
<1>3. ASSUME NEW f \in Flushers, ReadPending(f) \/ SendFlush(f) PROVE SentInv'
    <2>1. order' = order /\ \E w : reply' = [reply EXCEPT ![f] = w]
        BY <1>3 DEF ReadPending, SendFlush
    <2>2. QED
        BY <1>s, <2>1, FlusherReplies
<1>4. CASE TakeDeferred \/ TakeFirst
    BY <1>s, <1>4 DEF TakeDeferred, TakeFirst, Start, callerVars
<1>5. CASE GatherMore \/ Defer \/ QueueEmpty
    BY <1>s, <1>5 DEF GatherMore, Defer, QueueEmpty, callerVars
<1>6. CASE Aborts
    BY <1>s, <1>6, AbortEnds DEF Ends, callerVars
<1>7. CASE Begin \/ InsertAppend \/ InsertOutbox \/ PublishRow \/ PublishedAll
    BY <1>s, <1>7 DEF Begin, InsertAppend, InsertOutbox, PublishRow, PublishedAll, callerVars
<1>8. CASE CommitBatch
    BY <1>s, <1>8 DEF CommitBatch
<1>9. CASE SendReplies
    <2>1. /\ wpc = "reply" /\ order' = order
          /\ reply' = [r \in Requests |-> IF InBatch(r) THEN outcome ELSE reply[r]]
        BY <1>9 DEF SendReplies
    <2>2. outcome # "none"
        BY <2>1 DEF OutcomeInv
    <2>3. \A a \in Appends : InBatch(a) => reply[a] # "none"
        BY DEF InBatch, FlightInv, In
    <2>4. QED
        BY <1>0, <1>s, <2>1, <2>2, <2>3
<1>10. CASE Restart
    <2>1. /\ order' = order
          /\ reply' = [r \in Requests |-> IF r \in Flushers THEN "none"
                                          ELSE IF reply[r] = "waiting" THEN "lost" ELSE reply[r]]
        BY <1>10 DEF Restart
    <2>2. \A a \in Appends : a \notin Flushers
        BY RequestsAssumption
    <2>3. QED
        BY <1>0, <1>s, <2>1, <2>2
<1>11. QED
    BY <1>1, <1>2, <1>3, <1>4, <1>5, <1>6, <1>7, <1>8, <1>9, <1>10
       DEF Next, Gather, Transact, Announce, Aborts

\* Requests wait in the order they were sent.
LEMMA LineStep ==
    ASSUME TypeOK, FlightInv, BatchInv, SentInv, LineInv, Next
    PROVE  LineInv'
<1>0. /\ queue \in Seq(Requests) /\ batch \in Seq(Requests) /\ deferred \in Seq(Requests)
      /\ order \in Seq(Appends)
      /\ In(queue) \subseteq Requests /\ In(batch) \subseteq Requests /\ In(deferred) \subseteq Requests
      /\ In(queue) \cap Appends \subseteq In(order) /\ In(batch) \cap Appends \subseteq In(order)
      /\ In(deferred) \cap Appends \subseteq In(order) /\ In(<<>>) = {}
    BY Waiters
<1>i. /\ InOrder(order, queue) /\ InOrder(order, batch) /\ Ahead(order, In(deferred), In(queue))
      /\ Ahead(order, In(batch), In(queue)) /\ Ahead(order, In(batch), In(deferred))
    BY DEF LineInv
<1>s. ASSUME UNCHANGED <<queue, batch, deferred, order>> PROVE LineInv'
    BY <1>s DEF LineInv
<1>e. \A o : InOrder(o, <<>>)
    BY DEF InOrder
<1>1. ASSUME NEW x \in Appends, Send(x) PROVE LineInv'
    <2>1. /\ queue' = Append(queue, x) /\ order' = Append(order, x)
          /\ batch' = batch /\ deferred' = deferred /\ reply[x] = "none"
        BY <1>1 DEF Send, writerVars
    <2>2. x \notin In(order) /\ x \in Requests
        BY <2>1 DEF SentInv, Requests
    <2>3. /\ InOrder(order', queue) /\ InOrder(order', batch)
          /\ Ahead(order', In(deferred), In(queue)) /\ Ahead(order', In(batch), In(queue))
          /\ Ahead(order', In(batch), In(deferred)) /\ Ahead(order', In(queue), {x})
          /\ Ahead(order', In(batch), {x}) /\ Ahead(order', In(deferred), {x})
        <3>1. InOrder(order', queue) /\ InOrder(order', batch)
            BY <1>0, <1>i, <2>1, <2>2, OrderKept
        <3>2. /\ Ahead(order', In(deferred), In(queue)) /\ Ahead(order', In(batch), In(queue))
              /\ Ahead(order', In(batch), In(deferred))
            BY <1>0, <1>i, <2>1, <2>2, OrderKept
        <3>3. /\ Ahead(order', In(queue), {x}) /\ Ahead(order', In(batch), {x})
              /\ Ahead(order', In(deferred), {x})
            BY <1>0, <1>i, <2>1, <2>2, OrderKept
        <3>4. QED
            BY <3>1, <3>2, <3>3
    <2>4. InOrder(order', queue') /\ In(queue') = In(queue) \cup {x}
        <3>1. In(queue') = In(queue) \cup {x}
            BY <1>0, <2>1, <2>2, Adding
        <3>2. InOrder(order', Append(queue, x))
            BY <1>0, <2>1, <2>2, <2>3, LineGrows
        <3>3. QED
            BY <2>1, <3>1, <3>2
    <2>5. Ahead(order', In(deferred), In(queue')) /\ Ahead(order', In(batch), In(queue'))
        BY <2>3, <2>4, Zenon DEF Ahead
    <2>6. QED
        BY <2>1, <2>3, <2>4, <2>5 DEF LineInv
<1>2. CASE EnqueueOutbox \/ \E f \in Flushers : ReadPending(f)
    BY <1>s, <1>2 DEF EnqueueOutbox, ReadPending, writerVars
<1>3. ASSUME NEW f \in Flushers, SendFlush(f) PROVE LineInv'
    <2>1. queue' = Append(queue, f) /\ order' = order /\ batch' = batch /\ deferred' = deferred
        BY <1>3 DEF SendFlush, writerVars
    <2>2. f \in Requests /\ f \notin Appends
        BY RequestsAssumption DEF Requests
    <2>3. \A S : Ahead(order, S, {f})
        BY <2>2 DEF Ahead
    <2>a. In(queue') = In(queue) \cup {f}
        BY <1>0, <2>1, <2>2, Adding
    <2>b. Ahead(order, In(queue), {f})
        BY <2>3
    <2>c. InOrder(order, queue')
        BY <1>0, <1>i, <2>1, <2>2, <2>b, LineGrows
    <2>4. InOrder(order, queue') /\ In(queue') = In(queue) \cup {f}
        BY <2>a, <2>c
    <2>5. Ahead(order, In(deferred), In(queue')) /\ Ahead(order, In(batch), In(queue'))
        BY <1>i, <2>2, <2>a DEF Ahead
    <2>6. QED
        BY <1>i, <2>1, <2>4, <2>5 DEF LineInv
<1>4. CASE TakeDeferred \/ TakeFirst
    <2>1. PICK r \in Requests :
               /\ Starts(r)
               /\ \/ deferred = <<r>> /\ deferred' = <<>> /\ queue' = queue
                  \/ /\ deferred = <<>> /\ deferred' = deferred /\ queue # <<>>
                     /\ r = Head(queue) /\ queue' = Tail(queue)
        BY <1>4, TakeStarts
    <2>2. batch' = <<r>> /\ order' = order /\ In(deferred') = {}
        BY <1>0, <2>1 DEF Starts, callerVars
    <2>3. In(batch') = {r} /\ InOrder(order, batch')
        <3>1. In(<<r>>) = {r} /\ DOMAIN <<r>> = {1}
            BY Single
        <3>2. QED
            BY <2>2, <3>1 DEF InOrder
    <2>4. InOrder(order, queue') /\ Ahead(order, {r}, In(queue'))
        <3>1. CASE deferred = <<r>> /\ queue' = queue
            <4>1. In(deferred) = {r}
                BY <3>1, Single
            <4>2. QED
                BY <1>i, <3>1, <4>1
        <3>2. CASE queue # <<>> /\ r = Head(queue) /\ queue' = Tail(queue)
            BY <1>0, <1>i, <3>2, LineShrinks
        <3>3. QED
            BY <2>1, <3>1, <3>2
    <2>5. QED
        BY <2>2, <2>3, <2>4, AheadSets DEF LineInv
<1>5. CASE GatherMore
    <2> DEFINE r == Head(queue)
    <2>1. /\ wpc = "gather" /\ queue # <<>> /\ queue' = Tail(queue) /\ batch' = Append(batch, r)
          /\ deferred' = deferred /\ order' = order
        BY <1>5 DEF GatherMore, callerVars
    <2>2. In(deferred) = {}
        BY <1>0, <2>1 DEF BatchInv
    <2>3. /\ InOrder(order, queue') /\ Ahead(order, {r}, In(queue'))
          /\ r \in Requests /\ r \in In(queue) /\ In(queue') \subseteq In(queue)
        BY <1>0, <1>i, <2>1, LineShrinks, Removing
    <2> HIDE DEF r
    <2>4. Ahead(order, In(batch), {r}) /\ Ahead(order, In(batch), In(queue'))
        BY <1>i, <2>3 DEF Ahead
    <2>5. InOrder(order, batch') /\ In(batch') = In(batch) \cup {r}
        BY <1>0, <1>i, <2>1, <2>3, <2>4, LineGrows, Adding
    <2>6. Ahead(order, In(batch'), In(queue'))
        BY <2>3, <2>4, <2>5, AheadSets
    <2>7. QED
        BY <2>1, <2>2, <2>3, <2>5, <2>6, AheadSets DEF LineInv
<1>6. CASE Defer
    <2> DEFINE r == Head(queue)
    <2>1. /\ queue # <<>> /\ queue' = Tail(queue) /\ batch' = batch
          /\ deferred' = <<r>> /\ order' = order
        BY <1>6 DEF Defer, callerVars
    <2>2. /\ InOrder(order, queue') /\ Ahead(order, {r}, In(queue'))
          /\ r \in Requests /\ r \in In(queue) /\ In(queue') \subseteq In(queue)
        BY <1>0, <1>i, <2>1, LineShrinks, Removing
    <2> HIDE DEF r
    <2>3. In(deferred') = {r}
        BY <2>1, <2>2, Single
    <2>4. Ahead(order, In(batch), {r}) /\ Ahead(order, In(batch), In(queue'))
        BY <1>i, <2>2 DEF Ahead
    <2>5. QED
        BY <1>i, <2>1, <2>2, <2>3, <2>4 DEF LineInv
<1>7. CASE QueueEmpty
    BY <1>s, <1>7 DEF QueueEmpty, callerVars
<1>8. CASE Aborts
    BY <1>s, <1>8, AbortEnds DEF Ends, callerVars
<1>9. CASE Begin \/ InsertAppend \/ InsertOutbox \/ PublishRow \/ PublishedAll
    BY <1>s, <1>9 DEF Begin, InsertAppend, InsertOutbox, PublishRow, PublishedAll,
                      callerVars, writerVars
<1>10. CASE CommitBatch
    BY <1>s, <1>10 DEF CommitBatch
<1>11. CASE SendReplies
    <2>1. batch' = <<>> /\ order' = order /\ queue' = queue /\ deferred' = deferred
        BY <1>11 DEF SendReplies
    <2>2. QED
        BY <1>0, <1>e, <1>i, <2>1, AheadSets DEF LineInv
<1>12. CASE Restart
    <2>1. batch' = <<>> /\ queue' = <<>> /\ deferred' = <<>>
        BY <1>12 DEF Restart
    <2>2. QED
        BY <1>0, <1>e, <2>1, AheadSets DEF LineInv
<1>13. QED
    BY <1>1, <1>2, <1>3, <1>4, <1>5, <1>6, <1>7, <1>8, <1>9, <1>10, <1>11, <1>12
       DEF Next, Gather, Transact, Announce, Aborts

\* A transaction inserts its appends in order.
LEMMA SortedStep ==
    ASSUME TypeOK, FlightInv, BatchInv, IdsInv, StagedInv, SentInv, LineInv, SortedInv, Next
    PROVE  SortedInv'
<1>0. /\ queue \in Seq(Requests) /\ batch \in Seq(Requests)
      /\ order \in Seq(Appends) /\ In(batch) \cap Appends \subseteq In(order)
    BY Waiters
<1>t. todo \in Seq(Requests) /\ staged \in Seq(Row)
    BY DEF TypeOK
<1>s. ASSUME UNCHANGED <<wpc, batch, todo, staged, order>> PROVE SortedInv'
    BY <1>s DEF SortedInv
<1>n. ASSUME wpc' # "insert" PROVE SortedInv'
    BY <1>n DEF SortedInv
<1>1. ASSUME NEW x \in Appends, Send(x), wpc = "insert" PROVE SortedInv'
    <2>1. /\ order' = Append(order, x) /\ UNCHANGED <<wpc, batch, todo, staged>> /\ reply[x] = "none"
        BY <1>1 DEF Send, writerVars
    <2>2. x \notin In(order)
        BY <2>1 DEF SentInv
    <2>3. /\ InOrder(order, todo) /\ Once(todo) /\ In(todo) \subseteq In(batch)
          /\ RowsInOrder(order, staged) /\ Origins(staged) \cap Appends \subseteq In(batch)
          /\ Ahead(order, Origins(staged), In(todo))
        BY <1>1 DEF SortedInv
    <2>4. /\ InOrder(order', todo) /\ RowsInOrder(order', staged)
          /\ Ahead(order', Origins(staged), In(todo))
        <3>1. In(todo) \cap Appends \subseteq In(order) /\ Origins(staged) \cap Appends \subseteq In(order)
            BY <1>0, <2>3
        <3>2. QED
            BY <1>0, <2>1, <2>2, <2>3, <3>1, OrderKept
    <2>5. QED
        BY <2>1, <2>3, <2>4 DEF SortedInv
<1>2. ASSUME NEW x \in Appends, Send(x) PROVE SortedInv'
    BY <1>1, <1>2, <1>n DEF Send, writerVars
<1>3. CASE EnqueueOutbox \/ \E f \in Flushers : ReadPending(f) \/ SendFlush(f)
    BY <1>s, <1>3 DEF EnqueueOutbox, ReadPending, SendFlush, writerVars
<1>4. CASE TakeDeferred \/ TakeFirst
    BY <1>n, <1>4, TakeStarts DEF Starts
<1>5. CASE GatherMore \/ Defer \/ QueueEmpty
    BY <1>n, <1>5 DEF GatherMore, Defer, QueueEmpty, AfterTaking
<1>6. CASE Aborts
    BY <1>n, <1>6, AbortEnds DEF Ends
<1>7. CASE Begin
    <2>1. todo' = batch /\ staged' = <<>> /\ batch' = batch /\ order' = order
        BY <1>7 DEF Begin, callerVars
    <2>2. Origins(staged') = {} /\ RowsInOrder(order, staged')
        BY <2>1 DEF Origins, RowsInOrder
    <2>3. InOrder(order, batch) /\ Once(batch)
        BY DEF LineInv, FlightInv
    <2>4. QED
        BY <2>1, <2>2, <2>3, AheadSets DEF SortedInv
<1>8. CASE InsertAppend
    <2> DEFINE h == Head(todo)
               rows == RowsOf(h)
    <2>1. /\ wpc = "insert" /\ todo # <<>> /\ h \in Appends /\ staged' = staged \o rows
          /\ todo' = Tail(todo) /\ UNCHANGED <<wpc, batch, order>>
        BY <1>8 DEF InsertAppend, callerVars
    <2>2. /\ InOrder(order, todo) /\ Once(todo) /\ In(todo) \subseteq In(batch)
          /\ RowsInOrder(order, staged) /\ Origins(staged) \cap Appends \subseteq In(batch)
          /\ Ahead(order, Origins(staged), In(todo))
        BY <2>1 DEF SortedInv
    <2>3. /\ InOrder(order, todo') /\ Ahead(order, {h}, In(todo')) /\ In(todo') \subseteq In(todo)
          /\ h \in In(todo) /\ Once(todo')
        BY <1>t, <2>1, <2>2, LineShrinks, Removing
    <2>4. rows \in Seq(Row) /\ Origins(rows) \subseteq {h} /\ RowsInOrder(order, rows)
        BY <2>1, RowsAreRows, RowsAreWhole
    <2> HIDE DEF h, rows
    <2>5. Ahead(order, Origins(staged), Origins(rows))
        BY <2>2, <2>3, <2>4 DEF Ahead
    <2>6. Origins(staged') = Origins(staged) \cup Origins(rows) /\ RowsInOrder(order, staged')
        BY <1>t, <2>1, <2>2, <2>4, <2>5, RowsJoin
    <2>7. Origins(staged') \cap Appends \subseteq In(batch)
        BY <2>2, <2>3, <2>4, <2>6
    <2>8. Ahead(order, Origins(staged'), In(todo'))
        BY <2>2, <2>3, <2>4, <2>6 DEF Ahead
    <2>9. QED
        BY <2>1, <2>2, <2>3, <2>6, <2>7, <2>8 DEF SortedInv
<1>9. CASE InsertOutbox
    <2>1. wpc = "insert" /\ todo # <<>> /\ Head(todo) \in Flushers /\ UNCHANGED <<wpc, batch, order>>
        BY <1>9 DEF InsertOutbox, callerVars
    <2>2. StagedInv' /\ BatchInv'
        BY <1>9, InsertInOrder, BatchStep DEF Next, Transact
    <2>3. batch # <<>> /\ batch[1] \in Requests /\ Head(todo) = todo[1] /\ todo[1] \in In(todo)
        BY <1>0, <1>t, <2>1, Indices, Removing DEF BatchInv
    <2>4. batch[1] \notin Appends
        BY <2>1, <2>3, RequestsAssumption DEF StagedInv
    <2>5. batch[1] \in Flushers /\ batch'[1] = batch[1]
        BY <2>1, <2>3, <2>4 DEF Requests
    <2>6. /\ todo' = <<>> \/ todo' = batch'
          /\ \A k \in DOMAIN staged' : staged'[k].origin = Outbox
        <3>1. (batch[1] \in Flushers => Inserting(batch[1]))'
            BY <2>1, <2>2 DEF StagedInv
        <3>2. Inserting(batch[1])'
            BY <2>5, <3>1
        <3>3. QED
            BY <3>2 DEF Inserting
    <2>7. Len(batch) = 1 /\ DOMAIN batch = {1} /\ In(batch) = {batch[1]}
        <3>1. Len(batch) = 1
            BY <1>0, <2>3, <2>4, Indices DEF BatchInv
        <3>2. DOMAIN batch = {1}
            BY <1>0, <3>1
        <3>3. QED
            BY <3>1, <3>2 DEF In
    <2>8. Outbox \notin Appends
        BY RequestsAssumption DEF Requests
    <2>9. Origins(staged') \cap Appends = {} /\ RowsInOrder(order, staged')
        BY <2>6, <2>8 DEF Origins, RowsInOrder
    <2>10. In(todo') \subseteq In(batch) /\ In(todo') \cap Appends = {} /\ Once(todo')
           /\ InOrder(order, todo')
        <3>1. CASE todo' = <<>>
            BY <3>1, Indices, <1>0 DEF InOrder
        <3>2. CASE todo' = batch
            BY <2>4, <2>7, <3>2 DEF InOrder, Once
        <3>3. QED
            BY <2>1, <2>6, <3>1, <3>2
    <2>11. QED
        BY <2>1, <2>9, <2>10 DEF SortedInv, Ahead
<1>10. CASE CommitBatch
    BY <1>n, <1>10 DEF CommitBatch
<1>11. CASE PublishRow
    BY <1>s, <1>11 DEF PublishRow, callerVars, writerVars
<1>12. CASE PublishedAll \/ SendReplies \/ Restart
    BY <1>n, <1>12 DEF PublishedAll, SendReplies, Restart
<1>13. QED
    BY <1>2, <1>3, <1>4, <1>5, <1>6, <1>7, <1>8, <1>9, <1>10, <1>11, <1>12
       DEF Next, Gather, Transact, Announce, Aborts

\* The log has appends in the order they were sent.
LEMMA CursorStep ==
    ASSUME TypeOK, FlightInv, BatchInv, SentInv, LineInv, SortedInv, CursorInv, Next
    PROVE  CursorInv'
<1>0. /\ queue \in Seq(Requests) /\ batch \in Seq(Requests) /\ deferred \in Seq(Requests)
      /\ order \in Seq(Appends)
      /\ In(queue) \cap Appends \subseteq In(order) /\ In(batch) \cap Appends \subseteq In(order)
      /\ In(deferred) \cap Appends \subseteq In(order) /\ In(<<>>) = {}
    BY Waiters
<1>l. log \in Seq(Row) /\ staged \in Seq(Row)
    BY DEF TypeOK
<1>i. /\ RowsInOrder(order, log) /\ Origins(log) \cap Appends \subseteq In(order)
      /\ Ahead(order, Origins(log), In(queue)) /\ Ahead(order, Origins(log), In(deferred))
      /\ wpc \in {"gather", "begin", "insert"} => Ahead(order, Origins(log), In(batch))
    BY DEF CursorInv
<1>s. ASSUME UNCHANGED <<log, queue, deferred, batch, order>>,
             wpc' \in {"gather", "begin", "insert"} => wpc \in {"gather", "begin", "insert"}
      PROVE  CursorInv'
    BY <1>i, <1>s DEF CursorInv
<1>1. ASSUME NEW x \in Appends, Send(x) PROVE CursorInv'
    <2>1. /\ queue' = Append(queue, x) /\ order' = Append(order, x)
          /\ UNCHANGED <<log, batch, deferred, wpc>> /\ reply[x] = "none"
        BY <1>1 DEF Send, writerVars
    <2>2. x \notin In(order) /\ x \in Requests
        BY <2>1 DEF SentInv, Requests
    <2>3. /\ RowsInOrder(order', log) /\ Ahead(order', Origins(log), In(queue))
          /\ Ahead(order', Origins(log), In(deferred)) /\ Ahead(order', Origins(log), {x})
          /\ wpc \in {"gather", "begin", "insert"} => Ahead(order', Origins(log), In(batch))
        BY <1>0, <1>i, <2>1, <2>2, OrderKept
    <2>4. In(queue') = In(queue) \cup {x} /\ In(order') = In(order) \cup {x}
        BY <1>0, <2>1, <2>2, Adding
    <2>5. Ahead(order', Origins(log), In(queue'))
        BY <2>3, <2>4, AheadSets
    <2>6. QED
        BY <1>i, <2>1, <2>3, <2>4, <2>5 DEF CursorInv
<1>2. CASE EnqueueOutbox \/ \E f \in Flushers : ReadPending(f)
    BY <1>s, <1>2 DEF EnqueueOutbox, ReadPending, writerVars
<1>3. ASSUME NEW f \in Flushers, SendFlush(f) PROVE CursorInv'
    <2>1. queue' = Append(queue, f) /\ UNCHANGED <<log, batch, deferred, wpc, order>>
        BY <1>3 DEF SendFlush, writerVars
    <2>2. f \in Requests /\ f \notin Appends
        BY RequestsAssumption DEF Requests
    <2>3. In(queue') = In(queue) \cup {f}
        BY <1>0, <2>1, <2>2, Adding
    <2>4. Ahead(order, Origins(log), In(queue'))
        BY <1>i, <2>2, <2>3 DEF Ahead
    <2>5. QED
        BY <1>i, <2>1, <2>4 DEF CursorInv
<1>4. CASE TakeDeferred \/ TakeFirst
    <2>1. PICK r \in Requests :
               /\ Starts(r)
               /\ \/ deferred = <<r>> /\ deferred' = <<>> /\ queue' = queue
                  \/ /\ deferred = <<>> /\ deferred' = deferred /\ queue # <<>>
                     /\ r = Head(queue) /\ queue' = Tail(queue)
        BY <1>4, TakeStarts
    <2>2. batch' = <<r>> /\ order' = order /\ log' = log /\ In(deferred') = {}
        BY <1>0, <2>1 DEF Starts, callerVars
    <2>3. In(batch') = {r}
        BY <2>2, Single
    <2>4. In(queue') \subseteq In(queue) /\ (r \in In(queue) \/ r \in In(deferred))
        <3>1. CASE deferred = <<r>> /\ queue' = queue
            <4>1. In(deferred) = {r}
                BY <3>1, Single
            <4>2. QED
                BY <3>1, <4>1
        <3>2. CASE queue # <<>> /\ r = Head(queue) /\ queue' = Tail(queue)
            BY <1>0, <3>2, Removing
        <3>3. QED
            BY <2>1, <3>1, <3>2
    <2>5. Ahead(order, Origins(log), In(queue')) /\ Ahead(order, Origins(log), In(batch'))
        BY <1>i, <2>3, <2>4 DEF Ahead
    <2>6. QED
        BY <1>i, <2>2, <2>5, AheadSets DEF CursorInv
<1>5. CASE GatherMore
    <2> DEFINE r == Head(queue)
    <2>1. /\ wpc = "gather" /\ queue # <<>> /\ queue' = Tail(queue) /\ batch' = Append(batch, r)
          /\ UNCHANGED <<deferred, order, log>>
        BY <1>5 DEF GatherMore, callerVars
    <2>2. r \in Requests /\ r \in In(queue) /\ In(queue') \subseteq In(queue)
        BY <1>0, <2>1, Removing
    <2> HIDE DEF r
    <2>3. In(batch') = In(batch) \cup {r}
        BY <1>0, <2>1, <2>2, Adding
    <2>4. Ahead(order, Origins(log), In(queue')) /\ Ahead(order, Origins(log), In(batch'))
        BY <1>i, <2>1, <2>2, <2>3 DEF Ahead
    <2>5. QED
        BY <1>i, <2>1, <2>4 DEF CursorInv
<1>6. CASE Defer
    <2> DEFINE r == Head(queue)
    <2>1. /\ wpc = "gather" /\ queue # <<>> /\ queue' = Tail(queue) /\ deferred' = <<r>>
          /\ UNCHANGED <<batch, order, log>>
        BY <1>6 DEF Defer, callerVars
    <2>2. r \in Requests /\ r \in In(queue) /\ In(queue') \subseteq In(queue)
        BY <1>0, <2>1, Removing
    <2> HIDE DEF r
    <2>3. In(deferred') = {r}
        BY <2>1, <2>2, Single
    <2>4. Ahead(order, Origins(log), In(queue')) /\ Ahead(order, Origins(log), In(deferred'))
        BY <1>i, <2>2, <2>3 DEF Ahead
    <2>5. QED
        BY <1>i, <2>1, <2>4 DEF CursorInv
<1>7. CASE QueueEmpty
    BY <1>s, <1>7 DEF QueueEmpty, callerVars
<1>8. CASE Aborts
    BY <1>s, <1>8, AbortEnds DEF Ends, callerVars
<1>9. CASE Begin \/ InsertAppend \/ InsertOutbox \/ PublishRow \/ PublishedAll
    BY <1>s, <1>9 DEF Begin, InsertAppend, InsertOutbox, PublishRow, PublishedAll,
                      callerVars, writerVars
<1>10. CASE CommitBatch
    <2>1. /\ wpc = "insert" /\ log' = log \o staged /\ wpc' = "publish"
          /\ UNCHANGED <<queue, deferred, batch, order>>
        BY <1>10 DEF CommitBatch
    <2>2. RowsInOrder(order, staged) /\ Origins(staged) \cap Appends \subseteq In(batch)
        BY <2>1 DEF SortedInv
    <2>3. Ahead(order, Origins(log), Origins(staged))
        BY <1>i, <2>1, <2>2, AheadSets
    <2>4. Origins(log') = Origins(log) \cup Origins(staged) /\ RowsInOrder(order, log')
        BY <1>i, <1>l, <2>1, <2>2, <2>3, RowsJoin
    <2>5. Ahead(order, In(batch), In(queue)) /\ Ahead(order, In(batch), In(deferred))
        BY DEF LineInv
    <2>6. Ahead(order, Origins(log'), In(queue)) /\ Ahead(order, Origins(log'), In(deferred))
        BY <1>i, <2>2, <2>4, <2>5 DEF Ahead
    <2>7. Origins(log') \cap Appends \subseteq In(order)
        BY <1>0, <1>i, <2>2, <2>4
    <2>8. QED
        BY <2>1, <2>4, <2>6, <2>7 DEF CursorInv
<1>11. CASE SendReplies
    <2>1. wpc' = "idle" /\ UNCHANGED <<log, queue, deferred, order>>
        BY <1>11 DEF SendReplies
    <2>2. QED
        BY <1>i, <2>1 DEF CursorInv
<1>12. CASE Restart
    <2>1. wpc' = "idle" /\ queue' = <<>> /\ deferred' = <<>> /\ UNCHANGED <<log, order>>
        BY <1>12 DEF Restart
    <2>2. QED
        BY <1>0, <1>i, <2>1, AheadSets DEF CursorInv
<1>13. QED
    BY <1>1, <1>2, <1>3, <1>4, <1>5, <1>6, <1>7, <1>8, <1>9, <1>10, <1>11, <1>12
       DEF Next, Gather, Transact, Announce, Aborts

--------------------------------------------------------------------------------
\* What callers are told

\* An append that may decline is alone in its batch.
LEMMA CountStep ==
    ASSUME TypeOK, BatchInv, CountInv, Next
    PROVE  CountInv'
<1>0. queue \in Seq(Requests) /\ batch \in Seq(Requests) /\ In(<<>>) = {} /\ Len(<<>>) = 0
    BY Indices DEF TypeOK
<1>s. ASSUME UNCHANGED <<batch, count>>, wpc' = "gather" => wpc = "gather" PROVE CountInv'
    BY <1>s DEF CountInv
<1>1. CASE (\E a \in Appends : Send(a)) \/ EnqueueOutbox
           \/ \E f \in Flushers : ReadPending(f) \/ SendFlush(f)
    BY <1>s, <1>1 DEF Send, EnqueueOutbox, ReadPending, SendFlush, writerVars
<1>2. CASE TakeDeferred \/ TakeFirst
    <2>1. PICK r \in Requests : Starts(r)
        BY <1>2, TakeStarts
    <2>2. /\ batch' = <<r>> /\ count' = SizeOf(r) /\ wpc' = AfterTaking(r, SizeOf(r))
        BY <2>1 DEF Starts
    <2>3. In(batch') = {r} /\ Len(batch') = 1 /\ batch'[1] = r
        BY <2>2, Single
    <2>4. r \in Isolated => wpc' = "begin"
        BY <2>2 DEF AfterTaking, TravelsAlone
    <2>5. r \in Appends => count' = Size[r]
        BY <2>2 DEF SizeOf
    <2>6. QED
        BY <2>3, <2>4, <2>5 DEF CountInv
<1>3. CASE GatherMore
    <2> DEFINE r == Head(queue)
    <2>1. wpc = "gather" /\ queue # <<>> /\ Joins(r) /\ batch' = Append(batch, r)
        BY <1>3 DEF GatherMore
    <2>2. r \in Requests /\ r \notin Isolated
        BY <1>0, <2>1, Removing DEF Joins, TravelsAlone
    <2> HIDE DEF r
    <2>3. batch # <<>> /\ In(batch) \cap Isolated = {}
        BY <2>1 DEF BatchInv, CountInv
    <2>4. In(batch') = In(batch) \cup {r} /\ Len(batch') = Len(batch) + 1
        BY <1>0, <2>1, <2>2, Adding
    <2>5. Len(batch) \in Nat /\ Len(batch) # 0
        BY <1>0, <2>3, Indices
    <2>6. Len(batch') # 1
        BY <2>4, <2>5
    <2>7. QED
        BY <2>2, <2>3, <2>4, <2>6 DEF CountInv
<1>4. CASE Defer \/ QueueEmpty \/ Begin \/ PublishedAll
    BY <1>s, <1>4 DEF Defer, QueueEmpty, Begin, PublishedAll
<1>5. CASE Aborts
    BY <1>s, <1>5, AbortEnds DEF Ends
<1>6. CASE InsertAppend \/ InsertOutbox \/ PublishRow
    BY <1>s, <1>6 DEF InsertAppend, InsertOutbox, PublishRow, writerVars
<1>7. CASE CommitBatch
    BY <1>s, <1>7 DEF CommitBatch
<1>8. CASE SendReplies \/ Restart
    <2>1. batch' = <<>>
        BY <1>8 DEF SendReplies, Restart
    <2>2. In(batch') = {} /\ Len(batch') = 0
        BY <1>0, <2>1
    <2>3. QED
        BY <2>2 DEF CountInv
<1>9. QED
    BY <1>1, <1>2, <1>3, <1>4, <1>5, <1>6, <1>7, <1>8
       DEF Next, Gather, Transact, Announce, Aborts

\* A transaction holds the rows of the appends it is done with.
LEMMA WholeStep ==
    ASSUME TypeOK, FlightInv, BatchInv, StagedInv, SortedInv, WholeInv, Next
    PROVE  WholeInv'
<1>0. todo \in Seq(Requests) /\ staged \in Seq(Row) /\ batch \in Seq(Requests)
    BY DEF TypeOK
<1>s. ASSUME UNCHANGED <<wpc, batch, todo, staged>> PROVE WholeInv'
    BY <1>s DEF WholeInv
<1>n. ASSUME wpc' # "insert" PROVE WholeInv'
    BY <1>n DEF WholeInv
<1>1. CASE (\E a \in Appends : Send(a)) \/ EnqueueOutbox
           \/ \E f \in Flushers : ReadPending(f) \/ SendFlush(f)
    BY <1>s, <1>1 DEF Send, EnqueueOutbox, ReadPending, SendFlush, writerVars
<1>2. CASE TakeDeferred \/ TakeFirst
    BY <1>n, <1>2, TakeStarts DEF Starts
<1>3. CASE GatherMore \/ Defer \/ QueueEmpty
    BY <1>n, <1>3 DEF GatherMore, Defer, QueueEmpty, AfterTaking
<1>4. CASE Aborts
    BY <1>n, <1>4, AbortEnds DEF Ends
<1>5. CASE Begin
    <2>1. todo' = batch /\ staged' = <<>> /\ batch' = batch
        BY <1>5 DEF Begin
    <2>2. Origins(staged') = {}
        BY <2>1 DEF Origins
    <2>3. QED
        BY <2>1, <2>2 DEF WholeInv
<1>6. CASE InsertAppend
    <2> DEFINE h == Head(todo)
               rows == RowsOf(h)
    <2>1. /\ wpc = "insert" /\ todo # <<>> /\ h \in Appends /\ staged' = staged \o rows
          /\ todo' = Tail(todo) /\ batch' = batch
        BY <1>6 DEF InsertAppend
    <2>2. Once(todo) /\ In(todo) \subseteq In(batch)
        BY <2>1 DEF SortedInv
    <2>3. h \in In(todo) /\ h \notin In(todo') /\ In(todo') \subseteq In(todo)
        BY <1>0, <2>1, <2>2, Removing
    <2>4. In(todo) \subseteq In(todo') \cup {h}
        <3>1. /\ Len(todo) \in Nat /\ DOMAIN todo = 1 .. Len(todo) /\ h = todo[1]
              /\ DOMAIN todo' = 1 .. Len(todo) - 1
              /\ \A k \in 1 .. Len(todo) - 1 : todo'[k] = todo[k + 1]
            BY <1>0, <2>1
        <3>2. ASSUME NEW k \in DOMAIN todo, k # 1 PROVE todo[k] \in In(todo')
            <4>1. k - 1 \in DOMAIN todo' /\ todo'[k - 1] = todo[k]
                BY <3>1, <3>2
            <4>2. QED
                BY <4>1 DEF In
        <3>3. QED
            BY <3>1, <3>2 DEF In
    <2>5. rows \in Seq(Row) /\ Origins(rows) \subseteq {h} /\ Whole(rows, h)
        BY <2>1, RowsAreRows, RowsAreWhole
    <2> HIDE DEF h, rows
    <2>6. Origins(staged') = Origins(staged) \cup Origins(rows)
        BY <1>0, <2>1, <2>5, RowsJoin
    <2>7. ASSUME NEW a \in In(batch) \cap Appends
          PROVE  IF a \in In(todo') THEN a \notin Origins(staged') ELSE Whole(staged', a)
        <3>1. CASE a = h
            <4>1. a \notin Origins(staged)
                BY <2>1, <2>3, <3>1 DEF WholeInv
            <4>2. Whole(staged', a)
                BY <1>0, <2>1, <2>5, <3>1, <4>1, BlockStays
            <4>3. QED
                BY <2>3, <3>1, <4>2
        <3>2. CASE a # h /\ a \in In(todo')
            BY <2>1, <2>3, <2>5, <2>6, <3>2 DEF WholeInv
        <3>3. CASE a # h /\ a \notin In(todo')
            <4>1. Whole(staged, a) /\ a \notin Origins(rows)
                BY <2>1, <2>4, <2>5, <2>7, <3>3 DEF WholeInv
            <4>2. Whole(staged', a)
                BY <1>0, <2>1, <2>5, <4>1, BlockStays
            <4>3. QED
                BY <3>3, <4>2
        <3>4. QED
            BY <3>1, <3>2, <3>3
    <2>8. QED
        BY <2>1, <2>7 DEF WholeInv
<1>7. CASE InsertOutbox
    <2>1. wpc = "insert" /\ todo # <<>> /\ Head(todo) \in Flushers /\ batch' = batch
        BY <1>7 DEF InsertOutbox
    <2>2. Head(todo) \in In(todo) /\ In(todo) \subseteq In(batch)
        BY <1>0, <2>1, Removing DEF SortedInv
    <2>3. In(batch) \cap Appends = {}
        <3>1. ~(In(batch) \subseteq Appends)
            BY <2>1, <2>2, RequestsAssumption
        <3>2. Len(batch) = 1 /\ batch[1] \in Flushers
            BY <3>1 DEF BatchInv
        <3>3. In(batch) = {batch[1]}
            <4>1. DOMAIN batch = {1}
                BY <1>0, <3>2
            <4>2. QED
                BY <4>1 DEF In
        <3>4. QED
            BY <3>2, <3>3, RequestsAssumption
    <2>4. QED
        BY <2>1, <2>3 DEF WholeInv
<1>8. CASE CommitBatch
    BY <1>n, <1>8 DEF CommitBatch
<1>9. CASE PublishRow
    BY <1>s, <1>9 DEF PublishRow, writerVars
<1>10. CASE PublishedAll \/ SendReplies \/ Restart
    BY <1>n, <1>10 DEF PublishedAll, SendReplies, Restart
<1>11. QED
    BY <1>1, <1>2, <1>3, <1>4, <1>5, <1>6, <1>7, <1>8, <1>9, <1>10
       DEF Next, Gather, Transact, Announce, Aborts

\* A mutation that declines its event takes no other caller's events with it.
LEMMA OutcomeStep ==
    ASSUME TypeOK, BatchInv, SortedInv, CountInv, OutcomeInv, Next
    PROVE  OutcomeInv'
<1>0. todo \in Seq(Requests) /\ batch \in Seq(Requests)
    BY DEF TypeOK
<1>s. ASSUME UNCHANGED <<wpc, batch, outcome>> PROVE OutcomeInv'
    BY <1>s DEF OutcomeInv
<1>n. ASSUME wpc' \notin {"publish", "reply"} PROVE OutcomeInv'
    BY <1>n DEF OutcomeInv
<1>1. CASE (\E a \in Appends : Send(a)) \/ EnqueueOutbox
           \/ \E f \in Flushers : ReadPending(f) \/ SendFlush(f)
    BY <1>s, <1>1 DEF Send, EnqueueOutbox, ReadPending, SendFlush, writerVars
<1>2. CASE TakeDeferred \/ TakeFirst
    BY <1>n, <1>2, TakeStarts DEF Starts
<1>3. CASE GatherMore \/ Defer \/ QueueEmpty \/ Begin
    BY <1>n, <1>3 DEF GatherMore, Defer, QueueEmpty, Begin, AfterTaking
<1>4. CASE SkipStaleFlush
    <2>1. wpc' = "reply" /\ outcome' = "skipped" /\ batch' = batch /\ IdsOf(batch) # {} /\ wpc = "begin"
        BY <1>4 DEF SkipStaleFlush, End
    <2>2. batch[1] \in Flushers /\ batch # <<>>
        BY <2>1 DEF IdsOf, BatchInv
    <2>3. batch[1] \in In(batch) /\ batch[1] \notin Appends
        BY <1>0, <2>2, Indices, RequestsAssumption
    <2>4. Len(batch) = 1
        BY <2>3 DEF BatchInv
    <2>5. In(batch) = {batch[1]}
        <3>1. DOMAIN batch = {1}
            BY <1>0, <2>4
        <3>2. QED
            BY <3>1 DEF In
    <2>6. QED
        BY <2>1, <2>3, <2>5 DEF OutcomeInv
<1>5. CASE DeclineAppend
    <2> DEFINE h == Head(todo)
    <2>1. /\ wpc = "insert" /\ todo # <<>> /\ h \in Conditional /\ wpc' = "reply" /\ batch' = batch
          /\ outcome' = IF count <= 1 THEN "skipped" ELSE "refused"
        BY <1>5 DEF DeclineAppend, End
    <2>2. h \in In(batch) /\ h \in Isolated /\ h \in Appends /\ Size[h] = 1
        BY <1>0, <2>1, Removing, ConditionalAssumption DEF SortedInv
    <2> HIDE DEF h
    <2>3. ~(Len(batch) > 1)
        BY <2>2 DEF CountInv
    <2>4. Len(batch) \in Nat /\ Len(batch) # 0
        <3>1. batch # <<>>
            BY <2>1 DEF BatchInv
        <3>2. QED
            BY <1>0, <3>1, Indices
    <2>n. ASSUME NEW n \in Nat, n # 0, ~(n > 1) PROVE n = 1
        BY <2>n
    <2>5. Len(batch) = 1
        BY <2>3, <2>4, <2>n, Zenon
    <2>6. In(batch) = {batch[1]}
        <3>1. DOMAIN batch = {1}
            BY <1>0, <2>5
        <3>2. QED
            BY <3>1 DEF In
    <2>7. batch[1] = h /\ count = 1
        BY <2>2, <2>5, <2>6 DEF CountInv
    <2>8. outcome' = "skipped"
        BY <2>1, <2>7
    <2>9. QED
        BY <2>1, <2>6, <2>7, <2>8 DEF OutcomeInv
<1>6. CASE StorageFault
    BY <1>6 DEF StorageFault, End, OutcomeInv
<1>7. CASE InsertAppend \/ InsertOutbox \/ PublishRow
    BY <1>s, <1>7 DEF InsertAppend, InsertOutbox, PublishRow, writerVars
<1>8. CASE CommitBatch
    BY <1>8 DEF CommitBatch, OutcomeInv
<1>9. CASE PublishedAll
    BY <1>9 DEF PublishedAll, OutcomeInv
<1>10. CASE SendReplies \/ Restart
    BY <1>n, <1>10 DEF SendReplies, Restart
<1>11. QED
    BY <1>1, <1>2, <1>3, <1>4, <1>5, <1>6, <1>7, <1>8, <1>9, <1>10
       DEF Next, Gather, Transact, Announce

\* More published rows, or rows of others, do not change what a caller was told.
LEMMA ToldStays ==
    ASSUME NEW s \in Seq(Row), NEW t \in Seq(Row), NEW p \in Nat, NEW q \in Nat, p <= q,
           NEW a \in Appends, NEW w, Told(s, p, a, w), a \notin Origins(t)
    PROVE  Told(s, q, a, w) /\ Told(s \o t, q, a, w)
<1>1. /\ Len(s) \in Nat /\ DOMAIN s = 1 .. Len(s)
    BY Indices
<1>2. Origins(s \o t) = Origins(s) \cup Origins(t)
    BY RowsJoin
<1>3. Whole(s, a) => Whole(s \o t, a)
    BY BlockStays
<1>4. ASSUME NEW c \in DOMAIN (s \o t), (s \o t)[c].origin = a PROVE c \in DOMAIN s /\ s[c].origin = a
    <2>1. CASE c \in DOMAIN s
        BY <1>4, <2>1, Joining
    <2>2. CASE c \notin DOMAIN s
        <3>1. DOMAIN (s \o t) = 1 .. Len(s) + Len(t) /\ Len(t) \in Nat /\ DOMAIN t = 1 .. Len(t)
            BY Joining, Indices
        <3>2. c - Len(s) \in DOMAIN t /\ c = Len(s) + (c - Len(s))
            BY <1>1, <1>4, <2>2, <3>1
        <3>3. (s \o t)[c] = t[c - Len(s)]
            BY <3>2, Joining
        <3>4. QED
            BY <1>4, <3>2, <3>3 DEF Origins
    <2>3. QED
        BY <2>1, <2>2
<1>5. ASSUME w = "ok", NEW c \in DOMAIN s, s[c].origin = a PROVE c <= q
    <2>1. c <= p /\ c \in Nat
        BY <1>1, <1>5 DEF Told
    <2>2. QED
        BY <2>1
<1>6. Told(s, q, a, w)
    BY <1>5 DEF Told
<1>7. Told(s \o t, q, a, w)
    BY <1>2, <1>3, <1>4, <1>5 DEF Told
<1>8. QED
    BY <1>6, <1>7

\* A commit makes good on what it will tell the callers of the batch, and
\* changes nothing for anybody else.
LEMMA CommitTold ==
    ASSUME TypeOK, FlightInv, SortedInv, WholeInv, ReplyInv, CommitBatch
    PROVE  ReplyInv'
<1>1. /\ wpc = "insert" /\ todo = <<>> /\ log' = log \o staged /\ wpc' = "publish"
      /\ UNCHANGED <<published, reply, batch>>
    BY DEF CommitBatch
<1>2. log \in Seq(Row) /\ staged \in Seq(Row) /\ published \in Nat /\ In(<<>>) = {}
    BY Indices DEF TypeOK
<1>3. Origins(log') = Origins(log) \cup Origins(staged)
    BY <1>1, <1>2, RowsJoin
<1>4. ASSUME NEW a \in Appends, a \in In(batch)
      PROVE  reply[a] = "waiting" /\ Whole(log', a)
    <2>1. reply[a] = "waiting"
        BY <1>4 DEF FlightInv
    <2>2. a \notin Origins(log)
        BY <1>1, <2>1 DEF ReplyInv, Committed
    <2>3. Whole(staged, a)
        BY <1>1, <1>2, <1>4 DEF WholeInv
    <2>4. QED
        BY <1>1, <1>2, <2>1, <2>2, <2>3, BlockStays
<1>5. ASSUME NEW a \in Appends, a \notin In(batch)
      PROVE  a \notin Origins(staged) /\ Told(log', published, a, reply[a])
             /\ (reply[a] = "waiting" => a \notin Origins(log'))
    <2>1. a \notin Origins(staged)
        BY <1>1, <1>5 DEF SortedInv
    <2>2. Told(log, published, a, reply[a])
        BY DEF ReplyInv
    <2>3. Told(log', published, a, reply[a])
        BY <1>1, <1>2, <2>1, <2>2, ToldStays
    <2>4. reply[a] = "waiting" => a \notin Origins(log)
        BY <1>5 DEF ReplyInv
    <2>5. QED
        BY <1>3, <2>1, <2>3, <2>4
<1>6. ASSUME NEW a \in Appends
      PROVE  /\ reply'[a] # "read" /\ Told(log', published', a, reply'[a])
             /\ reply'[a] = "waiting" =>
                    IF a \in In(batch') THEN Whole(log', a) ELSE a \notin Origins(log')
    <2>1. reply[a] # "read" /\ reply'[a] = reply[a] /\ published' = published
        BY <1>1 DEF ReplyInv
    <2>2. Told(log', published, a, "waiting")
        BY DEF Told
    <2>3. QED
        BY <1>1, <1>4, <1>5, <2>1, <2>2
<1>7. Committed'
    BY <1>1 DEF Committed
<1>8. QED
    BY <1>6, <1>7 DEF ReplyInv

\* Every caller is told the truth.
LEMMA ReplyStep ==
    ASSUME TypeOK, FlightInv, BatchInv, PublishInv, SentInv, SortedInv, WholeInv, OutcomeInv, ReplyInv, Next
    PROVE  ReplyInv'
<1>0. /\ log \in Seq(Row) /\ published \in Nat /\ Len(log) \in Nat /\ DOMAIN log = 1 .. Len(log)
      /\ reply \in [Requests -> Status] /\ batch \in Seq(Requests) /\ queue \in Seq(Requests)
      /\ <<>> \in Seq(Row) /\ Origins(<<>>) = {} /\ In(<<>>) = {}
      /\ \A a \in Appends : a \in Requests
    <2>1. Origins(<<>>) = {}
        BY DEF Origins
    <2>2. QED
        BY <2>1, Indices DEF TypeOK, Requests
<1>i. \A a \in Appends :
          /\ reply[a] # "read" /\ Told(log, published, a, reply[a])
          /\ reply[a] = "waiting" =>
                 IF a \in In(batch) /\ Committed THEN Whole(log, a) ELSE a \notin Origins(log)
    BY DEF ReplyInv
<1>s. ASSUME UNCHANGED <<log, published, batch>>, Committed' <=> Committed,
             \A a \in Appends : reply'[a] = reply[a]
      PROVE  ReplyInv'
    BY <1>i, <1>s DEF ReplyInv
\* Before a transaction ends nobody in the batch has rows in the log.
<1>b. ASSUME UNCHANGED <<log, published, reply>>, ~Committed, ~Committed' PROVE ReplyInv'
    BY <1>i, <1>b DEF ReplyInv
<1>1. ASSUME NEW x \in Appends, Send(x) PROVE ReplyInv'
    <2>1. /\ reply[x] = "none" /\ reply' = [reply EXCEPT ![x] = "waiting"]
          /\ UNCHANGED <<log, published, batch, wpc, outcome>>
        BY <1>1 DEF Send, writerVars
    <2>2. x \notin In(batch) /\ x \notin Origins(log)
        BY <1>i, <2>1, NotWaiting DEF Told
    <2>3. \A a \in Appends : a # x => reply'[a] = reply[a]
        BY <1>0, <2>1
    <2>4. reply'[x] = "waiting" /\ Told(log, published, x, "waiting")
        BY <1>0, <2>1 DEF Told
    <2>5. Committed' <=> Committed
        BY <2>1 DEF Committed
    <2>6. ASSUME NEW a \in Appends
          PROVE  /\ reply'[a] # "read" /\ Told(log', published', a, reply'[a])
                 /\ reply'[a] = "waiting" =>
                        IF a \in In(batch') /\ Committed' THEN Whole(log', a) ELSE a \notin Origins(log')
        <3>1. CASE a = x
            BY <2>1, <2>2, <2>4, <3>1
        <3>2. CASE a # x
            BY <1>i, <2>1, <2>3, <2>5, <3>2
        <3>3. QED
            BY <3>1, <3>2
    <2>7. QED
        BY <2>6 DEF ReplyInv
<1>2. CASE EnqueueOutbox
    BY <1>s, <1>2 DEF EnqueueOutbox, writerVars, Committed
<1>3. ASSUME NEW f \in Flushers, ReadPending(f) \/ SendFlush(f) PROVE ReplyInv'
    <2>1. /\ UNCHANGED <<log, published, batch, wpc, outcome>>
          /\ \E w : reply' = [reply EXCEPT ![f] = w]
        BY <1>3 DEF ReadPending, SendFlush, writerVars
    <2>2. Committed' <=> Committed
        BY <2>1 DEF Committed
    <2>3. QED
        BY <1>s, <2>1, <2>2, FlusherReplies
<1>4. CASE TakeDeferred \/ TakeFirst
    <2>1. PICK r \in Requests : Starts(r)
        BY <1>4, TakeStarts
    <2>2. QED
        BY <1>b, <2>1 DEF Starts, callerVars, Committed
<1>5. CASE GatherMore \/ Defer \/ QueueEmpty
    BY <1>b, <1>5 DEF GatherMore, Defer, QueueEmpty, AfterTaking, callerVars, Committed
<1>6. CASE Aborts
    BY <1>b, <1>6, AbortEnds DEF Ends, callerVars, Committed
<1>7. CASE Begin \/ InsertAppend \/ InsertOutbox
    BY <1>b, <1>7 DEF Begin, InsertAppend, InsertOutbox, callerVars, Committed
<1>8. CASE CommitBatch
    BY <1>8, CommitTold
<1>9. CASE PublishRow
    <2>1. published' = published + 1 /\ UNCHANGED <<log, reply, batch, wpc, outcome>>
        BY <1>9 DEF PublishRow, callerVars, writerVars
    <2>2. published + 1 \in Nat /\ published <= published + 1
        BY <1>0
    <2>3. \A a \in Appends : Told(log, published', a, reply[a])
        BY <1>0, <1>i, <2>1, <2>2, ToldStays
    <2>4. Committed' <=> Committed
        BY <2>1 DEF Committed
    <2>5. QED
        BY <1>i, <2>1, <2>3, <2>4 DEF ReplyInv
<1>10. CASE PublishedAll
    <2>1. wpc = "publish" /\ wpc' = "reply" /\ UNCHANGED <<log, published, reply, batch, outcome>>
        BY <1>10 DEF PublishedAll, callerVars
    <2>2. Committed /\ Committed'
        BY <2>1 DEF Committed, OutcomeInv
    <2>3. QED
        BY <1>s, <2>1, <2>2
<1>11. CASE SendReplies
    <2>1. /\ wpc = "reply" /\ wpc' = "idle" /\ UNCHANGED <<log, published>>
          /\ reply' = [r \in Requests |-> IF InBatch(r) THEN outcome ELSE reply[r]]
        BY <1>11 DEF SendReplies
    <2>2. published = Len(log) /\ ~Committed'
        BY <2>1 DEF PublishInv, Committed
    <2>3. ASSUME NEW a \in Appends, InBatch(a)
          PROVE  reply'[a] = outcome /\ outcome \notin {"read", "waiting"} /\ Told(log, published, a, outcome)
        <3>1. a \in In(batch) /\ reply[a] = "waiting" /\ reply'[a] = outcome
            BY <1>0, <2>1, <2>3 DEF InBatch, In, FlightInv
        <3>2. outcome \in {"ok", "skipped", "refused", "fault"}
            BY <2>1 DEF OutcomeInv
        <3>3. outcome \in {"skipped", "refused"} => a \in Conditional /\ outcome = "skipped"
            BY <2>1, <2>3, <3>1 DEF OutcomeInv
        <3>4. CASE outcome = "ok"
            <4>1. Whole(log, a)
                BY <1>i, <2>1, <3>1, <3>4 DEF Committed
            <4>2. \A c \in DOMAIN log : c <= published
                BY <1>0, <2>2
            <4>3. QED
                BY <3>1, <3>4, <4>1, <4>2 DEF Told
        <3>5. CASE outcome # "ok"
            <4>1. a \notin Origins(log)
                BY <1>i, <2>1, <3>1, <3>5 DEF Committed
            <4>2. QED
                BY <3>1, <3>2, <3>3, <3>5, <4>1 DEF Told
        <3>6. QED
            BY <3>4, <3>5
    <2>4. ASSUME NEW a \in Appends, ~InBatch(a)
          PROVE  reply'[a] = reply[a] /\ a \notin In(batch)
        BY <1>0, <2>1, <2>4 DEF InBatch, In
    <2>5. ASSUME NEW a \in Appends
          PROVE  /\ reply'[a] # "read" /\ Told(log, published, a, reply'[a])
                 /\ reply'[a] = "waiting" => a \notin Origins(log)
        <3>1. CASE InBatch(a)
            BY <2>3, <3>1
        <3>2. CASE ~InBatch(a)
            BY <1>i, <2>4, <3>2
        <3>3. QED
            BY <3>1, <3>2
    <2>6. QED
        BY <2>1, <2>2, <2>5 DEF ReplyInv
<1>12. CASE Restart
    <2>1. /\ published' = Len(log) /\ wpc' = "idle" /\ log' = log
          /\ reply' = [r \in Requests |-> IF r \in Flushers THEN "none"
                                          ELSE IF reply[r] = "waiting" THEN "lost" ELSE reply[r]]
        BY <1>12 DEF Restart
    <2>2. published <= Len(log) /\ ~Committed'
        BY <2>1 DEF PublishInv, Committed
    <2>3. ASSUME NEW a \in Appends
          PROVE  reply'[a] \notin {"read", "waiting"} /\ Told(log, published', a, reply'[a])
        <3>1. a \notin Flushers
            BY RequestsAssumption
        <3>2. CASE reply[a] = "waiting"
            <4>1. reply'[a] = "lost"
                BY <1>0, <2>1, <3>1, <3>2
            <4>2. a \notin Origins(log) \/ Whole(log, a)
                BY <1>i, <3>2
            <4>3. QED
                BY <4>1, <4>2 DEF Told
        <3>3. CASE reply[a] # "waiting"
            <4>1. reply'[a] = reply[a] /\ reply[a] # "read"
                BY <1>0, <1>i, <2>1, <3>1, <3>3
            <4>2. Told(log, published', a, reply[a])
                BY <1>0, <1>i, <2>1, <2>2, ToldStays
            <4>3. QED
                BY <3>3, <4>1, <4>2
        <3>4. QED
            BY <3>2, <3>3
    <2>4. QED
        BY <2>1, <2>3 DEF ReplyInv
<1>13. QED
    BY <1>1, <1>2, <1>3, <1>4, <1>5, <1>6, <1>7, <1>8, <1>9, <1>10, <1>11, <1>12
       DEF Next, Gather, Transact, Announce, Aborts

--------------------------------------------------------------------------------
\* The inductive invariant.
WriterInv == /\ TypeOK /\ FlightInv /\ BatchInv /\ IdsInv /\ StagedInv /\ LogInv /\ PublishInv
             /\ SentInv /\ LineInv /\ SortedInv /\ CursorInv
             /\ CountInv /\ WholeInv /\ OutcomeInv /\ ReplyInv

\* The writer starts with nothing.
LEMMA WriterStart == Init => WriterInv
<1> SUFFICES ASSUME Init PROVE WriterInv
    OBVIOUS
<1>1. In(<<>>) = {} /\ Once(<<>>) /\ DOMAIN <<>> = {} /\ Len(<<>>) = 0
    BY DEF In, Once
<1>2. TypeOK /\ IdsInv
    BY TypeStart
<1>3. FlightInv
    BY <1>1 DEF Init, FlightInv
<1>4. BatchInv
    BY <1>1 DEF Init, BatchInv
<1>5. StagedInv
    BY DEF Init, StagedInv
<1>6. LogInv
    BY <1>1 DEF Init, LogInv
<1>7. PublishInv
    BY <1>1 DEF Init, PublishInv
<1>8. SentInv
    BY <1>1 DEF Init, SentInv, Requests
<1>9. Origins(<<>>) = {} /\ \A o : InOrder(o, <<>>) /\ RowsInOrder(o, <<>>)
    BY DEF Origins, InOrder, RowsInOrder
<1>10. LineInv /\ CursorInv
    BY <1>1, <1>9, AheadSets DEF Init, LineInv, CursorInv
<1>11. SortedInv /\ WholeInv /\ OutcomeInv
    BY DEF Init, SortedInv, WholeInv, OutcomeInv
<1>12. CountInv
    BY <1>1 DEF Init, CountInv
<1>13. ReplyInv
    <2>1. \A a \in Appends : reply[a] = "none" /\ a \notin Origins(log)
        BY <1>9 DEF Init, Requests
    <2>2. QED
        BY <2>1 DEF ReplyInv, Told
<1>14. QED
    BY <1>2, <1>3, <1>4, <1>5, <1>6, <1>7, <1>8, <1>10, <1>11, <1>12, <1>13 DEF WriterInv

\* A step that changes nothing.
LEMMA WriterStutters ==
    ASSUME WriterInv, UNCHANGED vars
    PROVE  WriterInv'
<1>1. /\ UNCHANGED <<log, published, queue, outbox, nextId, ids, reply, order>>
      /\ UNCHANGED <<wpc, batch, count, todo, staged, outcome, deferred, mishaps>>
    BY DEF vars, callerVars, writerVars
<1>2. TypeOK'
    BY <1>1 DEF WriterInv, TypeOK
<1>a. FlightInv'
    BY <1>1 DEF WriterInv, FlightInv, In, Once
<1>b. BatchInv'
    BY <1>1 DEF WriterInv, BatchInv, In
<1>3. FlightInv' /\ BatchInv' /\ IdsInv'
    BY <1>1, <1>a, <1>b DEF WriterInv, IdsInv
<1>4. StagedInv' /\ LogInv' /\ PublishInv'
    BY <1>1 DEF WriterInv, StagedInv, Inserting, LogInv, PublishInv, In
<1>5. SentInv' /\ LineInv' /\ CursorInv'
    BY <1>1 DEF WriterInv, SentInv, LineInv, CursorInv
<1>6. SortedInv' /\ WholeInv' /\ CountInv'
    BY <1>1 DEF WriterInv, SortedInv, WholeInv, CountInv
<1>7. OutcomeInv' /\ ReplyInv'
    BY <1>1 DEF WriterInv, OutcomeInv, ReplyInv, Committed
<1>8. QED
    BY <1>2, <1>3, <1>4, <1>5, <1>6, <1>7 DEF WriterInv

\* Every step of the writer, its callers and the process keeps the invariants.
LEMMA WriterStep ==
    ASSUME WriterInv, [Next]_vars
    PROVE  WriterInv'
<1>1. CASE UNCHANGED vars
    BY <1>1, WriterStutters
<1>2. CASE Next
    <2>0. /\ TypeOK /\ FlightInv /\ BatchInv /\ IdsInv /\ StagedInv /\ LogInv /\ PublishInv
          /\ SentInv /\ LineInv /\ SortedInv /\ CursorInv
          /\ CountInv /\ WholeInv /\ OutcomeInv /\ ReplyInv
        BY DEF WriterInv
    <2>1. TypeOK'
        BY <1>2, <2>0, TypePartsNext, LogTyped, CallersTyped, WaitingTyped, BatchTyped, StagedTyped
    <2>2. FlightInv' /\ BatchInv' /\ IdsInv'
        BY <1>2, <2>0, FlightStep, BatchStep, IdsStep
    <2>3. StagedInv' /\ LogInv' /\ PublishInv'
        BY <1>2, <2>0, StagedStep, LogStep, PublishStep
    <2>4. SentInv' /\ LineInv' /\ SortedInv' /\ CursorInv'
        BY <1>2, <2>0, SentStep, LineStep, SortedStep, CursorStep
    <2>5. CountInv' /\ WholeInv' /\ OutcomeInv' /\ ReplyInv'
        BY <1>2, <2>0, CountStep, WholeStep, OutcomeStep, ReplyStep
    <2>6. QED
        BY <2>1, <2>2, <2>3, <2>4, <2>5 DEF WriterInv
<1>3. QED
    BY <1>1, <1>2

\* The writer's invariants hold for ever.
THEOREM Writer == Spec => []WriterInv
<1>1. Init => WriterInv
    BY WriterStart
<1>2. WriterInv /\ [Next]_vars => WriterInv'
    BY WriterStep
<1>3. QED
    BY <1>1, <1>2, PTL DEF Spec

\* The writer's state is typed: in particular only one request is put aside,
\* and only a single caller's events exceed the batch limit.
THEOREM TypeCorrect == Spec => []TypeOK
<1>1. WriterInv => TypeOK
    BY DEF WriterInv
<1>2. QED
    BY Writer, <1>1, PTL

\* flush_pending_code_review_events through insert_event_batch: whatever the
\* flushers, faults and restarts, an outbox row is pending or in the log once,
\* and the log has the rows in the order they happened.
THEOREM OutboxOnce == Spec => []OutboxOnceInOrder
<1>1. ASSUME WriterInv PROVE OutboxOnceInOrder
    <2>1. LogInv /\ log \in Seq(Row)
        BY <1>1 DEF WriterInv, TypeOK
    <2>2. Len(log) \in Nat /\ DOMAIN log = 1 .. Len(log) /\ outbox \subseteq Nat
        BY <1>1, <2>1, Indices DEF WriterInv, TypeOK
    <2>3. ASSUME NEW i \in 1 .. nextId - 1, i \in outbox PROVE FlushedAt(i) = {}
        <3>1. i \in Nat
            BY <2>2, <2>3
        <3>2. \A c \in DOMAIN log : ~(log[c].origin = Outbox /\ log[c].idx = i)
            BY <2>1, <2>3, <3>1 DEF LogInv
        <3>3. QED
            BY <3>2 DEF FlushedAt
    <2>4. ASSUME NEW i \in 1 .. nextId - 1, i \notin outbox PROVE Cardinality(FlushedAt(i)) = 1
        <3>1. PICK c \in DOMAIN log : log[c].origin = Outbox /\ log[c].idx = i
            BY <2>1, <2>4 DEF LogInv
        <3>2. ASSUME NEW d \in DOMAIN log, log[d].origin = Outbox, log[d].idx = i PROVE d = c
            <4>1. c \in Nat /\ d \in Nat /\ i \in Int
                BY <2>2, <2>4, <3>1, <3>2
            <4>2. ~(c < d) /\ ~(d < c)
                BY <2>1, <3>1, <3>2, <4>1 DEF LogInv
            <4>3. QED
                BY <4>1, <4>2
        <3>3. FlushedAt(i) = {c}
            BY <3>1, <3>2 DEF FlushedAt
        <3>4. QED
            BY <3>3, FS_Singleton
    <2>5. QED
        BY <2>1, <2>3, <2>4 DEF OutboxOnceInOrder, LogInv
<1>2. QED
    BY Writer, <1>1, PTL

\* A block is a contiguous piece of the log.
LEMMA WholeIsContiguous ==
    ASSUME TypeOK, NEW a \in Appends, Whole(log, a)
    PROVE  Contiguous(a)
<1>1. log \in Seq(Row) /\ Len(log) \in Nat /\ DOMAIN log = 1 .. Len(log)
    BY Indices DEF TypeOK
<1>2. Len(Rows[a]) \in Nat /\ RowsOf(a) \in Seq(Row) /\ DOMAIN RowsOf(a) = 1 .. Len(Rows[a])
      /\ \A k \in DOMAIN RowsOf(a) : RowsOf(a)[k].origin = a
    BY RowsAssumption, RowsAreRows DEF RowsOf
<1> DEFINE n == Len(Rows[a])
<1>3. PICK c \in 0 .. Len(log) : Block(log, a, c)
    BY DEF Whole
<1>4. /\ c + n <= Len(log) /\ \A k \in 1 .. n : log[c + k] = RowsOf(a)[k]
      /\ \A d \in DOMAIN log : log[d].origin = a => d \in c + 1 .. c + n
    BY <1>3 DEF Block
<1> DEFINE piece == SubSeq(log, c + 1, c + n)
<1> HIDE DEF n
<1>5. n \in Nat /\ c \in Nat /\ Len(RowsOf(a)) = n
    BY <1>2, LenProperties DEF n
<1>6. /\ piece \in Seq(Row) /\ Len(piece) = n
      /\ \A k \in 1 .. n : piece[k] = log[c + k]
    <2>1. c + 1 \in 1 .. Len(log) + 1 /\ c + n \in c .. Len(log)
        BY <1>1, <1>4, <1>5
    <2>2. piece \in Seq(Row)
        BY <1>1, <1>4, <1>5
    <2>3. Len(piece) = n
        BY <1>1, <1>4, <1>5
    <2>4. \A k \in 1 .. n : piece[k] = log[c + k]
        BY <1>1, <1>4, <1>5
    <2>5. QED
        BY <2>2, <2>3, <2>4
<1> HIDE DEF piece
<1>7. piece = RowsOf(a)
    BY <1>2, <1>4, <1>5, <1>6, SeqEqual
<1>8. Written(a) = c + 1 .. c + n
    <2>1. ASSUME NEW d \in c + 1 .. c + n PROVE d \in DOMAIN log /\ log[d].origin = a
        <3>1. d - c \in 1 .. n /\ d = c + (d - c) /\ d \in DOMAIN log
            BY <1>1, <1>4, <1>5
        <3>2. log[d] = RowsOf(a)[d - c]
            BY <1>4, <3>1
        <3>3. QED
            BY <1>2, <3>1, <3>2 DEF n
    <2>2. QED
        BY <1>4, <2>1 DEF Written
<1>9. QED
    BY <1>4, <1>7, <1>8 DEF Contiguous, piece, n

\* append_event's contract: a caller told Ok has its rows in the log, whole, in
\* one piece and published; one that was told anything else has none of them;
\* one lost to a restart has all or none; and a mutation that declines its
\* event takes nobody else's down with it.
THEOREM TruthfulReplies == Spec => []RepliesTellTheTruth
<1>1. ASSUME WriterInv PROVE RepliesTellTheTruth
    <2>1. TypeOK /\ ReplyInv
        BY <1>1 DEF WriterInv
    <2>2. ASSUME NEW a \in Appends
          PROVE  /\ reply[a] = "ok" => Contiguous(a) /\ \A c \in Written(a) : c <= published
                 /\ reply[a] \in {"none", "skipped", "refused", "fault"} => Written(a) = {}
                 /\ reply[a] = "lost" => Written(a) = {} \/ Contiguous(a)
                 /\ reply[a] \in {"skipped", "refused"} => a \in Conditional /\ reply[a] = "skipped"
        <3>1. Told(log, published, a, reply[a])
            BY <2>1 DEF ReplyInv
        <3>2. a \notin Origins(log) => Written(a) = {}
            BY DEF Origins, Written
        <3>3. Whole(log, a) => Contiguous(a)
            BY <2>1, WholeIsContiguous
        <3>4. reply[a] = "ok" => \A c \in Written(a) : c <= published
            BY <3>1 DEF Told, Written
        <3>5. QED
            BY <3>1, <3>2, <3>3, <3>4 DEF Told
    <2>3. QED
        BY <2>2 DEF RepliesTellTheTruth
<1>2. QED
    BY Writer, <1>1, PTL

\* The gathering loop puts a request aside without letting another overtake it:
\* cursors are assigned in the order in which appends were sent.
THEOREM QueueOrder == Spec => []CommittedInQueueOrder
<1>1. ASSUME WriterInv PROVE CommittedInQueueOrder
    <2>1. /\ RowsInOrder(order, log) /\ Once(order) /\ order \in Seq(Appends) /\ log \in Seq(Row)
        BY <1>1 DEF WriterInv, CursorInv, SentInv, TypeOK
    <2>2. /\ DOMAIN order = 1 .. Len(order) /\ Len(order) \in Nat
          /\ DOMAIN log = 1 .. Len(log) /\ Len(log) \in Nat
          /\ \A i \in DOMAIN order : order[i] \in Appends
        BY <2>1, Indices
    <2>3. ASSUME NEW i \in DOMAIN order, NEW j \in DOMAIN order, i < j,
                 NEW c \in Written(order[i]), NEW d \in Written(order[j])
          PROVE  c < d
        <3>1. /\ c \in DOMAIN log /\ log[c].origin = order[i]
              /\ d \in DOMAIN log /\ log[d].origin = order[j]
            BY DEF Written
        <3>2. order[i] # order[j]
            BY <2>1, <2>2, <2>3 DEF Once
        <3>3. c # d
            BY <3>1, <3>2
        <3>4. ~(d < c)
            <4>1. SUFFICES ASSUME d < c PROVE FALSE
                OBVIOUS
            <4>2. Before(order, order[j], order[i])
                BY <2>1, <2>2, <3>1, <3>2, <4>1 DEF RowsInOrder
            <4>3. j < i
                BY <4>2 DEF Before
            <4>4. QED
                BY <2>2, <2>3, <4>3
        <3>5. QED
            BY <2>2, <3>1, <3>3, <3>4
    <2>4. QED
        BY <2>3 DEF CommittedInQueueOrder
<1>2. QED
    BY Writer, <1>1, PTL

\* spawn_event_writer implements DurableLog: rows are only added at the end, to
\* a log that is fully published, and are published one by one in cursor order
\* after they are durable; a restart loses publications, never rows.
THEOREM ImplementsDurableLog == Spec => DurableThenPublished
<1>1. Init => Promise!Init
    BY DEF Init, Promise!Init
<1>2. WriterInv /\ [Next]_vars => [Promise!Next]_(Promise!vars)
    <2>1. ASSUME WriterInv, Next PROVE [Promise!Next]_<<log, published>>
        BY <2>1, PublishStep DEF WriterInv
    <2>2. ASSUME UNCHANGED vars PROVE UNCHANGED <<log, published>>
        BY <2>2 DEF vars
    <2>3. QED
        BY <2>1, <2>2 DEF Promise!vars
<1>3. QED
    BY <1>1, <1>2, Writer, PTL DEF Spec, DurableThenPublished, Promise!Spec
================================================================================
