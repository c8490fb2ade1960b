--------------------------- MODULE ModelRoutingProofs ---------------------------
(***************************************************************************)
(* Proofs about ModelRouting, for any turns, providers, routes, cooldowns  *)
(* and inputs: what is known of a provider was learned from its current    *)
(* definition, a route's circuit is what its newest attempt made it, no    *)
(* attempt is repeated after side effects and no cooldown is cut short.    *)
(***************************************************************************)
EXTENDS ModelRouting, FiniteSetTheorems, SequenceTheorems, TLAPS

-------------------------------------------------------------------------------
(* The inductive invariant. *)

\* A candidate's generation is not ahead of its provider's, and one that is not
\* behind it either was built from the current definition.
SnapFor(c, g, d) == c.gen <= g /\ (c.gen = g => c.defn = d \/ c.early)
SnapOK(c, p) == SnapFor(c, gen[p], defn[p])

\* What a turn carries: nothing while it is idle, no side effects on its way to an
\* attempt, a first candidate from its selection on, and where each candidate
\* of an automatic turn, and that of a pinned turn that runs, comes from.
Carries(t, x) ==
    /\ x.pc = "idle" => x = At("idle")
    /\ x.pc \in {"ranking", "next", "admit"} => x.side = FALSE
    /\ x.pc \in {"next", "admit", "resolve", "run"} => x.cands # <<>>
    /\ t \in Automatic => \A i \in DOMAIN x.cands : x.cands[i] \in DOMAIN x.snap
    /\ t \in Pinned /\ x.pc = "run" => x.cands[1] \in DOMAIN x.snap

TurnOK(t, x) ==
    /\ \E found \in SUBSET Routes : x \in Turn(found)
    /\ Carries(t, x)
    /\ \A r \in DOMAIN x.snap : SnapOK(x.snap[r], ProviderOf[r])

TurnsInv == turn = [t \in Turns |-> turn[t]] /\ \A t \in Turns : TurnOK(t, turn[t])

Backoff == [left : Nat, delay : 0..MaxDelay, last : Nat]

\* TypeOK but for the turns.
RegistryTypes ==
    /\ defn \in [Providers -> Nat \ {0}] /\ inst \in [Providers -> Nat]
    /\ gen \in [Providers -> Nat]
    /\ swap \in [Providers -> {"no", "held", "taken", "prepared"}]
    /\ saved \in [Routes -> Row]
LearnedTypes ==
    /\ health \in [Routes -> Row] /\ backoff \in [Providers -> Backoff]
    /\ taught \in [Routes \cup Providers -> [defn : Nat, early : BOOLEAN]]
    /\ quiet \in [Providers -> Nat] /\ newest \in [Routes -> [ord : Nat, ok : BOOLEAN]]
ThreadTypes == affinity \in [Automatic -> Routes \cup {None}] /\ moved \subseteq Automatic
CounterTypes == orders \in Nat /\ inputs \in 0..MaxInputs

\* One replacement holds the generations at a time; the health of its routes is in
\* saved meanwhile, and nowhere else is anything saved.
SwapInv ==
    /\ \A p \in Providers : swap[p] = "no" => inst[p] = defn[p]
    /\ \A p, q \in Providers : swap[p] = "taken" /\ swap[q] = "taken" => p = q
    /\ \A r \in Routes : IF swap[ProviderOf[r]] = "taken" THEN health[r] = NoRow
                                                          ELSE saved[r] = NoRow

\* LearnedFromCurrent, of the saved health as well.
FromCurrent(x, p) == taught[x].defn = defn[p] \/ taught[x].early
LearnInv ==
    /\ \A r \in Routes : health[r].last # 0 \/ saved[r].last # 0 => FromCurrent(r, ProviderOf[r])
    /\ \A p \in Providers : backoff[p].last # 0 => FromCurrent(p, p)

\* CircuitOfNewest, of the saved health as well.
Describes(row, n) ==
    /\ row.last = n.ord
    /\ IF n.ok THEN row.left = 0 /\ row.fails = 0 ELSE row.fails > 0
CircuitInv ==
    \A r \in Routes : Describes(IF swap[ProviderOf[r]] = "taken" THEN saved[r] ELSE health[r],
                                newest[r])

\* The scheduler's cooldown covers what the provider asked for.
QuietInv == \A p \in Providers : quiet[p] <= backoff[p].left

KnowledgeInv == /\ RegistryTypes /\ LearnedTypes /\ SwapInv /\ LearnInv /\ CircuitInv
                /\ QuietInv
ThreadsInv == ThreadTypes /\ AffinityOfModel
RoutingInv == TurnsInv /\ KnowledgeInv /\ ThreadsInv /\ CounterTypes

-------------------------------------------------------------------------------
(* Operators. *)

\* The fields of a turn, and its snapshot as a function.
LEMMA TurnFields ==
    ASSUME NEW t, NEW x, TurnOK(t, x)
    PROVE  /\ x.pc \in {"idle", "ranking", "next", "admit", "resolve", "run", "ended"}
           /\ x.cands \in Seq(Routes) /\ x.ord \in Nat /\ x.parted \in BOOLEAN
           /\ x.left \in Nat /\ x.side \in BOOLEAN
           /\ DOMAIN x.snap \subseteq Routes /\ x.snap \in [DOMAIN x.snap -> Candidate]
           /\ x \in Turn(DOMAIN x.snap)
  <1>1. PICK found \in SUBSET Routes : x \in Turn(found)
    BY DEF TurnOK
  <1> QED
    BY <1>1 DEF Turn

\* A turn that is idle or over carries nothing.
LEMMA AtOK ==
    ASSUME NEW t \in Turns, NEW pc \in {"idle", "ended"}
    PROVE  TurnOK(t, At(pc))
  <1>1. <<>> \in [{} -> Candidate] /\ <<>> \in Seq(Routes) /\ DOMAIN (<<>>) = {}
    OBVIOUS
  <1>2. \E f \in SUBSET Routes : At(pc) \in Turn(f)
    BY <1>1 DEF At, Turn
  <1>3. /\ At(pc).pc = pc /\ At(pc).cands = <<>> /\ At(pc).snap = <<>>
        /\ At("idle").pc = "idle"
    BY DEF At
  <1>4. Carries(t, At(pc))
    BY <1>1, <1>3 DEF Carries
  <1> QED
    BY <1>1, <1>2, <1>3, <1>4 DEF TurnOK

\* One turn moves while the registry stays.
Moves(t) == \E x : TurnOK(t, x) /\ turn' = [turn EXCEPT ![t] = x]

LEMMA MovesKeeps ==
    ASSUME TurnsInv, NEW t \in Turns, Moves(t), UNCHANGED <<defn, gen>>
    PROVE  TurnsInv' /\ \A u \in Turns \ {t} : turn'[u] = turn[u]
  <1>1. PICK x : TurnOK(t, x) /\ turn' = [turn EXCEPT ![t] = x]
    BY DEF Moves
  <1>2. /\ turn' = [u \in Turns |-> turn'[u]] /\ turn'[t] = x
        /\ \A u \in Turns \ {t} : turn'[u] = turn[u]
    BY <1>1 DEF TurnsInv
  <1>3. \A u \in Turns : TurnOK(u, turn'[u])
    BY <1>1, <1>2 DEF TurnsInv
  <1>4. \A u \in Turns : TurnOK(u, turn[u])'
    BY <1>3 DEF TurnOK, SnapOK
  <1> QED
    BY <1>2, <1>4 DEF TurnsInv

LEMMA FinishMoves == ASSUME NEW t \in Turns, Finish(t) PROVE Moves(t)
  BY AtOK DEF Finish, Moves

-------------------------------------------------------------------------------
(* Finding a route: each step moves its turn. *)

\* The candidates that Discover finds pair the generation with the instance.
LEMMA DiscoverMoves ==
    ASSUME RegistryTypes, TurnsInv, NEW t \in Automatic, Discover(t)
    PROVE  Moves(t)
  <1> DEFINE x == turn[t]
             found == IF t \in moved THEN {} ELSE {r \in Routes : inst[ProviderOf[r]] # 0}
             snap == [r \in found |->
                         LET p == ProviderOf[r]
                         IN  [gen |-> gen[p], defn |-> inst[p], early |-> inst[p] # defn[p]]]
             y == [x EXCEPT !.pc = "ranking", !.snap = snap]
  <1>0. t \in Turns
    BY DEF Turns
  <1>1. CASE found = {}
    BY <1>0, <1>1, FinishMoves DEF Discover
  <1>2. CASE found # {}
    <2>1. turn' = [turn EXCEPT ![t].pc = "ranking", ![t].snap = snap]
      BY <1>2 DEF Discover
    <2>2. x = At("idle")
      BY <1>0 DEF Discover, TurnsInv, TurnOK, Carries
    <2>3. turn' = [turn EXCEPT ![t] = y]
      <3> HIDE DEF snap
      <3> QED
        BY <2>1, <1>0 DEF TurnsInv
    <2>4. \A r \in found : r \in Routes /\ ProviderOf[r] \in Providers
      BY RoutesAssumption
    <2>5. snap \in [found -> Candidate] /\ found \in SUBSET Routes
      BY <2>4 DEF Candidate, RegistryTypes
    <2>6. \A r \in found : SnapOK(snap[r], ProviderOf[r])
      <3> SUFFICES ASSUME NEW r \in found PROVE SnapOK(snap[r], ProviderOf[r])
        OBVIOUS
      <3>1. /\ snap[r].gen = gen[ProviderOf[r]] /\ snap[r].defn = inst[ProviderOf[r]]
            /\ snap[r].early \/ inst[ProviderOf[r]] = defn[ProviderOf[r]]
        OBVIOUS
      <3>2. gen[ProviderOf[r]] \in Nat
        BY <2>4 DEF RegistryTypes
      <3> HIDE DEF snap
      <3> QED
        BY <3>1, <3>2 DEF SnapOK, SnapFor
    <2>7. \E f \in SUBSET Routes : y \in Turn(f)
      <3> HIDE DEF snap, found
      <3>1. x \in Turn(DOMAIN x.snap)
        BY <1>0, TurnFields DEF TurnsInv
      <3>2. y \in Turn(found)
        BY <2>5, <3>1 DEF Turn
      <3> QED
        BY <2>5, <3>2
    <2>8. y.pc = "ranking" /\ y.side = FALSE /\ y.cands = <<>> /\ y.snap = snap /\ DOMAIN snap = found
      BY <2>2 DEF At
    <2>9. Carries(t, y)
      <3> HIDE DEF y
      <3> QED
        BY <2>8, TurnsAssumption DEF Carries
    <2>10. TurnOK(t, y)
      <3> HIDE DEF y, snap, found
      <3> QED
        BY <2>6, <2>7, <2>8, <2>9 DEF TurnOK
    <2> QED
      BY <2>3, <2>10 DEF Moves
  <1> QED
    BY <1>1, <1>2

\* A list of routes is a sequence of them.
LEMMA ListsAreSequences ==
    ASSUME NEW S \in SUBSET Routes, NEW s \in Lists(S)
    PROVE  s \in Seq(S) /\ s # <<>>
  <1>1. IsFiniteSet(S) /\ Cardinality(S) \in Nat
    BY RoutesAssumption, FS_Subset, FS_CardinalityType
  <1>2. PICK n \in 1..Cardinality(S) : s \in [1..n -> S]
    BY DEF Lists
  <1>3. n \in Nat \ {0}
    BY <1>1, <1>2
  <1>4. s \in Seq(S) /\ Len(s) = n
    BY <1>2, <1>3
  <1> QED
    BY <1>3, <1>4

\* The ranking orders candidates of the snapshot.
LEMMA RankMoves == ASSUME TurnsInv, NEW t \in Automatic, Rank(t) PROVE Moves(t)
  <1> DEFINE x == turn[t]
             open == {r \in DOMAIN turn[t].snap :
                        backoff[ProviderOf[r]].left = 0 /\ health[r].left = 0}
  <1>0. t \in Turns /\ TurnOK(t, x) /\ x.pc = "ranking"
    BY DEF Turns, TurnsInv, Rank
  <1>1. CASE open = {}
    BY <1>0, <1>1, FinishMoves DEF Rank
  <1>2. CASE open # {}
    <2>1. PICK s \in Lists(open) : turn' = [turn EXCEPT ![t].pc = "next", ![t].cands = s]
      BY <1>2 DEF Rank
    <2> DEFINE y == [x EXCEPT !.pc = "next", !.cands = s]
    <2>2. open \subseteq Routes /\ open \subseteq DOMAIN x.snap
      BY <1>0, TurnFields
    <2>3. s \in Seq(open) /\ s # <<>>
      BY <2>1, <2>2, ListsAreSequences
    <2>4. s \in Seq(Routes) /\ \A i \in DOMAIN s : s[i] \in DOMAIN x.snap
      BY <2>2, <2>3
    <2>5. turn' = [turn EXCEPT ![t] = y]
      BY <2>1, <1>0 DEF TurnsInv
    <2>6. \E f \in SUBSET Routes : y \in Turn(f)
      <3>1. x \in Turn(DOMAIN x.snap) /\ DOMAIN x.snap \in SUBSET Routes
        BY <1>0, TurnFields
      <3>2. y \in Turn(DOMAIN x.snap)
        BY <2>4, <3>1 DEF Turn
      <3> QED
        BY <3>1, <3>2
    <2>7. y.pc = "next" /\ y.cands = s /\ y.snap = x.snap /\ y.side = FALSE
      <3>1. x \in Turn(DOMAIN x.snap) /\ x.side = FALSE
        BY <1>0, TurnFields DEF TurnOK, Carries
      <3> QED
        BY <3>1 DEF Turn
    <2>8. Carries(t, y)
      <3> HIDE DEF y
      <3> QED
        BY <2>3, <2>4, <2>7, TurnsAssumption DEF Carries
    <2>9. TurnOK(t, y)
      <3> HIDE DEF y
      <3> QED
        BY <1>0, <2>6, <2>7, <2>8 DEF TurnOK
    <2> QED
      BY <2>5, <2>9 DEF Moves
  <1> QED
    BY <1>1, <1>2

\* A selected suffix of the candidates.
LEMMA SuffixOK ==
    ASSUME NEW s \in Seq(Routes), NEW i \in DOMAIN s, NEW j \in Nat, i <= j, j <= Len(s)
    PROVE  /\ SubSeq(s, i, j) \in Seq(Routes) /\ SubSeq(s, i, j) # <<>>
           /\ \A k \in DOMAIN SubSeq(s, i, j) : \E n \in DOMAIN s : SubSeq(s, i, j)[k] = s[n]
  <1>1. i \in 1..Len(s) /\ Len(s) \in Nat
    OBVIOUS
  <1>2. /\ Len(SubSeq(s, i, j)) = j - i + 1 /\ SubSeq(s, i, j) \in Seq(Routes)
        /\ DOMAIN SubSeq(s, i, j) = 1..(j - i + 1)
    BY <1>1
  <1>3. ASSUME NEW k \in 1..(j - i + 1) PROVE SubSeq(s, i, j)[k] = s[i + k - 1] /\ i + k - 1 \in DOMAIN s
    BY <1>1
  <1> QED
    BY <1>1, <1>2, <1>3

\* The selection keeps a suffix of the ranked list, or a part of one.
LEMMA SelectMoves == ASSUME TurnsInv, NEW t \in Automatic, Select(t) PROVE Moves(t)
  <1> DEFINE x == turn[t]
             s == x.cands
             ready == {i \in DOMAIN s : backoff[ProviderOf[s[i]]].left = 0}
             last(i) == IF x.ord = 0 THEN Lesser(Len(s), i + MaxAttempts - 1) ELSE Len(s)
  <1>0. /\ t \in Turns /\ TurnOK(t, x) /\ x.pc = "next" /\ s \in Seq(Routes)
        /\ x \in Turn(DOMAIN x.snap) /\ DOMAIN x.snap \in SUBSET Routes
        /\ x.side = FALSE
    BY TurnFields DEF Turns, TurnsInv, Select, TurnOK, Carries
  <1>1. CASE ready = {}
    BY <1>0, <1>1, FinishMoves DEF Select
  <1>2. CASE ready # {}
    <2>1. PICK i \in ready : turn' = [turn EXCEPT ![t].pc = "admit", ![t].parted = FALSE,
                                                 ![t].cands = SubSeq(s, i, last(i))]
      BY <1>2 DEF Select
    <2> DEFINE c == SubSeq(s, i, last(i))
               y == [x EXCEPT !.pc = "admit", !.parted = FALSE, !.cands = c]
    <2>2. i \in DOMAIN s /\ i \in Nat /\ i >= 1 /\ i <= Len(s) /\ Len(s) \in Nat
      BY <1>0, <2>1
    <2>3. last(i) \in Nat /\ i <= last(i) /\ last(i) <= Len(s)
      BY <2>2, DelaysAssumption DEF Lesser
    <2>4. /\ c \in Seq(Routes) /\ c # <<>>
          /\ \A k \in DOMAIN c : \E n \in DOMAIN s : c[k] = s[n]
      <3> HIDE DEF last
      <3> QED
        BY <1>0, <2>2, <2>3, SuffixOK
    <2> HIDE DEF c
    <2>5. turn' = [turn EXCEPT ![t] = y]
      BY <2>1, <1>0 DEF TurnsInv, c
    <2>6. /\ y \in Turn(DOMAIN x.snap) /\ y.pc = "admit" /\ y.cands = c /\ y.snap = x.snap
          /\ y.side = FALSE
      BY <1>0, <2>4 DEF Turn
    <2> HIDE DEF y
    <2>7. \A k \in DOMAIN c : c[k] \in DOMAIN x.snap
      BY <1>0, <2>4 DEF TurnOK, Carries
    <2>8. Carries(t, y)
      BY <2>4, <2>6, <2>7, TurnsAssumption DEF Carries
    <2>9. TurnOK(t, y)
      BY <1>0, <2>6, <2>8 DEF TurnOK
    <2> QED
      BY <2>5, <2>9 DEF Moves
  <1> QED
    BY <1>1, <1>2

LEMMA StartPinnedMoves == ASSUME TurnsInv, NEW t \in Pinned, StartPinned(t) PROVE Moves(t)
  <1> DEFINE x == turn[t]
             c == <<PinnedRoute[t]>>
             y == [x EXCEPT !.pc = "admit", !.cands = c]
  <1>0. /\ t \in Turns /\ TurnOK(t, x) /\ x = At("idle") /\ x \in Turn(DOMAIN x.snap)
        /\ DOMAIN x.snap \in SUBSET Routes /\ t \notin Automatic
    BY TurnFields, TurnsAssumption DEF Turns, TurnsInv, StartPinned, TurnOK, Carries
  <1>1. c \in Seq(Routes) /\ c # <<>>
    BY TurnsAssumption
  <1>2. turn' = [turn EXCEPT ![t] = y]
    BY <1>0 DEF TurnsInv, StartPinned
  <1>3. x.side = FALSE
    BY <1>0 DEF At
  <1> HIDE DEF c
  <1>4. /\ y \in Turn(DOMAIN x.snap) /\ y.pc = "admit" /\ y.cands = c /\ y.snap = x.snap
        /\ y.side = FALSE
    BY <1>0, <1>1, <1>3 DEF Turn
  <1> HIDE DEF y
  <1>5. TurnOK(t, y)
    BY <1>0, <1>1, <1>4 DEF TurnOK, Carries
  <1> QED
    BY <1>2, <1>5 DEF Moves

LEMMA AdmitMoves ==
    ASSUME TurnsInv, CounterTypes, NEW t \in Turns, Admit(t) PROVE Moves(t)
  <1> DEFINE x == turn[t]
             pc == IF t \in Automatic THEN "run" ELSE "resolve"
             y == [x EXCEPT !.pc = pc, !.ord = orders + 1, !.parted = FALSE, !.left = 0]
  <1>a. TurnOK(t, x) /\ x.pc = "admit" /\ orders + 1 \in Nat
    BY DEF TurnsInv, Admit, CounterTypes
  <1>0. /\ TurnOK(t, x) /\ x.pc = "admit" /\ x \in Turn(DOMAIN x.snap)
        /\ DOMAIN x.snap \in SUBSET Routes /\ x.cands # <<>> /\ orders + 1 \in Nat
    BY <1>a, TurnFields DEF TurnOK, Carries
  <1>1. pc \in {"run", "resolve"} /\ (t \in Pinned => pc # "run")
    BY TurnsAssumption
  <1>2. turn' = [turn EXCEPT ![t] = y]
    BY DEF TurnsInv, Admit
  <1> HIDE DEF pc
  <1>4. /\ y \in Turn(DOMAIN x.snap) /\ y.pc = pc /\ y.cands = x.cands /\ y.snap = x.snap
    BY <1>0, <1>1 DEF Turn
  <1> HIDE DEF y
  <1>5. TurnOK(t, y)
    BY <1>0, <1>1, <1>4 DEF TurnOK, Carries
  <1> QED
    BY <1>2, <1>5 DEF Moves

\* Behind the transition lock the instance is that of the current definition.
LEMMA ResolveMoves ==
    ASSUME TurnsInv, RegistryTypes, SwapInv, NEW t \in Pinned, Resolve(t) PROVE Moves(t)
  <1> DEFINE x == turn[t]
             r == x.cands[1]
             p == ProviderOf[r]
             snap == [q \in {r} |-> [gen |-> gen[p], defn |-> inst[p], early |-> FALSE]]
             y == [x EXCEPT !.pc = "run", !.snap = snap]
  <1>0. /\ t \in Turns /\ t \notin Automatic /\ TurnOK(t, x) /\ x.pc = "resolve"
        /\ x \in Turn(DOMAIN x.snap) /\ x.cands \in Seq(Routes) /\ x.cands # <<>>
    BY TurnFields, TurnsAssumption DEF Turns, TurnsInv, Resolve, TurnOK, Carries
  <1>1. r \in Routes /\ p \in Providers
    BY <1>0, RoutesAssumption
  <1>2. CASE inst[p] = 0
    BY <1>0, <1>2, FinishMoves DEF Resolve, Provider, Route
  <1>3. CASE inst[p] # 0
    <2>1. turn' = [turn EXCEPT ![t].pc = "run", ![t].snap = snap] /\ inst[p] = defn[p]
      BY <1>1, <1>3 DEF Resolve, Provider, Route, SwapInv
    <2>2. snap \in [{r} -> Candidate] /\ DOMAIN snap = {r}
      BY <1>1 DEF RegistryTypes, Candidate
    <2>3. snap[r].gen = gen[p] /\ snap[r].defn = inst[p] /\ gen[p] \in Nat
      BY <1>1 DEF RegistryTypes
    <2>4. SnapOK(snap[r], p)
      <3> HIDE DEF snap
      <3> QED
        BY <2>1, <2>3 DEF SnapOK, SnapFor
    <2> HIDE DEF snap
    <2>5. turn' = [turn EXCEPT ![t] = y]
      BY <1>0, <2>1 DEF TurnsInv
    <2>6. /\ y \in Turn({r}) /\ y.pc = "run" /\ y.cands = x.cands /\ y.snap = snap
      BY <1>0, <2>2 DEF Turn
    <2> HIDE DEF y
    <2>7. TurnOK(t, y)
      BY <1>0, <1>1, <2>2, <2>4, <2>6 DEF TurnOK, Carries
    <2> QED
      BY <2>5, <2>7 DEF Moves
  <1> QED
    BY <1>2, <1>3

LEMMA SideEffectMoves == ASSUME TurnsInv, NEW t \in Automatic, SideEffect(t) PROVE Moves(t)
  <1> DEFINE x == turn[t]
             y == [x EXCEPT !.side = TRUE]
  <1>0. /\ t \in Turns /\ TurnOK(t, x) /\ x.pc = "run" /\ x \in Turn(DOMAIN x.snap)
        /\ DOMAIN x.snap \in SUBSET Routes
    BY TurnFields DEF Turns, TurnsInv, SideEffect, TurnOK
  <1>1. turn' = [turn EXCEPT ![t] = y]
    BY <1>0 DEF TurnsInv, SideEffect
  <1>2. /\ y \in Turn(DOMAIN x.snap) /\ y.pc = "run" /\ y.cands = x.cands /\ y.snap = x.snap
    BY <1>0 DEF Turn
  <1> HIDE DEF y
  <1>3. TurnOK(t, y)
    BY <1>0, <1>2 DEF TurnOK, Carries
  <1> QED
    BY <1>1, <1>3 DEF Moves

LEMMA TailOK ==
    ASSUME NEW c \in Seq(Routes), c # <<>>, Len(c) # 1, NEW S, \A i \in DOMAIN c : c[i] \in S
    PROVE  /\ Tail(c) \in Seq(Routes) /\ Tail(c) # <<>>
           /\ \A i \in DOMAIN Tail(c) : Tail(c)[i] \in S
  <1>0. Len(c) \in Nat \ {0}
    BY EmptySeq
  <1>1. Len(c) \in Nat /\ Len(c) > 1
    <2> DEFINE n == Len(c)
    <2>1. n \in Nat \ {0} /\ n # 1
      BY <1>0
    <2> HIDE DEF n
    <2>2. n \in Nat /\ n > 1
      BY <2>1
    <2> QED
      BY <2>2 DEF n
  <1>2. Tail(c) \in Seq(Routes) /\ Len(Tail(c)) = Len(c) - 1
    BY <1>1
  <1>3. DOMAIN Tail(c) = 1..(Len(c) - 1) /\ Tail(c) # <<>>
    BY <1>1, <1>2
  <1>4. ASSUME NEW i \in 1..(Len(c) - 1)
        PROVE  Tail(c)[i] = c[i + 1] /\ i + 1 \in DOMAIN c
    BY <1>1
  <1> QED
    BY <1>2, <1>3, <1>4

\* A failed attempt goes on with the rest of the candidates, unless it had side effects.
LEMMA FailOverMoves ==
    ASSUME TurnsInv, NEW t \in Automatic, turn[t].pc = "run", FailOver(t) PROVE Moves(t)
  <1> DEFINE x == turn[t]
             y == [x EXCEPT !.pc = "next", !.cands = Tail(x.cands)]
  <1>0. /\ t \in Turns /\ TurnOK(t, x) /\ x.pc = "run" /\ x \in Turn(DOMAIN x.snap)
        /\ DOMAIN x.snap \in SUBSET Routes /\ x.cands \in Seq(Routes) /\ x.cands # <<>>
        /\ \A i \in DOMAIN x.cands : x.cands[i] \in DOMAIN x.snap
    BY TurnFields DEF Turns, TurnsInv, TurnOK, Carries
  <1>1. CASE x.side \/ Len(x.cands) = 1
    BY <1>0, <1>1, FinishMoves DEF FailOver
  <1>2. CASE ~(x.side \/ Len(x.cands) = 1)
    <2>1. turn' = [turn EXCEPT ![t].pc = "next", ![t].cands = Tail(@)]
      BY <1>2 DEF FailOver
    <2>2. turn' = [turn EXCEPT ![t] = y]
      BY <1>0, <2>1 DEF TurnsInv
    <2>3. /\ Tail(x.cands) \in Seq(Routes) /\ Tail(x.cands) # <<>>
          /\ \A i \in DOMAIN Tail(x.cands) : Tail(x.cands)[i] \in DOMAIN x.snap
      BY <1>0, <1>2, TailOK
    <2>4. x.side = FALSE
      BY <1>0, <1>2 DEF Turn
    <2>5. /\ y \in Turn(DOMAIN x.snap) /\ y.pc = "next" /\ y.cands = Tail(x.cands)
          /\ y.snap = x.snap /\ y.side = FALSE
      BY <1>0, <2>3, <2>4 DEF Turn
    <2> HIDE DEF y
    <2>6. TurnOK(t, y)
      BY <1>0, <2>3, <2>5, TurnsAssumption DEF TurnOK, Carries
    <2> QED
      BY <2>2, <2>6 DEF Moves
  <1> QED
    BY <1>1, <1>2

-------------------------------------------------------------------------------
(* What an outcome leaves behind. *)

\* A scheduled cooldown is replaced only by that of a newer outcome.
LEMMA BackoffNext ==
    ASSUME NEW b \in Backoff, NEW o \in Nat, NEW ok \in BOOLEAN, NEW throttled \in BOOLEAN,
           throttled => ~ok
    PROVE  /\ NextBackoff(b, o, ok, throttled) \in Backoff
           /\ IF throttled /\ o > b.last
              THEN NextBackoff(b, o, ok, throttled).left = NextBackoff(b, o, ok, throttled).delay
              ELSE NextBackoff(b, o, ok, throttled).left = b.left
  <1> DEFINE n == NextBackoff(b, o, ok, throttled)
  <1>0. b.left \in Nat /\ b.delay \in 0..MaxDelay /\ b.last \in Nat /\ MaxDelay \in Nat
    BY DelaysAssumption DEF Backoff
  <1>1. CASE b.last >= o
    BY <1>0, <1>1 DEF NextBackoff
  <1>2. CASE b.last < o /\ throttled
    <2> DEFINE d == IF b.delay = 0 THEN BaseDelay ELSE Lesser(2 * b.delay, MaxDelay)
    <2>1. d \in 0..MaxDelay
      BY <1>0, DelaysAssumption DEF Lesser
    <2>2. n = [left |-> d, delay |-> d, last |-> o]
      BY <1>0, <1>2 DEF NextBackoff
    <2> HIDE DEF d, n
    <2>3. n \in Backoff /\ n.left = n.delay
      BY <2>1, <2>2 DEF Backoff
    <2> QED
      BY <1>0, <1>2, <2>3 DEF n
  <1>3. CASE b.last < o /\ ~throttled /\ ok /\ b.left = 0
    <2>1. n = [left |-> 0, delay |-> b.delay \div 2, last |-> o]
      BY <1>0, <1>3 DEF NextBackoff
    <2>2. b.delay \div 2 \in 0..MaxDelay
      BY <1>0
    <2> HIDE DEF n
    <2>3. n \in Backoff /\ n.left = b.left
      BY <1>0, <1>3, <2>1, <2>2 DEF Backoff
    <2> QED
      BY <1>3, <2>3 DEF n
  <1>4. CASE b.last < o /\ ~throttled /\ ~(ok /\ b.left = 0)
    <2>1. n = [b EXCEPT !.last = o]
      BY <1>0, <1>4 DEF NextBackoff
    <2> HIDE DEF n
    <2>2. n \in Backoff /\ n.left = b.left
      BY <1>0, <2>1 DEF Backoff
    <2> QED
      BY <1>4, <2>2 DEF n
  <1> QED
    BY <1>0, <1>1, <1>2, <1>3, <1>4

\* The exponents record_route_failure can reach.
LEMMA PowersOfTwo == ASSUME NEW n \in 0..20 PROVE 2 ^ n \in Nat
  <1>0. CASE n = 0
    BY <1>0
  <1>1. CASE n = 1
    BY <1>1
  <1>2. CASE n = 2
    BY <1>2
  <1>3. CASE n = 3
    BY <1>3
  <1>4. CASE n = 4
    BY <1>4
  <1>5. CASE n = 5
    BY <1>5
  <1>6. CASE n = 6
    BY <1>6
  <1>7. CASE n = 7
    BY <1>7
  <1>8. CASE n = 8
    BY <1>8
  <1>9. CASE n = 9
    BY <1>9
  <1>10. CASE n = 10
    BY <1>10
  <1>11. CASE n = 11
    BY <1>11
  <1>12. CASE n = 12
    BY <1>12
  <1>13. CASE n = 13
    BY <1>13
  <1>14. CASE n = 14
    BY <1>14
  <1>15. CASE n = 15
    BY <1>15
  <1>16. CASE n = 16
    BY <1>16
  <1>17. CASE n = 17
    BY <1>17
  <1>18. CASE n = 18
    BY <1>18
  <1>19. CASE n = 19
    BY <1>19
  <1>20. CASE n = 20
    BY <1>20
  <1> QED
    BY <1>0, <1>1, <1>2, <1>3, <1>4, <1>5, <1>6, <1>7, <1>8, <1>9, <1>10, <1>11, <1>12, <1>13, <1>14, <1>15, <1>16, <1>17, <1>18, <1>19, <1>20

\* What a row becomes with an outcome: nothing when it has a newer one.
RowAfter(h, o, ok, row) ==
    IF h.last >= o THEN row = h ELSE Describes(row, [ord |-> o, ok |-> ok])

LEMMA SuccessRow ==
    ASSUME NEW h \in Row, NEW o \in Nat
    PROVE  NextSuccess(h, o) \in Row /\ RowAfter(h, o, TRUE, NextSuccess(h, o))
  BY DEF Row, NextSuccess, RowAfter, Describes

LEMMA FailureRow ==
    ASSUME NEW h \in Row, NEW o \in Nat, NEW kind \in Kinds
    PROVE  NextFailure(h, o, kind) \in Row /\ RowAfter(h, o, FALSE, NextFailure(h, o, kind))
  <1> DEFINE n == Lesser(h.fails, 20)
             left == Lesser(Cooldown[kind].base * 2 ^ n, Cooldown[kind].max)
  <1>0. h.fails \in Nat /\ h.left \in Nat /\ h.last \in Nat
    BY DEF Row
  <1>1. n \in 0..20
    BY <1>0 DEF Lesser
  <1> HIDE DEF n
  <1>2. 2 ^ n \in Nat
    BY <1>1, PowersOfTwo
  <1>3. Cooldown[kind].base \in Nat /\ Cooldown[kind].max \in Nat
    BY DelaysAssumption
  <1>4. left \in Nat
    BY <1>2, <1>3 DEF Lesser
  <1> HIDE DEF left
  <1>5. CASE h.last >= o
    BY <1>5 DEF NextFailure, RowAfter
  <1>6. CASE ~(h.last >= o)
    <2>1. NextFailure(h, o, kind) = [fails |-> h.fails + 1, last |-> o, left |-> left]
      BY <1>6 DEF NextFailure, left, n
    <2> QED
      BY <1>0, <1>4, <1>6, <2>1 DEF Row, RowAfter, Describes
  <1> QED
    BY <1>5, <1>6

\* An attempt that runs is of a route of its snapshot.
LEMMA RunsKnown ==
    ASSUME TurnsInv, NEW t \in Turns, turn[t].pc = "run"
    PROVE  /\ Route(t) \in DOMAIN turn[t].snap /\ Route(t) \in Routes
           /\ Provider(t) \in Providers /\ turn[t].ord \in Nat
           /\ turn[t].snap[Route(t)] \in Candidate
           /\ SnapOK(turn[t].snap[Route(t)], Provider(t))
  <1> DEFINE x == turn[t]
  <1>0. TurnOK(t, x)
    BY DEF TurnsInv
  <1>1. /\ x.cands \in Seq(Routes) /\ x.ord \in Nat /\ DOMAIN x.snap \subseteq Routes
        /\ x.snap \in [DOMAIN x.snap -> Candidate] /\ x.cands # <<>>
    BY <1>0, TurnFields DEF TurnOK, Carries
  <1>2. 1 \in DOMAIN x.cands /\ x.cands[1] \in Routes
    BY <1>1, EmptySeq
  <1>3. x.cands[1] \in DOMAIN x.snap
    BY <1>0, <1>2 DEF TurnOK, Carries, Turns
  <1>4. ProviderOf[x.cands[1]] \in Providers
    BY <1>2, RoutesAssumption
  <1> QED
    BY <1>0, <1>1, <1>2, <1>3, <1>4 DEF Route, Provider, TurnOK

\* An outcome is recorded under the current generation only, and then it is that of
\* an instance of the current definition.
LEMMA ReportKeeps ==
    ASSUME TurnsInv, KnowledgeInv, NEW t \in Turns, Ran(t),
           NEW ok \in BOOLEAN, NEW throttled \in BOOLEAN, throttled => ~ok, NEW row \in Row,
           IF t \in Automatic THEN RowAfter(health[Route(t)], turn[t].ord, ok, row)
                              ELSE row = health[Route(t)],
           Report(t, ok, throttled, row), UNCHANGED registry
    PROVE  KnowledgeInv'
  <1> DEFINE p == Provider(t)
             r == Route(t)
             o == turn[t].ord
             c == turn[t].snap[r]
             b == NextBackoff(backoff[p], o, ok, throttled)
  <1>0. /\ r \in Routes /\ p \in Providers /\ p = ProviderOf[r] /\ o \in Nat
        /\ c \in Candidate /\ SnapOK(c, p)
    BY RunsKnown DEF Ran, Provider
  <1>1. \A q \in Providers : swap[q] # "taken"
    BY DEF Ran, GenerationsFree
  <1>a. RegistryTypes /\ LearnedTypes /\ SwapInv /\ LearnInv /\ CircuitInv /\ QuietInv
    BY DEF KnowledgeInv
  <1>b. UNCHANGED <<defn, inst, gen, swap, saved>>
    BY DEF registry
  <1>2. CASE ~Current(t)
    <2>1. UNCHANGED <<backoff, health, taught, quiet, newest>>
      BY <1>2 DEF Report, learned
    <2> QED
      BY <1>a, <1>b, <2>1 DEF KnowledgeInv, RegistryTypes, LearnedTypes, SwapInv, LearnInv,
         FromCurrent, CircuitInv, QuietInv
  <1>3. CASE Current(t)
    <2> DEFINE origin == [defn |-> c.defn, early |-> c.early]
    <2>1. /\ backoff' = [backoff EXCEPT ![p] = b] /\ health' = [health EXCEPT ![r] = row]
          /\ taught' = [x \in DOMAIN taught |->
                          IF (x = p /\ backoff' # backoff) \/ (x = r /\ health' # health)
                          THEN origin ELSE taught[x]]
          /\ quiet' = IF throttled /\ o > backoff[p].last
                      THEN [quiet EXCEPT ![p] = backoff'[p].delay] ELSE quiet
          /\ newest' = IF t \in Automatic /\ o > newest[r].ord
                       THEN [newest EXCEPT ![r] = [ord |-> o, ok |-> ok]] ELSE newest
      BY <1>3 DEF Report, Origin
    <2>2. backoff[p] \in Backoff /\ backoff \in [Providers -> Backoff]
      BY <1>0, <1>a DEF LearnedTypes
    <2>3. /\ b \in Backoff
          /\ IF throttled /\ o > backoff[p].last THEN b.left = b.delay ELSE b.left = backoff[p].left
      BY <1>0, <2>2, BackoffNext
    <2>4. origin \in [defn : Nat, early : BOOLEAN] /\ (origin.defn = defn[p] \/ origin.early)
      BY <1>0, <1>3 DEF Candidate, SnapOK, SnapFor, Current
    <2>5. p \notin Routes /\ r \notin Providers
      BY <1>0, RoutesAssumption
    <2> HIDE DEF b, c, origin
    <2>6. LearnedTypes'
      <3>1. b.delay \in Nat /\ backoff'[p] = b
        BY <1>0, <2>1, <2>2, <2>3, DelaysAssumption DEF Backoff
      <3>2. backoff' \in [Providers -> Backoff] /\ health' \in [Routes -> Row]
        BY <1>a, <2>1, <2>2, <2>3 DEF LearnedTypes
      <3>3. taught' \in [Routes \cup Providers -> [defn : Nat, early : BOOLEAN]]
        BY <1>a, <2>1, <2>4 DEF LearnedTypes
      <3>4. quiet' \in [Providers -> Nat]
        BY <1>a, <2>1, <3>1 DEF LearnedTypes
      <3>5. newest' \in [Routes -> [ord : Nat, ok : BOOLEAN]]
        BY <1>0, <1>a, <2>1 DEF LearnedTypes
      <3> QED
        BY <3>2, <3>3, <3>4, <3>5 DEF LearnedTypes
    <2>7. SwapInv'
      BY <1>1, <1>a, <1>b, <2>1, RoutesAssumption DEF SwapInv
    <2>8. LearnInv'
      <3>1. ASSUME NEW q \in Routes, health'[q].last # 0 \/ saved'[q].last # 0
            PROVE  FromCurrent(q, ProviderOf[q])'
        <4>1. saved'[q].last = 0 /\ q \in DOMAIN taught /\ q # p
          <5>1. ProviderOf[q] \in Providers
            BY RoutesAssumption
          <5>2. saved[q] = NoRow
            BY <1>1, <1>a, <5>1 DEF SwapInv
          <5> QED
            BY <1>a, <1>b, <2>5, <5>2 DEF NoRow, LearnedTypes
        <4>2. CASE q = r /\ health' # health
          BY <1>0, <1>b, <2>1, <2>4, <4>1, <4>2 DEF FromCurrent
        <4>3. CASE ~(q = r /\ health' # health)
          <5>1. taught'[q] = taught[q]
            BY <2>1, <4>1, <4>3
          <5>2. health'[q] = health[q]
            BY <1>a, <2>1, <4>3 DEF LearnedTypes
          <5> QED
            BY <1>a, <1>b, <3>1, <4>1, <5>1, <5>2 DEF FromCurrent, LearnInv
        <4> QED
          BY <4>2, <4>3
      <3>2. ASSUME NEW q \in Providers, backoff'[q].last # 0
            PROVE  FromCurrent(q, q)'
        <4>1. q \in DOMAIN taught /\ q # r
          BY <1>a, <2>5 DEF LearnedTypes
        <4>2. CASE q = p /\ backoff' # backoff
          BY <1>0, <1>b, <2>1, <2>4, <4>1, <4>2 DEF FromCurrent
        <4>3. CASE ~(q = p /\ backoff' # backoff)
          <5>1. taught'[q] = taught[q]
            BY <2>1, <4>1, <4>3
          <5>2. backoff'[q] = backoff[q]
            BY <2>1, <2>2, <4>3
          <5> QED
            BY <1>a, <1>b, <3>2, <5>1, <5>2 DEF FromCurrent, LearnInv
        <4> QED
          BY <4>2, <4>3
      <3> QED
        BY <3>1, <3>2 DEF LearnInv
    <2>9. CircuitInv'
      <3> SUFFICES ASSUME NEW q \in Routes PROVE Describes(health'[q], newest'[q])
        BY <1>1, <1>b, RoutesAssumption DEF CircuitInv
      <3>1. Describes(health[q], newest[q])
        BY <1>1, <1>a, RoutesAssumption DEF CircuitInv
      <3>2. CASE q # r
        BY <1>a, <2>1, <3>1, <3>2 DEF LearnedTypes
      <3>3. CASE q = r
        <4>1. health'[r] = row /\ health[r].last = newest[r].ord /\ newest[r].ord \in Nat
          BY <1>0, <1>a, <2>1, <3>1, <3>3 DEF LearnedTypes, Describes
        <4>2. CASE t \in Automatic /\ o > newest[r].ord
          <5>1. newest'[r] = [ord |-> o, ok |-> ok]
            BY <1>0, <1>a, <2>1, <4>2 DEF LearnedTypes
          <5> QED
            BY <1>0, <3>3, <4>1, <4>2, <5>1 DEF RowAfter
        <4>3. CASE ~(t \in Automatic /\ o > newest[r].ord)
          <5>1. newest' = newest
            BY <2>1, <4>3
          <5>2. row = health[r]
            BY <1>0, <4>1, <4>3 DEF RowAfter
          <5> QED
            BY <3>1, <3>3, <4>1, <5>1, <5>2
        <4> QED
          BY <4>2, <4>3
      <3> QED
        BY <3>2, <3>3
    <2>10. QuietInv'
      <3> SUFFICES ASSUME NEW q \in Providers PROVE quiet'[q] <= backoff'[q].left
        BY DEF QuietInv
      <3>1. quiet[q] <= backoff[q].left
        BY <1>a DEF QuietInv
      <3>2. CASE q # p
        BY <1>a, <2>1, <2>2, <3>1, <3>2 DEF LearnedTypes
      <3>3. CASE q = p
        <4>1. backoff'[p] = b /\ b.left \in Nat /\ b.delay \in Nat
          BY <1>0, <2>1, <2>2, <2>3, DelaysAssumption DEF Backoff
        <4>2. CASE throttled /\ o > backoff[p].last
          <5>1. quiet'[p] = b.delay
            BY <1>0, <1>a, <2>1, <4>1, <4>2 DEF LearnedTypes
          <5> QED
            BY <2>3, <3>3, <4>1, <4>2, <5>1
        <4>3. CASE ~(throttled /\ o > backoff[p].last)
          BY <2>1, <2>3, <3>1, <3>3, <4>1, <4>3
        <4> QED
          BY <4>2, <4>3
      <3> QED
        BY <3>2, <3>3
    <2>11. RegistryTypes'
      BY <1>a, <1>b DEF RegistryTypes
    <2> QED
      BY <2>6, <2>7, <2>8, <2>9, <2>10, <2>11 DEF KnowledgeInv
  <1> QED
    BY <1>2, <1>3

-------------------------------------------------------------------------------
(* Replacing a provider. *)

\* reset_provider_outcomes, with the generation advanced: no candidate is of the new
\* generation, and the cooldown is forgotten with what asked for it.
LEMMA ResetTurns ==
    ASSUME TurnsInv, RegistryTypes, LearnedTypes, NEW p \in Providers, ResetOutcomes(p),
           gen' = [gen EXCEPT ![p] = @ + 1],
           defn' = defn \/ defn' = [defn EXCEPT ![p] = @ + 1]
    PROVE  TurnsInv'
  <1>1. ASSUME NEW t \in Turns PROVE TurnOK(t, turn[t])'
    <2> DEFINE x == turn[t]
               y == turn'[t]
    <2>0. TurnOK(t, x) /\ x \in Turn(DOMAIN x.snap) /\ DOMAIN x.snap \in SUBSET Routes
      BY TurnFields DEF TurnsInv
    <2>a. x.snap \in [DOMAIN x.snap -> Candidate]
      BY <2>0, TurnFields
    <2>1. backoff[p].left \in Nat
      BY DEF LearnedTypes, Backoff
    <2>2. y = x \/ (x.pc = "admit" /\ y = [x EXCEPT !.parted = TRUE, !.left = backoff[p].left])
      BY DEF ResetOutcomes
    <2>3. /\ y \in Turn(DOMAIN x.snap) /\ y.pc = x.pc /\ y.cands = x.cands /\ y.snap = x.snap
          /\ y.side = x.side
      BY <2>0, <2>1, <2>2 DEF Turn
    <2>4. Carries(t, y)
      <3>1. Carries(t, x)
        BY <2>0 DEF TurnOK
      <3>2. y.pc = "idle" => y = At("idle")
        BY <2>2, <2>3, <3>1 DEF Carries
      <3> HIDE DEF y
      <3> QED
        BY <2>3, <3>1, <3>2 DEF Carries
    <2>5. ASSUME NEW r \in DOMAIN x.snap
          PROVE  SnapFor(x.snap[r], gen'[ProviderOf[r]], defn'[ProviderOf[r]])
      <3>1. /\ SnapOK(x.snap[r], ProviderOf[r]) /\ ProviderOf[r] \in Providers
            /\ x.snap[r].gen \in Nat
        BY <2>0, <2>a, <2>5, RoutesAssumption DEF TurnOK, Candidate
      <3>2. CASE ProviderOf[r] = p
        <4>1. gen'[p] = gen[p] + 1 /\ gen[p] \in Nat
          BY DEF RegistryTypes
        <4> QED
          BY <3>1, <3>2, <4>1 DEF SnapOK, SnapFor
      <3>3. CASE ProviderOf[r] # p
        <4>1. gen'[ProviderOf[r]] = gen[ProviderOf[r]] /\ defn'[ProviderOf[r]] = defn[ProviderOf[r]]
          BY <3>1, <3>3 DEF RegistryTypes
        <4> QED
          BY <3>1, <4>1 DEF SnapOK
      <3> QED
        BY <3>2, <3>3
    <2>6. \A r \in DOMAIN y.snap : SnapFor(y.snap[r], gen'[ProviderOf[r]], defn'[ProviderOf[r]])
      <3> HIDE DEF y
      <3> QED
        BY <2>3, <2>5
    <2> QED
      BY <2>0, <2>3, <2>4, <2>6 DEF TurnOK, SnapOK
  <1>2. turn' = [t \in Turns |-> turn'[t]]
    BY DEF ResetOutcomes
  <1> QED
    BY <1>1, <1>2 DEF TurnsInv

LEMMA ResetQuiet ==
    ASSUME LearnedTypes, QuietInv, NEW p \in Providers, ResetOutcomes(p)
    PROVE  /\ QuietInv' /\ backoff' \in [Providers -> Backoff] /\ quiet' \in [Providers -> Nat]
           /\ \A q \in Providers : backoff'[q] = backoff[q] \/ backoff'[q].last = 0
           /\ backoff'[p].last = 0
  <1>1. Fresh \in Backoff /\ Fresh.left = 0 /\ Fresh.last = 0
    BY DelaysAssumption DEF Fresh, Backoff
  <1>2. backoff' = [backoff EXCEPT ![p] = Fresh] /\ quiet' = [quiet EXCEPT ![p] = 0]
    BY DEF ResetOutcomes
  <1>3. \A q \in Providers : IF q = p THEN backoff'[q] = Fresh /\ quiet'[q] = 0
                              ELSE backoff'[q] = backoff[q] /\ quiet'[q] = quiet[q]
    BY <1>2 DEF LearnedTypes
  <1>4. QuietInv'
    BY <1>1, <1>3 DEF QuietInv
  <1>5. backoff' \in [Providers -> Backoff] /\ quiet' \in [Providers -> Nat]
    BY <1>1, <1>2 DEF LearnedTypes
  <1> QED
    BY <1>1, <1>3, <1>4, <1>5

\* No provider is both retired and current: with the instance gone, the swap is held.
LEMMA RetireKeeps ==
    ASSUME KnowledgeInv, NEW p \in Providers, Retire(p) PROVE KnowledgeInv'
  <1>1. /\ swap[p] = "no" /\ swap' = [swap EXCEPT ![p] = "held"]
        /\ inst' = (IF p \in Backends THEN [inst EXCEPT ![p] = 0] ELSE inst)
        /\ UNCHANGED <<defn, gen, saved, backoff, health, taught, quiet, newest>>
    BY DEF Retire, learned
  <1>2. \A q \in Providers : /\ swap'[q] = "taken" <=> swap[q] = "taken"
                             /\ swap'[q] = "no" => swap[q] = "no" /\ inst'[q] = inst[q]
    BY <1>1 DEF KnowledgeInv, RegistryTypes
  <1>3. RegistryTypes' /\ LearnedTypes'
    BY <1>1 DEF KnowledgeInv, RegistryTypes, LearnedTypes
  <1>4. SwapInv'
    BY <1>1, <1>2, RoutesAssumption DEF KnowledgeInv, SwapInv
  <1>5. LearnInv' /\ QuietInv'
    BY <1>1 DEF KnowledgeInv, LearnInv, FromCurrent, QuietInv
  <1>6. CircuitInv'
    BY <1>1, <1>2, RoutesAssumption DEF KnowledgeInv, CircuitInv
  <1> QED
    BY <1>3, <1>4, <1>5, <1>6 DEF KnowledgeInv

\* Swapping a provider's health out: what its routes had is saved as it is.
LEMMA TakeHealthKeeps ==
    ASSUME KnowledgeInv, NEW p \in Providers, TakeHealth(p) PROVE KnowledgeInv'
  <1>1. /\ swap[p] = "held" /\ swap' = [swap EXCEPT ![p] = "taken"]
        /\ \A q \in Providers : swap[q] # "taken"
        /\ saved' = [r \in Routes |-> IF r \in Of(p) THEN health[r] ELSE saved[r]]
        /\ health' = [r \in Routes |-> IF r \in Of(p) THEN NoRow ELSE health[r]]
        /\ UNCHANGED <<defn, inst, gen, backoff, taught, quiet, newest>>
    BY DEF TakeHealth, GenerationsFree
  <1>2. \A q \in Providers : /\ swap'[q] = "taken" <=> q = p
                             /\ swap'[q] = "no" => swap[q] = "no"
    BY <1>1 DEF KnowledgeInv, RegistryTypes
  <1>3. NoRow \in Row /\ NoRow.last = 0
    BY DEF NoRow, Row
  <1>4. \A r \in Routes : /\ ProviderOf[r] \in Providers /\ saved[r] = NoRow
                          /\ r \in Of(p) <=> ProviderOf[r] = p
                          /\ IF ProviderOf[r] = p THEN saved'[r] = health[r] /\ health'[r] = NoRow
                             ELSE saved'[r] = saved[r] /\ health'[r] = health[r]
    BY <1>1, RoutesAssumption DEF KnowledgeInv, SwapInv, Of
  <1>5. RegistryTypes' /\ LearnedTypes'
    BY <1>1, <1>3 DEF KnowledgeInv, RegistryTypes, LearnedTypes
  <1>6. SwapInv'
    BY <1>1, <1>2, <1>4 DEF KnowledgeInv, SwapInv
  <1>7. LearnInv' /\ QuietInv'
    BY <1>1, <1>3, <1>4 DEF KnowledgeInv, LearnInv, FromCurrent, QuietInv
  <1>8. CircuitInv'
    BY <1>1, <1>2, <1>4 DEF KnowledgeInv, CircuitInv
  <1> QED
    BY <1>5, <1>6, <1>7, <1>8 DEF KnowledgeInv

\* A new definition starts with nothing learned: the health was taken, the scheduler's
\* entry is dropped, and the saved health goes with the old definition.
LEMMA PublishConfigKeeps ==
    ASSUME KnowledgeInv, NEW p \in Providers, PublishConfig(p) PROVE KnowledgeInv'
  <1>1. /\ swap[p] = "taken" /\ swap' = [swap EXCEPT ![p] = "prepared"]
        /\ defn' = [defn EXCEPT ![p] = @ + 1] /\ gen' = [gen EXCEPT ![p] = @ + 1]
        /\ ResetOutcomes(p)
        /\ newest' = [r \in Routes |-> IF r \in Of(p) THEN Unreported ELSE newest[r]]
        /\ saved' = [r \in Routes |-> NoRow]
        /\ UNCHANGED <<inst, health, taught>>
    BY DEF PublishConfig, Forget
  <1>2. \A q \in Providers : /\ swap'[q] # "taken" /\ (swap[q] = "taken" <=> q = p)
                             /\ swap'[q] = "no" => swap[q] = "no" /\ q # p
                             /\ q # p => defn'[q] = defn[q]
    BY <1>1 DEF KnowledgeInv, RegistryTypes, SwapInv
  <1>3. NoRow \in Row /\ NoRow.last = 0 /\ Unreported \in [ord : Nat, ok : BOOLEAN]
    BY DEF NoRow, Row, Unreported
  <1>4. \A r \in Routes : /\ ProviderOf[r] \in Providers /\ saved'[r] = NoRow
                          /\ IF ProviderOf[r] = p THEN health[r] = NoRow /\ newest'[r] = Unreported
                             ELSE newest'[r] = newest[r]
    BY <1>1, RoutesAssumption DEF KnowledgeInv, SwapInv, Of
  <1>5. /\ QuietInv' /\ backoff' \in [Providers -> Backoff] /\ quiet' \in [Providers -> Nat]
        /\ \A q \in Providers : backoff'[q] = backoff[q] \/ backoff'[q].last = 0
        /\ backoff'[p].last = 0
    BY <1>1, ResetQuiet DEF KnowledgeInv
  <1>6. RegistryTypes'
    BY <1>1, <1>3 DEF KnowledgeInv, RegistryTypes
  <1>7. LearnedTypes'
    BY <1>1, <1>3, <1>5 DEF KnowledgeInv, LearnedTypes
  <1>8. SwapInv'
    BY <1>1, <1>2, <1>4 DEF KnowledgeInv, SwapInv
  <1>9. LearnInv'
    BY <1>1, <1>2, <1>3, <1>4, <1>5 DEF KnowledgeInv, LearnInv, FromCurrent
  <1>10. CircuitInv'
    <2> SUFFICES ASSUME NEW r \in Routes PROVE Describes(health[r], newest'[r])
      BY <1>1, <1>2, <1>4 DEF CircuitInv
    <2>1. Describes(NoRow, Unreported)
      BY DEF Describes, NoRow, Unreported
    <2> QED
      BY <1>2, <1>4, <2>1 DEF KnowledgeInv, CircuitInv
  <1> QED
    BY <1>5, <1>6, <1>7, <1>8, <1>9, <1>10 DEF KnowledgeInv

\* The old definition comes back with what was learned from it.
LEMMA PublishFailsKeeps ==
    ASSUME KnowledgeInv, NEW p \in Providers, PublishFails(p) PROVE KnowledgeInv'
  <1>1. /\ swap[p] = "taken" /\ swap' = [swap EXCEPT ![p] = "prepared"]
        /\ health' = [r \in Routes |-> IF r \in Of(p) THEN saved[r] ELSE health[r]]
        /\ saved' = [r \in Routes |-> NoRow]
        /\ UNCHANGED <<defn, inst, gen, backoff, taught, quiet, newest>>
    BY DEF PublishFails, RestoreHealth
  <1>2. \A q \in Providers : /\ swap'[q] # "taken" /\ (swap[q] = "taken" <=> q = p)
                             /\ swap'[q] = "no" => swap[q] = "no"
    BY <1>1 DEF KnowledgeInv, RegistryTypes, SwapInv
  <1>3. NoRow \in Row /\ NoRow.last = 0
    BY DEF NoRow, Row
  <1>4. \A r \in Routes : /\ ProviderOf[r] \in Providers /\ saved'[r] = NoRow
                          /\ health'[r] = IF ProviderOf[r] = p THEN saved[r] ELSE health[r]
    BY <1>1, RoutesAssumption DEF Of
  <1>5. RegistryTypes' /\ LearnedTypes'
    BY <1>1, <1>3 DEF KnowledgeInv, RegistryTypes, LearnedTypes
  <1>6. SwapInv'
    BY <1>1, <1>2, <1>4 DEF KnowledgeInv, SwapInv
  <1>7. LearnInv' /\ QuietInv'
    BY <1>1, <1>3, <1>4 DEF KnowledgeInv, LearnInv, FromCurrent, QuietInv
  <1>8. CircuitInv'
    BY <1>1, <1>2, <1>4 DEF KnowledgeInv, CircuitInv
  <1> QED
    BY <1>5, <1>6, <1>7, <1>8 DEF KnowledgeInv

\* A reload forgets the health as well.
LEMMA ReloadKeeps ==
    ASSUME KnowledgeInv, NEW p \in Providers, Reload(p) PROVE KnowledgeInv'
  <1>1. /\ swap[p] = "held" /\ swap' = [swap EXCEPT ![p] = "prepared"]
        /\ \A q \in Providers : swap[q] # "taken"
        /\ gen' = [gen EXCEPT ![p] = @ + 1] /\ ResetOutcomes(p)
        /\ newest' = [r \in Routes |-> IF r \in Of(p) THEN Unreported ELSE newest[r]]
        /\ health' = [r \in Routes |-> IF r \in Of(p) THEN NoRow ELSE health[r]]
        /\ UNCHANGED <<defn, inst, saved, taught>>
    BY DEF Reload, InvalidateState, Forget, GenerationsFree
  <1>2. \A q \in Providers : swap'[q] # "taken" /\ (swap'[q] = "no" => swap[q] = "no")
    BY <1>1 DEF KnowledgeInv, RegistryTypes
  <1>3. NoRow \in Row /\ NoRow.last = 0 /\ Unreported \in [ord : Nat, ok : BOOLEAN]
    BY DEF NoRow, Row, Unreported
  <1>4. \A r \in Routes : /\ ProviderOf[r] \in Providers /\ saved[r] = NoRow
                          /\ IF ProviderOf[r] = p THEN health'[r] = NoRow /\ newest'[r] = Unreported
                             ELSE health'[r] = health[r] /\ newest'[r] = newest[r]
    BY <1>1, RoutesAssumption DEF KnowledgeInv, SwapInv, Of
  <1>5. /\ QuietInv' /\ backoff' \in [Providers -> Backoff] /\ quiet' \in [Providers -> Nat]
        /\ \A q \in Providers : backoff'[q] = backoff[q] \/ backoff'[q].last = 0
    BY <1>1, ResetQuiet DEF KnowledgeInv
  <1>6. RegistryTypes'
    BY <1>1 DEF KnowledgeInv, RegistryTypes
  <1>7. LearnedTypes'
    BY <1>1, <1>3, <1>5 DEF KnowledgeInv, LearnedTypes
  <1>8. SwapInv'
    BY <1>1, <1>2, <1>4 DEF KnowledgeInv, SwapInv
  <1>9. LearnInv'
    BY <1>1, <1>3, <1>4, <1>5 DEF KnowledgeInv, LearnInv, FromCurrent
  <1>10. CircuitInv'
    <2> SUFFICES ASSUME NEW r \in Routes PROVE Describes(health'[r], newest'[r])
      BY <1>2, <1>4 DEF CircuitInv
    <2>1. Describes(NoRow, Unreported)
      BY DEF Describes, NoRow, Unreported
    <2> QED
      BY <1>1, <1>4, <2>1 DEF KnowledgeInv, CircuitInv
  <1> QED
    BY <1>5, <1>6, <1>7, <1>8, <1>9, <1>10 DEF KnowledgeInv

LEMMA RebuildKeeps ==
    ASSUME KnowledgeInv, NEW p \in Providers, Rebuild(p) PROVE KnowledgeInv'
  <1>1. /\ swap[p] = "prepared" /\ swap' = [swap EXCEPT ![p] = "no"]
        /\ inst' = [inst EXCEPT ![p] = defn[p]]
        /\ UNCHANGED <<defn, gen, saved, backoff, health, taught, quiet, newest>>
    BY DEF Rebuild, learned
  <1>2. \A q \in Providers : /\ swap'[q] = "taken" <=> swap[q] = "taken"
                             /\ swap'[q] = "no" => IF q = p THEN inst'[q] = defn[q]
                                                   ELSE swap[q] = "no" /\ inst'[q] = inst[q]
    BY <1>1 DEF KnowledgeInv, RegistryTypes
  <1>3. RegistryTypes' /\ LearnedTypes'
    BY <1>1 DEF KnowledgeInv, RegistryTypes, LearnedTypes
  <1>4. SwapInv'
    BY <1>1, <1>2, RoutesAssumption DEF KnowledgeInv, SwapInv
  <1>5. LearnInv' /\ QuietInv'
    BY <1>1 DEF KnowledgeInv, LearnInv, FromCurrent, QuietInv
  <1>6. CircuitInv'
    BY <1>1, <1>2, RoutesAssumption DEF KnowledgeInv, CircuitInv
  <1> QED
    BY <1>3, <1>4, <1>5, <1>6 DEF KnowledgeInv

-------------------------------------------------------------------------------
(* Time and restarts. *)

LEMMA LessProperties == ASSUME NEW n \in Nat PROVE Less(n) \in Nat /\ Less(n) <= n /\ Less(0) = 0
  BY DEF Less

\* Time shortens every cooldown alike.
LEMMA TickKnowledge == ASSUME KnowledgeInv, Tick PROVE KnowledgeInv'
  <1>1. /\ backoff' = [p \in Providers |-> [backoff[p] EXCEPT !.left = Less(@)]]
        /\ health' = [r \in Routes |-> [health[r] EXCEPT !.left = Less(@)]]
        /\ quiet' = [p \in Providers |-> Less(quiet[p])]
        /\ saved' = [r \in Routes |-> [saved[r] EXCEPT !.left = Less(@)]]
        /\ UNCHANGED <<defn, inst, gen, swap, taught, newest>>
    BY DEF Tick
  <1>2. ASSUME NEW row \in Row, NEW new, new = [row EXCEPT !.left = Less(@)]
        PROVE  /\ new \in Row /\ new.last = row.last /\ new.fails = row.fails
               /\ new.left = Less(row.left) /\ (row = NoRow => new = NoRow)
               /\ \A n : Describes(row, n) => Describes(new, n)
    <2>1. Less(row.left) \in Nat /\ Less(0) = 0
      BY LessProperties DEF Row
    <2>2. /\ new \in Row /\ new.last = row.last /\ new.fails = row.fails
          /\ new.left = Less(row.left)
      BY <1>2, <2>1 DEF Row
    <2>3. row = NoRow => new = NoRow
      BY <1>2, <2>1 DEF NoRow
    <2> QED
      BY <2>1, <2>2, <2>3 DEF Describes
  <1>3. ASSUME NEW r \in Routes
        PROVE  /\ health'[r] \in Row /\ health'[r].last = health[r].last
               /\ health[r] = NoRow => health'[r] = NoRow
               /\ Describes(health[r], newest[r]) => Describes(health'[r], newest[r])
    <2>1. health[r] \in Row /\ health'[r] = [health[r] EXCEPT !.left = Less(@)]
      BY <1>1 DEF KnowledgeInv, LearnedTypes
    <2> QED
      BY <1>2, <2>1
  <1>4. ASSUME NEW r \in Routes
        PROVE  /\ saved'[r] \in Row /\ saved'[r].last = saved[r].last
               /\ saved[r] = NoRow => saved'[r] = NoRow
               /\ Describes(saved[r], newest[r]) => Describes(saved'[r], newest[r])
    <2>1. saved[r] \in Row /\ saved'[r] = [saved[r] EXCEPT !.left = Less(@)]
      BY <1>1 DEF KnowledgeInv, RegistryTypes
    <2> QED
      BY <1>2, <2>1
  <1>5. ASSUME NEW p \in Providers
        PROVE  /\ backoff'[p] \in Backoff /\ backoff'[p].last = backoff[p].last
               /\ quiet'[p] \in Nat /\ quiet'[p] <= backoff'[p].left
    <2>1. /\ backoff[p] \in Backoff /\ backoff'[p] = [backoff[p] EXCEPT !.left = Less(@)]
          /\ quiet[p] \in Nat /\ quiet'[p] = Less(quiet[p]) /\ quiet[p] <= backoff[p].left
      BY <1>1 DEF KnowledgeInv, LearnedTypes, QuietInv
    <2>2. backoff[p].left \in Nat /\ Less(backoff[p].left) \in Nat
      BY <2>1, LessProperties DEF Backoff
    <2>3. /\ backoff'[p] \in Backoff /\ backoff'[p].last = backoff[p].last
          /\ backoff'[p].left = Less(backoff[p].left)
      BY <2>1, <2>2 DEF Backoff
    <2>4. Less(quiet[p]) \in Nat /\ Less(quiet[p]) <= Less(backoff[p].left)
      BY <2>1, <2>2 DEF Less
    <2> QED
      BY <2>1, <2>3, <2>4
  <1>6. RegistryTypes' /\ LearnedTypes'
    <2>1. /\ saved' \in [Routes -> Row] /\ health' \in [Routes -> Row]
          /\ backoff' \in [Providers -> Backoff] /\ quiet' \in [Providers -> Nat]
      BY <1>1, <1>3, <1>4, <1>5
    <2> QED
      BY <1>1, <2>1 DEF KnowledgeInv, RegistryTypes, LearnedTypes
  <1>7. SwapInv'
    BY <1>1, <1>3, <1>4 DEF KnowledgeInv, SwapInv
  <1>8. LearnInv'
    BY <1>1, <1>3, <1>4, <1>5 DEF KnowledgeInv, LearnInv, FromCurrent
  <1>9. CircuitInv'
    <2> SUFFICES ASSUME NEW r \in Routes
                 PROVE  Describes(IF swap[ProviderOf[r]] = "taken" THEN saved'[r] ELSE health'[r],
                                  newest[r])
      BY <1>1 DEF CircuitInv
    <2>1. Describes(IF swap[ProviderOf[r]] = "taken" THEN saved[r] ELSE health[r], newest[r])
      BY DEF KnowledgeInv, CircuitInv
    <2> QED
      BY <1>3, <1>4, <2>1
  <1>10. QuietInv'
    BY <1>5 DEF QuietInv
  <1> QED
    BY <1>6, <1>7, <1>8, <1>9, <1>10 DEF KnowledgeInv

LEMMA TickTurns ==
    ASSUME TurnsInv, Tick
    PROVE  TurnsInv' /\ \A t \in Turns : turn'[t].pc = turn[t].pc
  <1>1. /\ turn' = [t \in Turns |-> [turn[t] EXCEPT !.left = Less(@)]]
        /\ UNCHANGED <<defn, gen>>
    BY DEF Tick
  <1>2. ASSUME NEW t \in Turns PROVE TurnOK(t, turn'[t]) /\ turn'[t].pc = turn[t].pc
    <2> DEFINE x == turn[t]
               y == turn'[t]
    <2>0. /\ TurnOK(t, x) /\ x \in Turn(DOMAIN x.snap) /\ DOMAIN x.snap \in SUBSET Routes
          /\ x.left \in Nat
      BY TurnFields DEF TurnsInv
    <2>1. y = [x EXCEPT !.left = Less(@)] /\ Less(x.left) \in Nat /\ Less(0) = 0
      BY <1>1, <2>0, LessProperties
    <2>2. /\ y \in Turn(DOMAIN x.snap) /\ y.pc = x.pc /\ y.cands = x.cands /\ y.snap = x.snap
          /\ y.side = x.side
      <3> HIDE DEF x, y
      <3> QED
        BY <2>0, <2>1 DEF Turn
    <2>3. x = At("idle") => y = At("idle")
      <3> HIDE DEF x, y
      <3> QED
        BY <2>1 DEF At
    <2> HIDE DEF x, y
    <2>4. Carries(t, y)
      BY <2>0, <2>2, <2>3 DEF TurnOK, Carries
    <2>5. TurnOK(t, y)
      BY <2>0, <2>2, <2>4 DEF TurnOK
    <2> QED
      BY <2>2, <2>5 DEF x, y
  <1>3. turn' = [t \in Turns |-> turn'[t]]
    BY <1>1
  <1>4. \A t \in Turns : TurnOK(t, turn[t])'
    BY <1>1, <1>2 DEF TurnOK, SnapOK
  <1> QED
    BY <1>2, <1>3, <1>4 DEF TurnsInv

\* A process that starts again forgets what it kept in memory, the generations too;
\* health that was being swapped out is gone.
LEMMA RestartKnowledge == ASSUME KnowledgeInv, Restart PROVE KnowledgeInv'
  <1>1. /\ inst' = defn /\ gen' = [p \in Providers |-> 0] /\ swap' = [p \in Providers |-> "no"]
        /\ saved' = [r \in Routes |-> NoRow]
        /\ backoff' = [p \in Providers |-> Fresh] /\ quiet' = [p \in Providers |-> 0]
        /\ newest' = [r \in Routes |-> IF health[r] = NoRow THEN Unreported ELSE newest[r]]
        /\ UNCHANGED <<defn, health, taught>>
    BY DEF Restart
  <1>2. Fresh \in Backoff /\ Fresh.left = 0 /\ Fresh.last = 0
    BY DelaysAssumption DEF Fresh, Backoff
  <1>3. NoRow \in Row /\ NoRow.last = 0 /\ Unreported \in [ord : Nat, ok : BOOLEAN]
    BY DEF NoRow, Row, Unreported
  <1>4. \A p \in Providers : /\ backoff'[p] = Fresh /\ quiet'[p] = 0 /\ swap'[p] = "no"
    BY <1>1
  <1>5. \A r \in Routes : ProviderOf[r] \in Providers /\ saved'[r] = NoRow
    BY <1>1, RoutesAssumption
  <1>6. RegistryTypes'
    BY <1>1, <1>3 DEF KnowledgeInv, RegistryTypes
  <1>7. LearnedTypes'
    BY <1>1, <1>2, <1>3 DEF KnowledgeInv, LearnedTypes
  <1>8. SwapInv'
    BY <1>1, <1>4, <1>5 DEF SwapInv
  <1>9. LearnInv'
    BY <1>1, <1>2, <1>3, <1>4, <1>5 DEF KnowledgeInv, LearnInv, FromCurrent
  <1>10. CircuitInv'
    <2> SUFFICES ASSUME NEW r \in Routes PROVE Describes(health[r], newest'[r])
      BY <1>1, <1>4, <1>5 DEF CircuitInv
    <2>1. Describes(NoRow, Unreported)
      BY DEF Describes, NoRow, Unreported
    <2>2. CASE health[r] = NoRow
      BY <1>1, <2>1, <2>2
    <2>3. CASE health[r] # NoRow
      <3>1. swap[ProviderOf[r]] # "taken" /\ newest'[r] = newest[r]
        BY <1>1, <2>3 DEF KnowledgeInv, SwapInv
      <3> QED
        BY <3>1 DEF KnowledgeInv, CircuitInv
    <2> QED
      BY <2>2, <2>3
  <1>11. QuietInv'
    BY <1>2, <1>4 DEF QuietInv
  <1> QED
    BY <1>6, <1>7, <1>8, <1>9, <1>10, <1>11 DEF KnowledgeInv

LEMMA RestartTurns ==
    ASSUME TurnsInv, Restart
    PROVE  TurnsInv' /\ \A t \in Turns : turn'[t].pc \in {"idle", "ended"}
  <1>1. turn' = [t \in Turns |-> IF turn[t].pc = "idle" THEN turn[t] ELSE At("ended")]
    BY DEF Restart
  <1>2. ASSUME NEW t \in Turns
        PROVE  turn'[t] = At("idle") \/ turn'[t] = At("ended")
    BY <1>1 DEF TurnsInv, TurnOK, Carries
  <1>3. ASSUME NEW t \in Turns PROVE TurnOK(t, turn[t])'
    <2>1. TurnOK(t, turn'[t])
      BY <1>2, AtOK
    <2>2. DOMAIN turn'[t].snap = {}
      BY <1>2 DEF At
    <2> QED
      BY <2>1, <2>2 DEF TurnOK
  <1>4. \A t \in Turns : turn'[t].pc \in {"idle", "ended"}
    BY <1>2 DEF At
  <1> QED
    BY <1>1, <1>3, <1>4 DEF TurnsInv

-------------------------------------------------------------------------------
(* The steps. *)

LEMMA KnowledgeSame == ASSUME KnowledgeInv, UNCHANGED <<registry, learned>> PROVE KnowledgeInv'
  BY DEF KnowledgeInv, registry, learned, RegistryTypes, LearnedTypes, SwapInv, LearnInv,
     FromCurrent, CircuitInv, QuietInv

LEMMA TurnsSame == ASSUME TurnsInv, UNCHANGED <<turn, defn, gen>> PROVE TurnsInv'
  BY DEF TurnsInv, TurnOK, SnapOK

LEMMA ThreadsSame == ASSUME ThreadsInv, UNCHANGED threads PROVE ThreadsInv'
  BY DEF ThreadsInv, threads, ThreadTypes, AffinityOfModel

LEMMA InputCounts == ASSUME CounterTypes, Input, orders' = orders PROVE CounterTypes'
  BY DelaysAssumption DEF CounterTypes, Input

\* The outcomes of automatic turns.
LEMMA OutcomeKeeps ==
    ASSUME RoutingInv, NEW t \in Automatic,
           Complete(t) \/ Panic(t) \/ \E kind \in Kinds, b \in BOOLEAN : Fail(t, kind, b)
    PROVE  RoutingInv' /\ Moves(t) /\ turn[t].pc = "run"
  <1>0. t \in Turns
    BY DEF Turns
  <1>1. /\ Ran(t) /\ turn[t].pc = "run" /\ UNCHANGED <<registry, moved, orders, inputs>>
        /\ SetAffinity(t) \/ ClearAffinity(t)
    BY DEF Complete, Panic, Fail, Ran
  <1>2. Route(t) \in Routes /\ turn[t].ord \in Nat /\ health[Route(t)] \in Row
    BY <1>0, <1>1, RunsKnown DEF RoutingInv, KnowledgeInv, LearnedTypes
  <1>3. KnowledgeInv'
    <2>1. CASE Complete(t)
      <3>1. Report(t, TRUE, FALSE, NextSuccess(health[Route(t)], turn[t].ord))
        BY <2>1 DEF Complete
      <3> QED
        BY <1>0, <1>1, <1>2, <3>1, SuccessRow, ReportKeeps DEF RoutingInv
    <2>2. ASSUME NEW kind \in Kinds, NEW b \in BOOLEAN,
                 Report(t, FALSE, b, NextFailure(health[Route(t)], turn[t].ord, kind))
          PROVE  KnowledgeInv'
      BY <1>0, <1>1, <1>2, <2>2, FailureRow, ReportKeeps DEF RoutingInv
    <2>3. CASE Panic(t)
      BY <2>2, <2>3 DEF Panic
    <2>4. CASE \E kind \in Kinds, b \in BOOLEAN : Fail(t, kind, b)
      BY <2>2, <2>4 DEF Fail
    <2> QED
      BY <2>1, <2>3, <2>4
  <1>4. Moves(t)
    BY <1>0, <1>1, FinishMoves, FailOverMoves DEF RoutingInv, Complete, Panic, Fail
  <1>5. TurnsInv'
    BY <1>0, <1>1, <1>4, MovesKeeps DEF RoutingInv, registry
  <1>6. ThreadsInv'
    <2>1. /\ moved' = moved
          /\ \/ affinity' = affinity
             \/ t \notin moved /\ affinity' = [affinity EXCEPT ![t] = Route(t)]
             \/ affinity' = [affinity EXCEPT ![t] = None]
      BY <1>1 DEF SetAffinity, ClearAffinity
    <2> QED
      BY <1>2, <2>1 DEF RoutingInv, ThreadsInv, ThreadTypes, AffinityOfModel
  <1> QED
    BY <1>1, <1>3, <1>4, <1>5, <1>6 DEF RoutingInv, CounterTypes

\* Those of pinned turns.
LEMMA PinnedOutcomeKeeps ==
    ASSUME RoutingInv, NEW t \in Pinned,
           FinishPinned(t, TRUE, FALSE) \/ \E b \in BOOLEAN : FinishPinned(t, FALSE, b)
    PROVE  RoutingInv' /\ Moves(t) /\ turn[t].pc = "run"
  <1>0. t \in Turns /\ t \notin Automatic
    BY TurnsAssumption DEF Turns
  <1>1. /\ Ran(t) /\ turn[t].pc = "run" /\ Finish(t)
        /\ UNCHANGED <<registry, threads, orders, inputs>>
    BY DEF FinishPinned, Ran
  <1>2. health[Route(t)] \in Row
    BY <1>0, <1>1, RunsKnown DEF RoutingInv, KnowledgeInv, LearnedTypes
  <1>3. KnowledgeInv'
    <2>1. ASSUME NEW ok \in BOOLEAN, NEW b \in BOOLEAN, b => ~ok,
                 Report(t, ok, b, health[Route(t)])
          PROVE  KnowledgeInv'
      BY <1>0, <1>1, <1>2, <2>1, ReportKeeps DEF RoutingInv
    <2>2. CASE FinishPinned(t, TRUE, FALSE)
      BY <2>1, <2>2 DEF FinishPinned
    <2>3. CASE \E b \in BOOLEAN : FinishPinned(t, FALSE, b)
      BY <2>1, <2>3 DEF FinishPinned
    <2> QED
      BY <2>2, <2>3
  <1>4. Moves(t)
    BY <1>0, <1>1, FinishMoves
  <1>5. TurnsInv'
    BY <1>0, <1>1, <1>4, MovesKeeps DEF RoutingInv, registry
  <1> QED
    BY <1>1, <1>3, <1>4, <1>5, ThreadsSame DEF RoutingInv, CounterTypes

\* The steps that only move a turn.
LEMMA TurnOnly ==
    ASSUME RoutingInv, NEW t \in Turns, Moves(t), UNCHANGED <<registry, learned, threads>>,
           CounterTypes'
    PROVE  RoutingInv'
  <1>1. TurnsInv'
    BY MovesKeeps DEF RoutingInv, registry
  <1> QED
    BY <1>1, KnowledgeSame, ThreadsSame DEF RoutingInv

LEMMA FindKeeps ==
    ASSUME RoutingInv, NEW t \in Automatic, Find(t)
    PROVE  RoutingInv' /\ (turn' = turn \/ (Moves(t) /\ turn[t].pc # "admit"))
  <1>0. t \in Turns
    BY DEF Turns
  <1>1. CASE Discover(t) \/ Rank(t) \/ Select(t) \/ SideEffect(t)
    <2>1. Moves(t)
      BY <1>1, DiscoverMoves, RankMoves, SelectMoves, SideEffectMoves DEF RoutingInv, KnowledgeInv
    <2>2. turn[t].pc # "admit" /\ UNCHANGED <<registry, learned, threads>>
      BY <1>1 DEF Discover, Rank, Select, SideEffect
    <2>3. CounterTypes'
      BY <1>1, InputCounts DEF RoutingInv, Discover, Rank, Select, SideEffect, CounterTypes
    <2> QED
      BY <1>0, <2>1, <2>2, <2>3, TurnOnly
  <1>2. CASE Complete(t) \/ Panic(t) \/ \E kind \in Kinds, b \in BOOLEAN : Fail(t, kind, b)
    BY <1>2, OutcomeKeeps
  <1>3. CASE SetModel(t)
    <2>1. /\ moved' = moved \cup {t} /\ affinity' = [affinity EXCEPT ![t] = None]
          /\ UNCHANGED <<registry, learned, turn>>
      BY <1>3 DEF SetModel
    <2>2. ThreadsInv'
      BY <2>1 DEF RoutingInv, ThreadsInv, ThreadTypes, AffinityOfModel
    <2>3. CounterTypes'
      BY <1>3, InputCounts DEF RoutingInv, SetModel
    <2>4. TurnsInv'
      BY <2>1, TurnsSame DEF RoutingInv, registry
    <2> QED
      BY <2>1, <2>2, <2>3, <2>4, KnowledgeSame DEF RoutingInv
  <1> QED
    BY <1>1, <1>2, <1>3 DEF Find

LEMMA PinKeeps ==
    ASSUME RoutingInv, NEW t \in Pinned, Pin(t)
    PROVE  RoutingInv' /\ Moves(t) /\ turn[t].pc # "admit"
  <1>0. t \in Turns
    BY DEF Turns
  <1>1. CASE StartPinned(t) \/ Resolve(t)
    <2>1. Moves(t)
      BY <1>1, StartPinnedMoves, ResolveMoves DEF RoutingInv, KnowledgeInv
    <2>2. turn[t].pc # "admit" /\ UNCHANGED <<registry, learned, threads>>
      BY <1>1 DEF StartPinned, Resolve
    <2>3. CounterTypes'
      BY <1>1, InputCounts DEF RoutingInv, StartPinned, Resolve, CounterTypes
    <2> QED
      BY <1>0, <2>1, <2>2, <2>3, TurnOnly
  <1>2. CASE FinishPinned(t, TRUE, FALSE) \/ \E b \in BOOLEAN : FinishPinned(t, FALSE, b)
    BY <1>2, PinnedOutcomeKeeps
  <1> QED
    BY <1>1, <1>2 DEF Pin

LEMMA AdmitKeeps ==
    ASSUME RoutingInv, NEW t \in Turns, Admit(t) \/ Abandon(t)
    PROVE  RoutingInv' /\ Moves(t)
  <1>1. Moves(t)
    BY AdmitMoves, FinishMoves DEF RoutingInv, Abandon
  <1>2. UNCHANGED <<registry, learned, threads>>
    BY DEF Admit, Abandon
  <1>3. CounterTypes'
    BY DEF RoutingInv, Admit, Abandon, CounterTypes
  <1> QED
    BY <1>1, <1>2, <1>3, TurnOnly

LEMMA ReplaceKeeps ==
    ASSUME RoutingInv, NEW p \in Providers, Replace(p)
    PROVE  RoutingInv' /\ \A t \in Turns : turn'[t].pc = turn[t].pc
  <1>1. KnowledgeInv'
    BY RetireKeeps, TakeHealthKeeps, PublishConfigKeeps, PublishFailsKeeps, ReloadKeeps,
       RebuildKeeps DEF RoutingInv, Replace
  <1>2. ThreadsInv' /\ CounterTypes'
    <2>1. UNCHANGED threads /\ UNCHANGED orders /\ (Input \/ UNCHANGED inputs)
      BY DEF Replace, Retire, TakeHealth, PublishConfig, PublishFails, Reload, Rebuild
    <2> QED
      BY <2>1, ThreadsSame, InputCounts DEF RoutingInv, CounterTypes
  <1>3. CASE PublishConfig(p) \/ Reload(p)
    <2>1. /\ ResetOutcomes(p) /\ gen' = [gen EXCEPT ![p] = @ + 1]
          /\ defn' = defn \/ defn' = [defn EXCEPT ![p] = @ + 1]
      BY <1>3 DEF PublishConfig, Reload, InvalidateState
    <2>2. TurnsInv'
      BY <2>1, ResetTurns DEF RoutingInv, KnowledgeInv
    <2>3. ASSUME NEW t \in Turns PROVE turn'[t].pc = turn[t].pc
      <3>1. turn[t] \in Turn(DOMAIN turn[t].snap)
        BY TurnFields DEF RoutingInv, TurnsInv
      <3> QED
        BY <2>1, <3>1 DEF ResetOutcomes, Turn
    <2> QED
      BY <1>1, <1>2, <2>2, <2>3 DEF RoutingInv
  <1>4. CASE Retire(p) \/ TakeHealth(p) \/ PublishFails(p) \/ Rebuild(p)
    <2>1. UNCHANGED <<turn, defn, gen>>
      BY <1>4 DEF Retire, TakeHealth, PublishFails, Rebuild
    <2> QED
      BY <1>1, <1>2, <2>1, TurnsSame DEF RoutingInv
  <1> QED
    BY <1>3, <1>4 DEF Replace

LEMMA ClockKeeps == ASSUME RoutingInv, Tick \/ Restart PROVE RoutingInv'
  <1>1. TurnsInv' /\ KnowledgeInv'
    BY TickTurns, TickKnowledge, RestartTurns, RestartKnowledge DEF RoutingInv
  <1>2. UNCHANGED threads /\ UNCHANGED orders /\ (Input \/ UNCHANGED inputs)
    BY DEF Tick, Restart
  <1> QED
    BY <1>1, <1>2, ThreadsSame, InputCounts DEF RoutingInv, CounterTypes

LEMMA StepKeeps == ASSUME RoutingInv, [Next]_vars PROVE RoutingInv'
  <1>1. CASE UNCHANGED vars
    BY <1>1, TurnsSame, KnowledgeSame, ThreadsSame DEF vars, registry, RoutingInv, CounterTypes
  <1> QED
    BY <1>1, FindKeeps, PinKeeps, AdmitKeeps, ReplaceKeeps, ClockKeeps DEF Next

\* Nothing is known and nobody runs at the start.
LEMMA InitKeeps == Init => RoutingInv
  <1> SUFFICES ASSUME Init PROVE RoutingInv
    OBVIOUS
  <1>1. /\ NoRow \in Row /\ Fresh \in Backoff /\ Unreported \in [ord : Nat, ok : BOOLEAN]
        /\ Nobody \in [defn : Nat, early : BOOLEAN]
        /\ NoRow.last = 0 /\ Fresh.last = 0 /\ Fresh.left = 0 /\ Describes(NoRow, Unreported)
    BY DelaysAssumption DEF NoRow, Row, Fresh, Backoff, Unreported, Nobody, Describes
  <1>2. TurnsInv
    <2>1. \A t \in Turns : turn[t] = At("idle")
      BY DEF Init
    <2>2. turn = [t \in Turns |-> turn[t]]
      BY DEF Init
    <2> QED
      BY <2>1, <2>2, AtOK DEF TurnsInv
  <1>3. RegistryTypes /\ LearnedTypes
    BY <1>1 DEF Init, RegistryTypes, LearnedTypes
  <1>4. SwapInv /\ QuietInv
    BY <1>1, RoutesAssumption DEF Init, SwapInv, QuietInv
  <1>5. LearnInv /\ CircuitInv
    BY <1>1, RoutesAssumption DEF Init, LearnInv, CircuitInv
  <1>6. ThreadsInv /\ CounterTypes
    BY DelaysAssumption DEF Init, ThreadsInv, ThreadTypes, AffinityOfModel, CounterTypes
  <1> QED
    BY <1>2, <1>3, <1>4, <1>5, <1>6 DEF RoutingInv, KnowledgeInv

THEOREM RoutingInvariant == Spec => []RoutingInv
  <1>1. RoutingInv /\ [Next]_vars => RoutingInv'
    BY StepKeeps
  <1> QED
    BY InitKeeps, <1>1, PTL DEF Spec

-------------------------------------------------------------------------------
(* The properties. *)

\* Every variable keeps its type, the candidates and the circuits of routes included.
THEOREM TypeCorrect == Spec => []TypeOK
  <1>1. RoutingInv => TypeOK
    BY DEF RoutingInv, KnowledgeInv, ThreadsInv, RegistryTypes, LearnedTypes, ThreadTypes,
       CounterTypes, TurnsInv, TurnOK, TypeOK, Backoff
  <1> QED
    BY RoutingInvariant, <1>1, PTL

\* Provider generations do what they are for (with_current_provider_generation): no
\* attempt on an earlier definition teaches anything about the current one.
THEOREM KnowledgeIsCurrent == Spec => []LearnedFromCurrent
  <1>1. RoutingInv => LearnedFromCurrent
    BY DEF RoutingInv, KnowledgeInv, LearnInv, FromCurrent, LearnedFromCurrent
  <1> QED
    BY RoutingInvariant, <1>1, PTL

\* Outcomes that arrive out of order leave the circuit of the newest attempt
\* (record_route_success, record_route_failure), through replacements and restarts.
THEOREM CircuitIsOfNewest == Spec => []CircuitOfNewest
  <1>1. RoutingInv => CircuitOfNewest
    BY DEF RoutingInv, KnowledgeInv, CircuitInv, Describes, CircuitOfNewest
  <1> QED
    BY RoutingInvariant, <1>1, PTL

\* A thread whose model was changed keeps no affinity to a route of the old one,
\* whatever its running turn reports (set_thread_route_affinity).
THEOREM AffinityFollowsModel == Spec => []AffinityOfModel
  <1>1. RoutingInv => AffinityOfModel
    BY DEF RoutingInv, ThreadsInv
  <1> QED
    BY RoutingInvariant, <1>1, PTL

\* An attempt starts in no other way than through TurnScheduler::admit.
LEMMA OnlyAdmitStarts ==
    ASSUME RoutingInv, [Next]_vars, NEW t \in Turns, turn[t].pc = "admit",
           turn'[t].pc \in {"run", "resolve"}
    PROVE  Admit(t)
  <1>0. turn'[t].pc # turn[t].pc
    OBVIOUS
  <1>1. ASSUME NEW u \in Turns, Moves(u) PROVE u = t
    <2>1. PICK x : turn' = [turn EXCEPT ![u] = x]
      BY <1>1 DEF Moves
    <2> QED
      BY <1>0, <2>1
  <1>2. ASSUME NEW u \in Automatic, Find(u) PROVE FALSE
    BY <1>0, <1>1, <1>2, FindKeeps DEF Turns
  <1>3. ASSUME NEW u \in Pinned, Pin(u) PROVE FALSE
    BY <1>1, <1>3, PinKeeps DEF Turns
  <1>4. ASSUME NEW p \in Providers, Replace(p) PROVE FALSE
    BY <1>0, <1>4, ReplaceKeeps
  <1>5. CASE Tick
    BY <1>0, <1>5, TickTurns DEF RoutingInv
  <1>6. CASE Restart
    BY <1>6, RestartTurns DEF RoutingInv
  <1>7. CASE UNCHANGED vars
    BY <1>0, <1>7 DEF vars
  <1>8. ASSUME NEW u \in Turns, Abandon(u) PROVE FALSE
    <2>1. u = t
      BY <1>1, <1>8, AdmitKeeps
    <2>2. turn'[t] = At("ended")
      BY <1>8, <2>1 DEF Abandon, Finish, RoutingInv, TurnsInv
    <2> QED
      BY <2>2 DEF At
  <1>9. ASSUME NEW u \in Turns, Admit(u) PROVE Admit(t)
    BY <1>1, <1>9, AdmitKeeps
  <1> QED
    BY <1>2, <1>3, <1>4, <1>5, <1>6, <1>7, <1>8, <1>9 DEF Next

\* No attempt begins after one that may have changed something (FailOver's guard).
THEOREM NothingIsReplayed == Spec => NoReplay
  <1>1. RoutingInv /\ [Next]_vars =>
            [\A t \in Automatic : turn[t].pc = "admit" /\ turn'[t].pc = "run" => ~turn[t].side]_vars
    BY DEF RoutingInv, TurnsInv, TurnOK, Carries, Turns
  <1> QED
    BY RoutingInvariant, <1>1, PTL DEF Spec, NoReplay

\* A rate limit is honoured whatever else reports meanwhile (TurnScheduler::admit and
\* record_ordered_outcome).
THEOREM RestIsGranted == Spec => CooldownHonoured
  <1>1. RoutingInv /\ [Next]_vars =>
            [\A t \in Turns : turn[t].pc = "admit" /\ turn'[t].pc \in {"run", "resolve"} =>
                quiet[Provider(t)] = 0 \/ turn[t].parted]_vars
    <2> SUFFICES ASSUME RoutingInv, [Next]_vars, NEW t \in Turns, turn[t].pc = "admit",
                        turn'[t].pc \in {"run", "resolve"}, ~turn[t].parted
                 PROVE  quiet[Provider(t)] = 0
      OBVIOUS
    <2>1. Admit(t)
      BY OnlyAdmitStarts
    <2>2. ~(backoff[Provider(t)].left > 0)
      BY <2>1 DEF Admit, Cooling
    <2>3. Provider(t) \in Providers
      <3> DEFINE c == turn[t].cands
      <3>1. c \in Seq(Routes) /\ c # <<>>
        BY TurnFields DEF RoutingInv, TurnsInv, TurnOK, Carries
      <3>2. c[1] \in Routes
        BY <3>1, EmptySeq
      <3> QED
        BY <3>2, RoutesAssumption DEF Provider, Route
    <2>4. /\ quiet[Provider(t)] \in Nat /\ backoff[Provider(t)].left \in Nat
          /\ quiet[Provider(t)] <= backoff[Provider(t)].left
      BY <2>3 DEF RoutingInv, KnowledgeInv, LearnedTypes, Backoff, QuietInv
    <2> QED
      BY <2>2, <2>4
  <1> QED
    BY RoutingInvariant, <1>1, PTL DEF Spec, CooldownHonoured

===============================================================================
