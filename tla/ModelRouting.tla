------------------------------ MODULE ModelRouting ------------------------------
(***************************************************************************)
(* Which provider runs a turn: admission and backoff (TurnScheduler,        *)
(* engine.rs), automatic routing with failover and learned route health     *)
(* (engine/routing.rs, store.rs), and the replacement of a provider's       *)
(* configuration underneath running turns (BackendRetirement, engine.rs).   *)
(*                                                                          *)
(* A route is a model of one provider.  An automatic turn ranks the routes  *)
(* of its thread's model and fails over between them; a pinned turn has     *)
(* one.  Times are what is left of a cooldown: Tick is the clock.  A        *)
(* definition is a version of a provider's configuration; the registry      *)
(* holds an instance built from one, and a candidate keeps that instance.   *)
(***************************************************************************)
EXTENDS Naturals, Sequences, FiniteSets

CONSTANTS
    Automatic, Pinned,  \* turns, each of a thread of its own
    Providers,
    Backends,           \* vendor-agent providers, which leave the registry to be replaced
    Routes,
    ProviderOf,         \* the provider of each route
    PinnedRoute,        \* the route of each pinned turn
    MaxAttempts,        \* MAX_ROUTE_ATTEMPTS_PER_TURN
    BaseDelay, MaxDelay,    \* provider backoff: 1 s doubling to 30 s
    Kinds, Cooldown,    \* RouteFailureKind and its [base, max] circuit cooldown
    None,               \* no route
    MaxInputs           \* bound: turns, replacements, model changes and restarts

Turns == Automatic \cup Pinned

ASSUME TurnsAssumption == /\ Automatic \cap Pinned = {}
                          /\ PinnedRoute \in [Pinned -> Routes]
ASSUME RoutesAssumption == /\ ProviderOf \in [Routes -> Providers]
                           /\ Backends \subseteq Providers
                           /\ None \notin Routes
                           /\ IsFiniteSet(Routes) /\ Routes \cap Providers = {}
ASSUME DelaysAssumption == /\ BaseDelay \in Nat \ {0} /\ MaxDelay \in Nat \ {0}
                           /\ Cooldown \in [Kinds -> [base : Nat \ {0}, max : Nat \ {0}]]
                           /\ BaseDelay <= MaxDelay
                           /\ MaxAttempts \in Nat \ {0} /\ MaxInputs \in Nat

VARIABLES
    defn,      \* durable definition of each provider, numbered from 1
    inst,      \* definition its registered instance was built from, 0 when there is none
    gen,       \* provider_generations
    swap,      \* how far the replacement of each provider is
    saved,     \* route health taken from each provider by it
    backoff,   \* TurnScheduler::providers
    health,    \* the route_health table
    affinity,  \* route affinity of each automatic turn's thread
    moved,     \* threads whose model was changed
    orders,    \* TurnScheduler::attempt_order
    turn,      \* each turn
    taught,    \* instance behind each row of health and each backoff (history)
    quiet,     \* what is left of the rest each provider asked for (history)
    newest,    \* newest attempt reported for each route (history)
    inputs     \* turns, replacements, model changes and restarts so far

registry == <<defn, inst, gen, swap, saved>>
learned == <<backoff, health, taught, quiet, newest>>
threads == <<affinity, moved>>
vars == <<registry, learned, threads, orders, turn, inputs>>

Lesser(a, b) == IF a <= b THEN a ELSE b
Fresh == [left |-> 0, delay |-> 0, last |-> 0]      \* ProviderBackoff::default
NoRow == [fails |-> 0, left |-> 0, last |-> 0]      \* no row, or one that says nothing
Unreported == [ord |-> 0, ok |-> TRUE]
Nobody == [defn |-> 0, early |-> FALSE]

At(pc) == [pc |-> pc, cands |-> <<>>, snap |-> <<>>, ord |-> 0, parted |-> FALSE,
           left |-> 0, side |-> FALSE]

Of(p) == {r \in Routes : ProviderOf[r] = p}
Route(t) == turn[t].cands[1]
Provider(t) == ProviderOf[Route(t)]
Input == inputs < MaxInputs /\ inputs' = inputs + 1
Finish(t) == turn' = [turn EXCEPT ![t] = At("ended")]

Init ==
    /\ defn = [p \in Providers |-> 1] /\ inst = defn /\ gen = [p \in Providers |-> 0]
    /\ swap = [p \in Providers |-> "no"] /\ saved = [r \in Routes |-> NoRow]
    /\ backoff = [p \in Providers |-> Fresh] /\ health = [r \in Routes |-> NoRow]
    /\ affinity = [t \in Automatic |-> None] /\ moved = {}
    /\ orders = 0 /\ turn = [t \in Turns |-> At("idle")]
    /\ taught = [x \in Routes \cup Providers |-> Nobody]
    /\ quiet = [p \in Providers |-> 0] /\ newest = [r \in Routes |-> Unreported]
    /\ inputs = 0

-------------------------------------------------------------------------------
(* Finding a route. *)

\* The provider_generations mutex is held over a replacement's health swap.
GenerationsFree == \A p \in Providers : swap[p] # "taken"

\* available_model_candidates: one snapshot of the registry and the generations.
Discover(t) ==
    /\ turn[t].pc = "idle" /\ GenerationsFree /\ Input
    /\ LET found == IF t \in moved THEN {}
                    ELSE {r \in Routes : inst[ProviderOf[r]] # 0}
       IN  IF found = {} THEN Finish(t)
           ELSE turn' = [turn EXCEPT
                  ![t].pc = "ranking",
                  ![t].snap = [r \in found |->
                      LET p == ProviderOf[r]
                      IN  [gen |-> gen[p], defn |-> inst[p], early |-> inst[p] # defn[p]]]]
    /\ UNCHANGED <<registry, learned, threads, orders>>

Lists(S) == {s \in UNION {[1..n -> S] : n \in 1..Cardinality(S)} :
                \A i, j \in DOMAIN s : s[i] = s[j] => i = j}

\* rank_model_candidates: routes that cool down are left out.  The configured
\* order, the subscriptions' usage and the affinity decide among the others:
\* any selection and any order here.
Rank(t) ==
    /\ turn[t].pc = "ranking"
    /\ LET open == {r \in DOMAIN turn[t].snap :
                        backoff[ProviderOf[r]].left = 0 /\ health[r].left = 0}
       IN  IF open = {} THEN Finish(t)
           ELSE \E s \in Lists(open) :
                    turn' = [turn EXCEPT ![t].pc = "next", ![t].cands = s]
    /\ UNCHANGED <<registry, learned, threads, orders, inputs>>

\* The first remaining route that does not cool down by now; the turn fails when
\* there is none.  The first selection also truncates the list.
Select(t) ==
    /\ turn[t].pc = "next"
    /\ LET s == turn[t].cands
           ready == {i \in DOMAIN s : backoff[ProviderOf[s[i]]].left = 0}
           first == turn[t].ord = 0
       IN  IF ready = {} THEN Finish(t)
           ELSE \E i \in ready :
                  /\ \A j \in ready : i <= j
                  /\ turn' = [turn EXCEPT ![t].pc = "admit", ![t].parted = FALSE,
                                          ![t].cands = IF first THEN SubSeq(s, i, Lesser(Len(s), i + MaxAttempts - 1))
                                                       ELSE SubSeq(s, i, Len(s))]
    /\ UNCHANGED <<registry, learned, threads, orders, inputs>>

\* A pinned turn goes straight to its provider's admission.
StartPinned(t) ==
    /\ turn[t].pc = "idle" /\ Input
    /\ turn' = [turn EXCEPT ![t].pc = "admit", ![t].cands = <<PinnedRoute[t]>>]
    /\ UNCHANGED <<registry, learned, threads, orders>>

\* admit looks again after every sleep, at the entry it started with: one that
\* a replacement has since dropped from the map is still waited for.
Cooling(t) == IF turn[t].parted THEN turn[t].left > 0 ELSE backoff[Provider(t)].left > 0

\* TurnScheduler::admit: the order is allocated after the cooldown.
Admit(t) ==
    /\ turn[t].pc = "admit" /\ ~Cooling(t)
    /\ orders' = orders + 1
    /\ turn' = [turn EXCEPT ![t].pc = IF t \in Automatic THEN "run" ELSE "resolve",
                            ![t].ord = orders + 1,
                            ![t].parted = FALSE, ![t].left = 0]
    /\ UNCHANGED <<registry, learned, threads, inputs>>

\* resolve_concrete_executor, behind the provider's transition lock.
Resolve(t) ==
    /\ turn[t].pc = "resolve" /\ swap[Provider(t)] = "no"
    /\ LET p == Provider(t)
       IN  IF inst[p] = 0 THEN Finish(t)
           ELSE turn' = [turn EXCEPT
                  ![t].pc = "run",
                  ![t].snap = [r \in {Route(t)} |->
                                  [gen |-> gen[p], defn |-> inst[p], early |-> FALSE]]]
    /\ UNCHANGED <<registry, learned, threads, orders, inputs>>

-------------------------------------------------------------------------------
(* One attempt and its outcome. *)

\* A tool call that may have changed something has begun.
SideEffect(t) ==
    /\ turn[t].pc = "run" /\ ~turn[t].side
    /\ turn' = [turn EXCEPT ![t].side = TRUE]
    /\ UNCHANGED <<registry, learned, threads, orders, inputs>>

\* Mutant: a success ends a cooldown that is still running.
LiftBackoff(b, o, ok, throttled) ==
    IF b.last >= o THEN b
    ELSE IF throttled
    THEN LET d == IF b.delay = 0 THEN BaseDelay ELSE Lesser(2 * b.delay, MaxDelay)
         IN  [left |-> d, delay |-> d, last |-> o]
    ELSE IF ok THEN [left |-> 0, delay |-> b.delay \div 2, last |-> o]
    ELSE [b EXCEPT !.last = o]

\* record_ordered_outcome
NextBackoff(b, o, ok, throttled) ==
    IF b.last >= o THEN b
    ELSE IF throttled
    THEN LET d == IF b.delay = 0 THEN BaseDelay ELSE Lesser(2 * b.delay, MaxDelay)
         IN  [left |-> d, delay |-> d, last |-> o]
    ELSE IF ok /\ b.left = 0 THEN [left |-> 0, delay |-> b.delay \div 2, last |-> o]
    ELSE [b EXCEPT !.last = o]

\* Mutant: a success closes the circuit whenever it arrives.
AnySuccess(h, o) == [fails |-> 0, left |-> 0, last |-> o]

\* record_route_success
NextSuccess(h, o) == IF h.last >= o THEN h ELSE [fails |-> 0, left |-> 0, last |-> o]

\* record_route_failure
NextFailure(h, o, kind) ==
    IF h.last >= o THEN h
    ELSE [fails |-> h.fails + 1, last |-> o,
          left |-> Lesser(Cooldown[kind].base * 2 ^ Lesser(h.fails, 20), Cooldown[kind].max)]

\* Mutant: outcomes are recorded whatever became of the provider.
AnyGeneration(t) == GenerationsFree

\* with_current_provider_generation
Current(t) == gen[Provider(t)] = turn[t].snap[Route(t)].gen

Origin(t) == [defn |-> turn[t].snap[Route(t)].defn, early |-> turn[t].snap[Route(t)].early]

\* The outcome of an attempt reaches the scheduler and, on an automatic turn, the
\* route's health, unless the provider was replaced; row is the new health.
Report(t, ok, throttled, row) ==
    LET p == Provider(t)  r == Route(t)  o == turn[t].ord
    IN  IF ~Current(t) THEN UNCHANGED learned
        ELSE /\ backoff' = [backoff EXCEPT ![p] = NextBackoff(@, o, ok, throttled)]
             /\ health' = [health EXCEPT ![r] = row]
             /\ taught' = [x \in DOMAIN taught |->
                              IF (x = p /\ backoff' # backoff) \/ (x = r /\ health' # health)
                              THEN Origin(t) ELSE taught[x]]
             /\ quiet' = IF throttled /\ o > backoff[p].last
                         THEN [quiet EXCEPT ![p] = backoff'[p].delay] ELSE quiet
             /\ newest' = IF t \in Automatic /\ o > newest[r].ord
                          THEN [newest EXCEPT ![r] = [ord |-> o, ok |-> ok]] ELSE newest

\* set_thread_route_affinity, where the thread still has the turn's model.
SetAffinity(t) ==
    affinity' = IF Current(t) /\ t \notin moved
                THEN [affinity EXCEPT ![t] = Route(t)] ELSE affinity

\* clear_thread_route_affinity_if_matches
ClearAffinity(t) ==
    affinity' = IF Current(t) /\ affinity[t] = Route(t)
                THEN [affinity EXCEPT ![t] = None] ELSE affinity

Ran(t) == turn[t].pc = "run" /\ GenerationsFree

Complete(t) ==
    /\ Ran(t)
    /\ Report(t, TRUE, FALSE, NextSuccess(health[Route(t)], turn[t].ord))
    /\ SetAffinity(t)
    /\ Finish(t)
    /\ UNCHANGED <<registry, moved, orders, inputs>>

\* Mutant: every failure goes on to the next route.
AlwaysRetry(t) ==
    IF Len(turn[t].cands) = 1 THEN Finish(t)
    ELSE turn' = [turn EXCEPT ![t].pc = "next", ![t].cands = Tail(@)]

\* Only an attempt without side effects is repeated elsewhere.
FailOver(t) ==
    IF turn[t].side \/ Len(turn[t].cands) = 1 THEN Finish(t)
    ELSE turn' = [turn EXCEPT ![t].pc = "next", ![t].cands = Tail(@)]

Fail(t, kind, throttled) ==
    /\ Ran(t)
    /\ Report(t, FALSE, throttled, NextFailure(health[Route(t)], turn[t].ord, kind))
    /\ ClearAffinity(t)
    /\ FailOver(t)
    /\ UNCHANGED <<registry, moved, orders, inputs>>

\* The dispatcher records a panicked attempt as unavailable.
Panic(t) ==
    /\ Ran(t)
    /\ \E kind \in Kinds :
           Report(t, FALSE, FALSE, NextFailure(health[Route(t)], turn[t].ord, kind))
    /\ ClearAffinity(t)
    /\ Finish(t)
    /\ UNCHANGED <<registry, moved, orders, inputs>>

\* record_concrete_attempt_outcome: a pinned turn tells the scheduler only.
FinishPinned(t, ok, throttled) ==
    /\ Ran(t)
    /\ Report(t, ok, throttled, health[Route(t)])
    /\ Finish(t)
    /\ UNCHANGED <<registry, threads, orders, inputs>>

\* Cancellation ends every wait and overrides the result of an attempt; an error
\* of the engine itself ends the turn too.  Neither is an outcome of the provider.
Abandon(t) ==
    /\ turn[t].pc \notin {"idle", "ended"}
    /\ Finish(t)
    /\ UNCHANGED <<registry, learned, threads, orders, inputs>>

\* update_thread_row: another model, and no affinity.
SetModel(t) ==
    /\ t \notin moved /\ Input
    /\ moved' = moved \cup {t}
    /\ affinity' = [affinity EXCEPT ![t] = None]
    /\ UNCHANGED <<registry, learned, orders, turn>>

-------------------------------------------------------------------------------
(* Replacing a provider. *)

\* Under the provider's transition lock; only a backend leaves the registry.
Retire(p) ==
    /\ swap[p] = "no" /\ Input
    /\ swap' = [swap EXCEPT ![p] = "held"]
    /\ inst' = IF p \in Backends THEN [inst EXCEPT ![p] = 0] ELSE inst
    /\ UNCHANGED <<defn, gen, saved, learned, threads, orders, turn>>

\* take_route_health, with the generations locked from here on.
TakeHealth(p) ==
    /\ swap[p] = "held" /\ GenerationsFree
    /\ swap' = [swap EXCEPT ![p] = "taken"]
    /\ saved' = [r \in Routes |-> IF r \in Of(p) THEN health[r] ELSE saved[r]]
    /\ health' = [r \in Routes |-> IF r \in Of(p) THEN NoRow ELSE health[r]]
    /\ UNCHANGED <<defn, inst, gen, backoff, taught, quiet, newest, threads, orders, turn,
                   inputs>>

\* reset_provider_outcomes drops the map entry; a turn that sleeps on it keeps it.
ResetOutcomes(p) ==
    /\ backoff' = [backoff EXCEPT ![p] = Fresh]
    /\ quiet' = [quiet EXCEPT ![p] = 0]
    /\ turn' = [t \in Turns |->
                   IF turn[t].pc = "admit" /\ ~turn[t].parted /\ Provider(t) = p
                   THEN [turn[t] EXCEPT !.parted = TRUE, !.left = backoff[p].left]
                   ELSE turn[t]]

Forget(p) == newest' = [r \in Routes |-> IF r \in Of(p) THEN Unreported ELSE newest[r]]

\* The new configuration is promoted, then the generation advances.
PublishConfig(p) ==
    /\ swap[p] = "taken"
    /\ swap' = [swap EXCEPT ![p] = "prepared"]
    /\ defn' = [defn EXCEPT ![p] = @ + 1]
    /\ gen' = [gen EXCEPT ![p] = @ + 1]
    /\ ResetOutcomes(p) /\ Forget(p)
    /\ saved' = [r \in Routes |-> NoRow]
    /\ UNCHANGED <<inst, health, taught, threads, orders, inputs>>

\* restore_route_health
RestoreHealth(p) ==
    health' = [r \in Routes |-> IF r \in Of(p) THEN saved[r] ELSE health[r]]

\* The promotion fails: the old definition is republished with its health.
PublishFails(p) ==
    /\ swap[p] = "taken"
    /\ swap' = [swap EXCEPT ![p] = "prepared"]
    /\ RestoreHealth(p)
    /\ saved' = [r \in Routes |-> NoRow]
    /\ UNCHANGED <<defn, inst, gen, backoff, taught, quiet, newest, threads, orders, turn,
                   inputs>>

\* invalidate_provider_route_state
InvalidateState(p) ==
    /\ health' = [r \in Routes |-> IF r \in Of(p) THEN NoRow ELSE health[r]]
    /\ gen' = [gen EXCEPT ![p] = @ + 1]
    /\ ResetOutcomes(p) /\ Forget(p)

\* A reload, and the rollback of a retirement that failed, publish the same
\* definition again and invalidate what was learned.  A failing invalidation, which is
\* only logged, is left out.
Reload(p) ==
    /\ swap[p] = "held" /\ GenerationsFree
    /\ swap' = [swap EXCEPT ![p] = "prepared"]
    /\ InvalidateState(p)
    /\ UNCHANGED <<defn, inst, saved, taught, threads, orders, inputs>>

\* rebuild_provider_registries_for_ids, and the end of the transition.
Rebuild(p) ==
    /\ swap[p] = "prepared"
    /\ swap' = [swap EXCEPT ![p] = "no"]
    /\ inst' = [inst EXCEPT ![p] = defn[p]]
    /\ UNCHANGED <<defn, gen, saved, learned, threads, orders, turn, inputs>>

\* The process stops and starts: definitions, health and affinities are durable.
Restart ==
    /\ Input
    /\ inst' = defn /\ gen' = [p \in Providers |-> 0] /\ swap' = [p \in Providers |-> "no"]
    /\ saved' = [r \in Routes |-> NoRow]
    /\ backoff' = [p \in Providers |-> Fresh] /\ quiet' = [p \in Providers |-> 0]
    /\ turn' = [t \in Turns |-> IF turn[t].pc = "idle" THEN turn[t] ELSE At("ended")]
    /\ newest' = [r \in Routes |-> IF health[r] = NoRow THEN Unreported ELSE newest[r]]
    /\ UNCHANGED <<defn, health, taught, threads, orders>>

Less(n) == IF n = 0 THEN 0 ELSE n - 1

\* Time passes.
Tick ==
    /\ \/ \E p \in Providers : backoff[p].left > 0
       \/ \E r \in Routes : health[r].left > 0
       \/ \E t \in Turns : turn[t].left > 0
    /\ backoff' = [p \in Providers |-> [backoff[p] EXCEPT !.left = Less(@)]]
    /\ health' = [r \in Routes |-> [health[r] EXCEPT !.left = Less(@)]]
    /\ quiet' = [p \in Providers |-> Less(quiet[p])]
    /\ saved' = [r \in Routes |-> [saved[r] EXCEPT !.left = Less(@)]]
    /\ turn' = [t \in Turns |-> [turn[t] EXCEPT !.left = Less(@)]]
    /\ UNCHANGED <<defn, inst, gen, swap, taught, newest, threads, orders, inputs>>

-------------------------------------------------------------------------------
Find(t) == Discover(t) \/ Rank(t) \/ Select(t) \/ SideEffect(t)
           \/ Complete(t) \/ Panic(t) \/ SetModel(t)
           \/ \E kind \in Kinds, b \in BOOLEAN : Fail(t, kind, b)

Pin(t) == StartPinned(t) \/ Resolve(t) \/ FinishPinned(t, TRUE, FALSE)
          \/ \E b \in BOOLEAN : FinishPinned(t, FALSE, b)

Replace(p) == Retire(p) \/ TakeHealth(p) \/ PublishConfig(p) \/ PublishFails(p)
              \/ Reload(p) \/ Rebuild(p)

Next ==
    \/ \E t \in Automatic : Find(t)
    \/ \E t \in Pinned : Pin(t)
    \/ \E t \in Turns : Admit(t) \/ Abandon(t)
    \/ \E p \in Providers : Replace(p)
    \/ Tick \/ Restart

Spec == Init /\ [][Next]_vars

-------------------------------------------------------------------------------
Row == [fails : Nat, left : Nat, last : Nat]
Candidate == [gen : Nat, defn : Nat, early : BOOLEAN]
Turn(found) == [pc : {"idle", "ranking", "next", "admit", "resolve", "run", "ended"},
                cands : Seq(Routes), snap : [found -> Candidate], ord : Nat,
                parted : BOOLEAN, left : Nat, side : BOOLEAN]

TypeOK ==
    /\ defn \in [Providers -> Nat \ {0}] /\ inst \in [Providers -> Nat]
    /\ gen \in [Providers -> Nat]
    /\ swap \in [Providers -> {"no", "held", "taken", "prepared"}]
    /\ saved \in [Routes -> Row] /\ health \in [Routes -> Row]
    /\ backoff \in [Providers -> [left : Nat, delay : 0..MaxDelay, last : Nat]]
    /\ affinity \in [Automatic -> Routes \cup {None}] /\ moved \subseteq Automatic
    /\ turn = [t \in Turns |-> turn[t]]
    /\ \A t \in Turns : \E found \in SUBSET Routes : turn[t] \in Turn(found)
    /\ taught \in [Routes \cup Providers -> [defn : Nat, early : BOOLEAN]]
    /\ quiet \in [Providers -> Nat] /\ newest \in [Routes -> [ord : Nat, ok : BOOLEAN]]
    /\ orders \in Nat /\ inputs \in 0..MaxInputs

\* The point of provider generations: what is known of a provider and its routes
\* was learned from an instance of its current definition, although attempts on
\* an earlier one may still report.  An automatic turn that takes its candidates
\* between the advance of the generation and the rebuild of the registry is not
\* covered: it pairs the new generation with the old instance.
LearnedFromCurrent ==
    /\ \A r \in Routes : health[r].last # 0 =>
          taught[r].defn = defn[ProviderOf[r]] \/ taught[r].early
    /\ \A p \in Providers : backoff[p].last # 0 =>
          taught[p].defn = defn[p] \/ taught[p].early

\* Turns end out of the order in which they were admitted: a route's circuit is
\* what the newest attempt that has reported made it.
CircuitOfNewest ==
    \A r \in Routes : swap[ProviderOf[r]] # "taken" =>
        /\ health[r].last = newest[r].ord
        /\ IF newest[r].ok THEN health[r].left = 0 /\ health[r].fails = 0
                           ELSE health[r].fails > 0

\* A thread's affinity is to a route of the model it has now.
AffinityOfModel == \A t \in moved : affinity[t] = None

\* A turn whose route failed goes on elsewhere only when nothing it did can be done
\* twice: no attempt begins after one that may have changed something.
NoReplay ==
    [][\A t \in Automatic : turn[t].pc = "admit" /\ turn'[t].pc = "run" =>
          ~turn[t].side]_vars

\* A provider that limits the rate is left alone until the cooldown that its newest
\* outcome asked for is over, whatever else reports meanwhile.  A turn asleep on
\* an entry that a replacement has dropped does not see the new one's cooldown.
CooldownHonoured ==
    [][\A t \in Turns : turn[t].pc = "admit" /\ turn'[t].pc \in {"run", "resolve"} =>
          quiet[Provider(t)] = 0 \/ turn[t].parted]_vars
===============================================================================
