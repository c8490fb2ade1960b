-------------------------- MODULE TurnDispatchProofs --------------------------
(***************************************************************************)
(* For any threads, sessions, prompts, faults, restarts and commands: the  *)
(* announced activity of a session is that of its claims, a session being  *)
(* deleted has none; and of each thread, its turns follow one another in   *)
(* its log, a claimed prompt is in its dispatcher's hands, a consumed one  *)
(* was shown, and a waiting one waits for a reason.                        *)
(*                                                                         *)
(* ClaimInv is about threads and sessions together.  TurnInv(t) is about   *)
(* one thread: every step is a step of one thread t, which leaves the      *)
(* others alone (Elsewhere), or leaves all of them alone (Same), so that   *)
(* each action is proved for t only.  StateInv is the rest of the types:   *)
(* positions, published queues, tokens.                                    *)
(***************************************************************************)
EXTENDS TurnDispatch, FiniteSetTheorems, WellFoundedInduction, TLAPS

\* The types these properties rest on; a dispatcher about to publish a queue
\* knows what it will do next.
ClaimTypes ==
    /\ active \subseteq Threads
    /\ pc \in [Threads -> Places]
    /\ why \in [Threads -> Reasons]
    /\ announced \in [Sessions -> BOOLEAN]
    /\ \A t \in Threads : pc[t] \in {"giveBack", "read", "emit"} => why[t] # "none"

ClaimInv == ClaimTypes /\ ActivityAgrees /\ DeletionExcludesTurns

\* A step that leaves claims, announcements and dispatchers alone.
LEMMA FrameStep ==
    ASSUME ClaimInv, UNCHANGED <<active, announced, gone, deleting, pc, why>>
    PROVE  ClaimInv'
BY DEF ClaimInv, ClaimTypes, ActivityAgrees, DeletionExcludesTurns, SessionBusy, Usable

\* A dispatcher that owns its thread moves on to another place of drain_queue.
LEMMA MoveStep ==
    ASSUME ClaimInv, NEW t \in Threads, NEW there \in Places \ {"none"},
           pc[t] # "none", Goto(t, there),
           why' \in [Threads -> Reasons],
           \A u \in Threads : u # t => why'[u] = why[u],
           there \in {"giveBack", "read", "emit"} => why'[t] # "none",
           UNCHANGED <<active, announced, gone, deleting>>
    PROVE  ClaimInv'
<1>1. ClaimTypes' BY DEF ClaimInv, ClaimTypes, Goto
<1>2. ActivityAgrees'
  BY DEF ClaimInv, ClaimTypes, ActivityAgrees, SessionBusy, Goto
<1>3. DeletionExcludesTurns' BY DEF ClaimInv, DeletionExcludesTurns, Usable
<1> QED BY <1>1, <1>2, <1>3 DEF ClaimInv

\* A command claims an idle thread of a session that is not being deleted.
LEMMA EnterStep ==
    ASSUME ClaimInv, NEW t \in Threads, NEW there \in Places \ {"none"},
           Usable(t), Goto(t, there), Announce(t),
           there \notin {"giveBack", "read", "emit"},
           active' = active \cup {t},
           UNCHANGED <<gone, deleting, why>>
    PROVE  ClaimInv'
<1> USE ShapeAssumption
<1>1. ClaimTypes' BY DEF ClaimInv, ClaimTypes, Goto, Announce
<1>2. ASSUME NEW u \in Threads PROVE (u \in active <=> pc[u] # "none")'
  BY DEF ClaimInv, ClaimTypes, ActivityAgrees, Goto
<1>3. ASSUME NEW s \in Sessions PROVE (announced[s] <=> SessionBusy(s))'
  <2>1. CASE s = SessionOf[t]
    <3>1. SessionBusy(s)' BY <2>1 DEF SessionBusy
    <3>2. announced'[s] = TRUE
      BY <2>1 DEF Announce, ClaimInv, ClaimTypes, ActivityAgrees
    <3> QED BY <3>1, <3>2
  <2>2. CASE s # SessionOf[t]
    <3>1. announced'[s] = announced[s] BY <2>2 DEF Announce, ClaimInv, ClaimTypes
    <3>2. SessionBusy(s)' <=> SessionBusy(s) BY <2>2 DEF SessionBusy
    <3> QED BY <3>1, <3>2 DEF ClaimInv, ActivityAgrees
  <2> QED BY <2>1, <2>2
<1>4. DeletionExcludesTurns' BY DEF ClaimInv, DeletionExcludesTurns, Usable
<1> QED BY <1>1, <1>2, <1>3, <1>4 DEF ClaimInv, ActivityAgrees

\* remove_thread_claim and publish_idle_or_restore.
LEMMA LeaveStep ==
    ASSUME ClaimInv, NEW t \in Threads, NEW spent, pc[t] # "none",
           LeaveThread(t, spent), UNCHANGED <<gone, deleting, why>>
    PROVE  ClaimInv'
<1> USE ShapeAssumption
<1>1. CASE \E u \in active \ {t} : SessionOf[u] = SessionOf[t]
  <2>1. active' = active \ {t} /\ announced' = announced /\ Goto(t, "none")
    BY <1>1 DEF LeaveThread, EndTask
  <2>2. ClaimTypes' BY <2>1 DEF ClaimInv, ClaimTypes, Goto, Places
  <2>3. \A u \in Threads : u \in active' <=> pc'[u] # "none"
    BY <2>1 DEF ClaimInv, ClaimTypes, ActivityAgrees, Goto
  <2>4. ASSUME NEW s \in Sessions PROVE SessionBusy(s)' <=> SessionBusy(s)
    BY <1>1, <2>1 DEF SessionBusy
  <2>5. DeletionExcludesTurns' BY <2>1 DEF ClaimInv, DeletionExcludesTurns, Usable
  <2> QED BY <2>1, <2>2, <2>3, <2>4, <2>5 DEF ClaimInv, ActivityAgrees
<1>2. CASE \A u \in active \ {t} : SessionOf[u] # SessionOf[t]
  <2>1. CASE /\ active' = active \ {t} /\ Goto(t, "none")
             /\ announced' = [announced EXCEPT ![SessionOf[t]] = FALSE]
    <3>2. ClaimTypes' BY <2>1 DEF ClaimInv, ClaimTypes, Goto, Places
    <3>3. \A u \in Threads : u \in active' <=> pc'[u] # "none"
      BY <2>1 DEF ClaimInv, ClaimTypes, ActivityAgrees, Goto
    <3>4. ASSUME NEW s \in Sessions PROVE announced'[s] <=> SessionBusy(s)'
      <4>1. CASE s = SessionOf[t]
        <5>1. ~SessionBusy(s)' BY <1>2, <2>1, <4>1 DEF SessionBusy
        <5>2. announced'[s] = FALSE BY <2>1, <4>1 DEF ClaimInv, ClaimTypes
        <5> QED BY <5>1, <5>2
      <4>2. CASE s # SessionOf[t]
        <5>1. SessionBusy(s)' <=> SessionBusy(s) BY <2>1, <4>2 DEF SessionBusy
        <5>2. announced'[s] = announced[s] BY <2>1, <4>2 DEF ClaimInv, ClaimTypes
        <5> QED BY <5>1, <5>2 DEF ClaimInv, ActivityAgrees
      <4> QED BY <4>1, <4>2
    <3>5. DeletionExcludesTurns' BY <2>1 DEF ClaimInv, DeletionExcludesTurns, Usable
    <3> QED BY <3>2, <3>3, <3>4, <3>5 DEF ClaimInv, ActivityAgrees
  <2>2. CASE active' = active \cup {t} /\ Goto(t, "stuck") /\ announced' = announced
    <3>1. t \in active BY DEF ClaimInv, ActivityAgrees
    <3>2. active' = active BY <2>2, <3>1
    <3> QED BY <2>2, <3>2, MoveStep DEF Places, ClaimInv, ClaimTypes
  <2>3. \/ /\ active' = active \ {t} /\ Goto(t, "none")
           /\ announced' = [announced EXCEPT ![SessionOf[t]] = FALSE]
        \/ active' = active \cup {t} /\ Goto(t, "stuck") /\ announced' = announced
    BY <1>2 DEF LeaveThread, EndTask
  <2> QED BY <2>1, <2>2, <2>3
<1> QED BY <1>1, <1>2

-------------------------------------------------------------------------------
(* The commands. *)

\* The commands about one prompt keep claims and announcements together.
LEMMA PromptCommandStep ==
    ASSUME ClaimInv, NEW p \in Prompts, PromptCommand(p)
    PROVE  ClaimInv'
<1> DEFINE t == ThreadOf[p]
<1>0. t \in Threads BY ShapeAssumption
<1>1. CASE SendQueued(p)
  BY <1>1, FrameStep DEF SendQueued, sessionVars, taskVars
<1>2. CASE SendQueuedFails(p)
  BY <1>2, FrameStep DEF SendQueuedFails, sessionVars, taskVars
<1>3. CASE SendStarts(p)
  <2>1. /\ Usable(t) /\ active' = active \cup {t} /\ Announce(t) /\ Goto(t, "waiting")
        /\ UNCHANGED <<gone, deleting, why>>
    BY <1>3 DEF SendStarts
  <2> QED BY <2>1, <1>0, EnterStep DEF Places
<1>4. CASE SendStartFails(p)
  BY <1>4, FrameStep DEF SendStartFails, sessionVars, taskVars
<1>5. CASE DispatchPromptIdle(p)
  <2>1. Usable(t) /\ t \notin active BY <1>5 DEF DispatchPromptIdle
  <2>2. CASE \E at \in Prioritized(p) : Launch(t, p, at)
    <3>1. /\ active' = active \cup {t} /\ Announce(t) /\ Goto(t, "start")
          /\ UNCHANGED <<gone, deleting, why>>
      BY <2>2 DEF Launch
    <3> QED BY <2>1, <3>1, <1>0, EnterStep DEF Places
  <2>3. CASE \E at \in Prioritized(p), f \in Orders(Visible(t)) :
               LaunchFails(t, p, at, Renumber(f))
    <3>1. /\ UNCHANGED <<gone, deleting, why>>
          /\ \/ UNCHANGED <<active, announced, pc>>
             \/ active' = active \cup {t} /\ Announce(t) /\ Goto(t, "stuck")
      BY <2>3 DEF LaunchFails, sessionVars
    <3>2. CASE UNCHANGED <<active, announced, pc>> BY <3>1, <3>2, FrameStep
    <3>3. CASE active' = active \cup {t} /\ Announce(t) /\ Goto(t, "stuck")
      BY <2>1, <3>1, <3>3, <1>0, EnterStep DEF Places
    <3> QED BY <3>1, <3>2, <3>3
  <2> QED BY <1>5, <2>2, <2>3 DEF DispatchPromptIdle
<1>6. CASE DispatchPromptRunning(p)
  BY <1>6, FrameStep DEF DispatchPromptRunning, sessionVars, taskVars
<1>7. CASE DispatchPromptRunningFails(p)
  BY <1>7, FrameStep DEF DispatchPromptRunningFails, sessionVars, taskVars
<1> QED BY <1>1, <1>2, <1>3, <1>4, <1>5, <1>6, <1>7 DEF PromptCommand

\* So do the commands about one thread ...
LEMMA ThreadCommandStep ==
    ASSUME ClaimInv, NEW t \in Threads, ThreadCommand(t)
    PROVE  ClaimInv'
<1>1. CASE DispatchQueueIdle(t)
  <2>1. Usable(t) /\ t \notin active BY <1>1 DEF DispatchQueueIdle
  <2>2. PICK p \in Fronts(t) : Launch(t, p, pos) \/ LaunchFails(t, p, pos, pos)
    BY <1>1 DEF DispatchQueueIdle
  <2>3. CASE Launch(t, p, pos)
    <3>1. /\ active' = active \cup {t} /\ Announce(t) /\ Goto(t, "start")
          /\ UNCHANGED <<gone, deleting, why>>
      BY <2>3 DEF Launch
    <3> QED BY <2>1, <3>1, EnterStep DEF Places
  <2>4. CASE LaunchFails(t, p, pos, pos)
    <3>1. /\ UNCHANGED <<gone, deleting, why>>
          /\ \/ UNCHANGED <<active, announced, pc>>
             \/ active' = active \cup {t} /\ Announce(t) /\ Goto(t, "stuck")
      BY <2>4 DEF LaunchFails, sessionVars
    <3>2. CASE UNCHANGED <<active, announced, pc>> BY <3>1, <3>2, FrameStep
    <3>3. CASE active' = active \cup {t} /\ Announce(t) /\ Goto(t, "stuck")
      BY <2>1, <3>1, <3>3, EnterStep DEF Places
    <3> QED BY <3>1, <3>2, <3>3
  <2> QED BY <2>2, <2>3, <2>4
<1>2. CASE DispatchQueueRunning(t)
  BY <1>2, FrameStep DEF DispatchQueueRunning, sessionVars, taskVars
<1>3. CASE TripLate(t)
  BY <1>3, FrameStep DEF TripLate, sessionVars, taskVars
<1>4. CASE CancelTurn(t)
  BY <1>4, FrameStep DEF CancelTurn, sessionVars, taskVars
<1>5. CASE EditQueue(t)
  BY <1>5, FrameStep DEF EditQueue, sessionVars, taskVars
<1> QED BY <1>1, <1>2, <1>3, <1>4, <1>5 DEF ThreadCommand

-------------------------------------------------------------------------------
(* The dispatcher's steps. *)

\* The steps that move a dispatcher without a change of its publication's reason.
LEMMA PlainMove ==
    ASSUME ClaimInv, NEW t \in Threads, NEW there \in Places \ {"none"},
           pc[t] # "none", Goto(t, there), UNCHANGED <<active, announced, gone, deleting, why>>,
           there \in {"giveBack", "read", "emit"} => why[t] # "none"
    PROVE  ClaimInv'
BY MoveStep DEF ClaimInv, ClaimTypes

\* ... the steps of a turn ...
LEMMA TurnStep ==
    ASSUME ClaimInv, NEW t \in Threads,
           \/ PersistShell(t) \/ Consume(t) \/ Conclude(t) \/ Complete(t)
           \/ StopOnCancel(t) \/ EndBadly(t)
    PROVE  ClaimInv'
<1> USE DEF At, Places, sessionVars, others
<1>1. CASE PersistShell(t)
  <2>1. pc[t] # "none" /\ Goto(t, "waiting") /\ UNCHANGED <<active, announced, gone, deleting, why>>
    BY <1>1 DEF PersistShell
  <2> QED BY <2>1, PlainMove
<1>2. CASE Consume(t)
  <2>1. pc[t] # "none" /\ UNCHANGED <<active, announced, gone, deleting>>
    BY <1>2 DEF Consume
  <2>2. CASE t \in Routed
    <3>1. Goto(t, "read") /\ why' = [why EXCEPT ![t] = "routed"] BY <1>2, <2>2 DEF Consume
    <3> QED BY <2>1, <3>1, MoveStep DEF ClaimInv, ClaimTypes, Reasons
  <2>3. CASE t \notin Routed
    <3>1. Goto(t, "running") /\ UNCHANGED why BY <1>2, <2>3 DEF Consume
    <3> QED BY <2>1, <3>1, PlainMove
  <2> QED BY <2>2, <2>3
<1>3. CASE Conclude(t)
  <2>1. pc[t] # "none" /\ Goto(t, "completing") /\ UNCHANGED <<active, announced, gone, deleting, why>>
    BY <1>3 DEF Conclude
  <2> QED BY <2>1, PlainMove
<1>4. CASE Complete(t)
  <2>1. pc[t] # "none" /\ Goto(t, "okay") /\ UNCHANGED <<active, announced, gone, deleting, why>>
    BY <1>4 DEF Complete
  <2> QED BY <2>1, PlainMove
<1>5. CASE StopOnCancel(t)
  <2>1. pc[t] # "none" /\ Goto(t, "okay") /\ UNCHANGED <<active, announced, gone, deleting, why>>
    BY <1>5 DEF StopOnCancel
  <2> QED BY <2>1, PlainMove
<1>6. CASE EndBadly(t)
  <2>1. /\ pc[t] # "none"
        /\ Goto(t, "erred") \/ Goto(t, "panicked")
        /\ UNCHANGED <<active, announced, gone, deleting, why>>
    BY <1>6 DEF EndBadly, InTurn
  <2>2. CASE Goto(t, "erred") BY <2>1, <2>2, PlainMove
  <2>3. CASE Goto(t, "panicked") BY <2>1, <2>3, PlainMove
  <2> QED BY <2>1, <2>2, <2>3
<1> QED BY <1>1, <1>2, <1>3, <1>4, <1>5, <1>6

\* ... and of its settlement.
LEMMA SettleStep ==
    ASSUME ClaimInv, NEW t \in Threads, Settle(t)
    PROVE  ClaimInv'
<1> USE DEF At, Places, sessionVars, others, Returned
<1>1. CASE SettleCancelled(t)
  <2>1. pc[t] # "none" /\ Goto(t, "cancelling") /\ UNCHANGED <<active, announced, gone, deleting, why>>
    BY <1>1 DEF SettleCancelled
  <2> QED BY <2>1, PlainMove
<1>2. CASE RecordCancelled(t)
  <2>1. pc[t] # "none" /\ Goto(t, "interrupted") /\ UNCHANGED <<active, announced, gone, deleting, why>>
    BY <1>2 DEF RecordCancelled
  <2> QED BY <2>1, PlainMove
<1>3. CASE SettleFailed(t)
  <2>1. /\ pc[t] # "none" /\ Goto(t, "giveBack") /\ why' = [why EXCEPT ![t] = "failed"]
        /\ UNCHANGED <<active, announced, gone, deleting>>
    BY <1>3 DEF SettleFailed
  <2> QED BY <2>1, MoveStep DEF ClaimInv, ClaimTypes, Reasons
<1>4. CASE SettlePanic(t)
  <2>1. /\ pc[t] # "none" /\ Goto(t, "giveBack") /\ why' = [why EXCEPT ![t] = "panicked"]
        /\ UNCHANGED <<active, announced, gone, deleting>>
    BY <1>4 DEF SettlePanic
  <2> QED BY <2>1, MoveStep DEF ClaimInv, ClaimTypes, Reasons
<1>5. CASE SettleCompleted(t)
  <2>1. pc[t] # "none" /\ Goto(t, "next") /\ UNCHANGED <<active, announced, gone, deleting, why>>
    BY <1>5 DEF SettleCompleted
  <2> QED BY <2>1, PlainMove
<1>6. CASE SettleFails(t)
  <2>1. pc[t] # "none" /\ Goto(t, "stuck") /\ UNCHANGED <<active, announced, gone, deleting, why>>
    BY <1>6 DEF SettleFails
  <2> QED BY <2>1, PlainMove
<1>7. CASE GiveBack(t)
  <2>1. /\ pc[t] = "giveBack" /\ Goto(t, "read")
        /\ UNCHANGED <<active, announced, gone, deleting, why>>
    BY <1>7 DEF GiveBack
  <2>2. why[t] # "none" BY <2>1 DEF ClaimInv, ClaimTypes
  <2> QED BY <2>1, <2>2, PlainMove
<1>8. CASE ReadQueue(t)
  <2>1. /\ pc[t] = "read" /\ Goto(t, "emit")
        /\ UNCHANGED <<active, announced, gone, deleting, why>>
    BY <1>8 DEF ReadQueue
  <2>2. why[t] # "none" BY <2>1 DEF ClaimInv, ClaimTypes
  <2> QED BY <2>1, <2>2, PlainMove
<1>9. CASE EmitQueue(t)
  <2>1. pc[t] = "emit" /\ UNCHANGED <<active, announced, gone, deleting, why>>
    BY <1>9 DEF EmitQueue
  <2>2. why[t] \in Reasons \ {"none"} BY <2>1 DEF ClaimInv, ClaimTypes
  <2>3. AfterEmit[why[t]] \in {"interrupted", "clearing", "releasing", "numbering", "running"}
    BY <2>2 DEF AfterEmit, Reasons
  <2>4. Goto(t, AfterEmit[why[t]]) \/ Goto(t, "erred")
    BY <1>9 DEF EmitQueue
  <2>5. CASE Goto(t, AfterEmit[why[t]]) BY <2>1, <2>3, <2>5, PlainMove
  <2>6. CASE Goto(t, "erred") BY <2>1, <2>6, PlainMove
  <2> QED BY <2>4, <2>5, <2>6
<1>10. CASE ClearAfterPanic(t)
  <2>1. pc[t] # "none" /\ Goto(t, "releasing") /\ UNCHANGED <<active, announced, gone, deleting, why>>
    BY <1>10 DEF ClearAfterPanic
  <2> QED BY <2>1, PlainMove
<1>11. CASE ReleaseThread(t)
  BY <1>11, LeaveStep DEF ReleaseThread
<1>12. CASE FinishInterrupted(t)
  <2>1. pc[t] # "none" /\ UNCHANGED <<gone, deleting, why>> BY <1>12 DEF FinishInterrupted
  <2>2. CASE t \in resume
    <3>1. Goto(t, "resumed") /\ UNCHANGED <<active, announced>>
      BY <1>12, <2>2 DEF FinishInterrupted
    <3> QED BY <2>1, <3>1, PlainMove
  <2>3. CASE t \notin resume
    <3>1. LeaveThread(t, 0) BY <1>12, <2>3 DEF FinishInterrupted
    <3> QED BY <2>1, <3>1, LeaveStep
  <2> QED BY <2>2, <2>3
<1>13. CASE ClaimNext(t)
  <2>1. /\ pc[t] # "none" /\ Goto(t, "read") /\ why' = [why EXCEPT ![t] = "claimed"]
        /\ UNCHANGED <<active, announced, gone, deleting>>
    BY <1>13 DEF ClaimNext
  <2> QED BY <2>1, MoveStep DEF ClaimInv, ClaimTypes, Reasons
<1>14. CASE NothingNext(t)
  <2>1. pc[t] # "none" /\ UNCHANGED <<gone, deleting, why>> BY <1>14 DEF NothingNext
  <2>2. PICK spent \in {0, 1} : LeaveThread(t, spent) BY <1>14 DEF NothingNext
  <2> QED BY <2>1, <2>2, LeaveStep
<1>15. CASE NumberTurn(t)
  <2>1. pc[t] # "none" /\ UNCHANGED <<active, announced, gone, deleting>>
    BY <1>15 DEF NumberTurn
  <2>2. \/ Goto(t, "start") /\ UNCHANGED why
        \/ Goto(t, "giveBack") /\ why' = [why EXCEPT ![t] = "unnumbered"]
    BY <1>15 DEF NumberTurn
  <2>3. CASE Goto(t, "start") /\ UNCHANGED why BY <2>1, <2>3, PlainMove
  <2>4. CASE Goto(t, "giveBack") /\ why' = [why EXCEPT ![t] = "unnumbered"]
    BY <2>1, <2>4, MoveStep DEF ClaimInv, ClaimTypes, Reasons
  <2> QED BY <2>2, <2>3, <2>4
<1> QED BY <1>1, <1>2, <1>3, <1>4, <1>5, <1>6, <1>7, <1>8, <1>9, <1>10, <1>11, <1>12,
           <1>13, <1>14, <1>15 DEF Settle

-------------------------------------------------------------------------------
(* Deletion, restart and the theorems. *)

\* delete_session marks a session only when none of its threads is claimed.
LEMMA DeleteStep ==
    ASSUME ClaimInv, NEW s \in Sessions, BeginDelete(s) \/ EndDelete(s)
    PROVE  ClaimInv'
<1>1. UNCHANGED <<active, announced, pc, why>>
  BY DEF BeginDelete, EndDelete, sessionVars, taskVars
<1>2. ClaimTypes' /\ ActivityAgrees'
  BY <1>1 DEF ClaimInv, ClaimTypes, ActivityAgrees, SessionBusy
<1>3. ASSUME NEW t \in active PROVE SessionOf[t] \notin (gone \cup deleting)'
  <2>1. SessionOf[t] \notin gone \cup deleting BY DEF ClaimInv, DeletionExcludesTurns, Usable
  <2>2. CASE BeginDelete(s) BY <2>1, <2>2 DEF BeginDelete, SessionBusy
  <2>3. CASE EndDelete(s) BY <2>1, <2>3 DEF EndDelete
  <2> QED BY <2>2, <2>3
<1> QED BY <1>1, <1>2, <1>3 DEF ClaimInv, DeletionExcludesTurns, Usable

\* After a restart nothing is claimed and no session announced.
LEMMA CrashStep == ASSUME ClaimInv, Crash PROVE ClaimInv'
<1>1. /\ active' = {} /\ announced' = [s \in Sessions |-> FALSE]
      /\ pc' = [t \in Threads |-> "none"] /\ why' = [t \in Threads |-> "none"]
  BY DEF Crash
<1>2. ClaimTypes' BY <1>1 DEF ClaimTypes, Places, Reasons
<1>3. ActivityAgrees' BY <1>1 DEF ActivityAgrees, SessionBusy
<1>4. DeletionExcludesTurns' BY <1>1 DEF DeletionExcludesTurns
<1> QED BY <1>2, <1>3, <1>4 DEF ClaimInv

\* ClaimInv holds at the start ...
LEMMA InitClaims == Init => ClaimInv
<1> SUFFICES ASSUME Init PROVE ClaimInv OBVIOUS
<1>1. ClaimTypes BY DEF Init, ClaimTypes, Places, Reasons
<1>2. ActivityAgrees BY DEF Init, ActivityAgrees, SessionBusy
<1>3. DeletionExcludesTurns BY DEF Init, DeletionExcludesTurns
<1> QED BY <1>1, <1>2, <1>3 DEF ClaimInv

\* ... and is kept by every step.
LEMMA NextClaims == ClaimInv /\ [Next]_vars => ClaimInv'
<1> SUFFICES ASSUME ClaimInv, [Next]_vars PROVE ClaimInv' OBVIOUS
<1>1. CASE \E p \in Prompts : PromptCommand(p) BY <1>1, PromptCommandStep
<1>2. CASE \E t \in Threads : ThreadCommand(t) BY <1>2, ThreadCommandStep
<1>3. CASE \E t \in Threads : Task(t) BY <1>3, TurnStep, SettleStep DEF Task
<1>4. CASE \E s \in Sessions : BeginDelete(s) \/ EndDelete(s) BY <1>4, DeleteStep
<1>5. CASE Crash BY <1>5, CrashStep
<1>6. CASE UNCHANGED vars BY <1>6, FrameStep DEF vars, sessionVars, taskVars
<1> QED BY <1>1, <1>2, <1>3, <1>4, <1>5, <1>6 DEF Next

\* What session.activity events say of a session is what its claims are, whatever
\* the commands, interleavings, store faults and restarts (publish_idle_or_restore,
\* launch_claimed_prompt, recover_interrupted_session_summaries).
THEOREM ActivityAgreesAlways == Spec => []ActivityAgrees
<1>1. ClaimInv => ActivityAgrees BY DEF ClaimInv
<1> QED BY <1>1, InitClaims, NextClaims, PTL DEF Spec

\* No dispatcher owns a thread of a session that is deleted or marked for deletion
\* (delete_session against every dispatch path).
THEOREM DeletionIsExclusive == Spec => []DeletionExcludesTurns
<1>1. ClaimInv => DeletionExcludesTurns BY DEF ClaimInv
<1> QED BY <1>1, InitClaims, NextClaims, PTL DEF Spec

-------------------------------------------------------------------------------
(* The turns of a thread's log. *)

\* The log l of a thread whose newest turn is n: turns in order, and nothing after
\* the terminal event of one but the cancellation of a completed one.
InTurns(l, n) ==
    /\ \A i \in 1 .. Len(l) : l[i].turn <= n
    /\ \A i, j \in 1 .. Len(l) : i < j =>
           /\ l[i].turn <= l[j].turn
           /\ l[i].turn = l[j].turn =>
                  /\ l[j].ev # "started"
                  /\ l[i].ev = "started" \/ (l[i].ev = "completed" /\ l[j].ev = "cancelled")

\* Turn n has no event, no terminal event, none that excludes a cancellation.
NotBegun(l, n) == \A i \in 1 .. Len(l) : l[i].turn # n
OnlyStarted(l, n) == \A i \in 1 .. Len(l) : l[i].turn = n => l[i].ev = "started"
Cancellable(l, n) ==
    \A i \in 1 .. Len(l) : l[i].turn = n => l[i].ev \in {"started", "completed"}

\* Every turn below n (up to n) that was started has ended.
EndedAfter(l, i) == \E k \in i .. Len(l) : l[k].turn = l[i].turn /\ l[k].ev # "started"
EndedBelow(l, n) ==
    \A i \in 1 .. Len(l) : l[i].ev = "started" /\ l[i].turn # n => EndedAfter(l, i)
AllEnded(l) == \A i \in 1 .. Len(l) : l[i].ev = "started" => EndedAfter(l, i)

\* Where the dispatcher runs turn lastTurn, and where that turn is over.
Publishing(t) == pc[t] \in {"read", "emit"}
Working(t) == \/ pc[t] \in {"waiting", "running", "completing", "erred", "panicked"}
              \/ Publishing(t) /\ why[t] = "routed"
Over(t) == \/ pc[t] \in {"none", "giveBack", "interrupted", "clearing", "releasing", "next",
                         "resumed", "numbering"}
           \/ Publishing(t) /\ why[t] # "routed"

LogInv(t) ==
    /\ InTurns(log[t], lastTurn[t]) /\ EndedBelow(log[t], lastTurn[t])
    /\ pc[t] = "start" => NotBegun(log[t], lastTurn[t]) /\ ~shell[t]
    /\ Working(t) => OnlyStarted(log[t], lastTurn[t])
    /\ pc[t] = "okay" => /\ Cancellable(log[t], lastTurn[t])
                         /\ Cancelled(t) \/ AllEnded(log[t])
    /\ pc[t] = "cancelling" => Cancellable(log[t], lastTurn[t])
    /\ (Working(t) \/ pc[t] \in {"okay", "cancelling"}) /\ ~shell[t] =>
           NotBegun(log[t], lastTurn[t])
    /\ Over(t) => AllEnded(log[t])

\* A claimed prompt is the one in the hands of its thread's dispatcher.
Holding(t) == \/ pc[t] \in {"start", "waiting", "erred", "panicked", "giveBack", "numbering",
                            "stuck"}
              \/ Publishing(t) /\ why[t] = "claimed"
              \/ pc[t] = "okay" /\ Cancelled(t)
HoldInv(t) ==
    ("row" \in FaultKinds => budget.faults = 0) =>
        \A p \in Prompts : ThreadOf[p] = t /\ row[p] = "claimed" => cur[t] = p /\ Holding(t)

\* What is shown of the prompt a dispatcher holds.
Showing(t) == Working(t) \/ pc[t] \in {"okay", "cancelling"}
ShownIn(l, p) == \E i \in 1 .. Len(l) : l[i].ev = "started" /\ l[i].prompt = p
ShowInv(t) ==
    /\ pc[t] \in {"waiting", "running", "completing"} \/ (Publishing(t) /\ why[t] = "routed")
           => shell[t]
    /\ Showing(t) /\ shell[t] => ShownIn(log[t], cur[t])
    /\ Undisturbed => \A p \in Prompts : ThreadOf[p] = t /\ row[p] = "done" =>
           ShownIn(log[t], p) \/ (pc[t] = "cancelling" /\ cur[t] = p)

\* An interrupted turn is the last of the log until its dispatcher has left or goes on.
Interrupted(l) == l # <<>> /\ l[Len(l)].ev \in {"failed", "cancelled"}
Leaving(t) == \/ pc[t] \in {"giveBack", "interrupted", "clearing", "releasing"}
              \/ Publishing(t) /\ why[t] \in {"failed", "panicked", "unnumbered"}
PauseInv(t) ==
    (Undisturbed /\ (Leaving(t) \/ (pc[t] = "none" /\ Visible(t) # {})))
        => Interrupted(log[t])

\* A follow-up that saw the newest token tripped has its marker, until the dispatcher
\* has acted on it.
Heard(t) == t \in resume \/ pc[t] = "resumed"
            \/ (pc[t] \in {"releasing", "none"} /\ why[t] = "panicked")
PromiseInv(t) ==
    /\ token[t] \in {0, minted[t]}
    /\ Undisturbed /\ pc[t] \in {"none", "resumed", "releasing"} =>
           token[t] = 0 /\ t \notin resume
    /\ Undisturbed => \A p \in Prompts : ThreadOf[p] = t =>
           /\ promised[p] <= minted[t]
           /\ row[p] = "unsent" => promised[p] = 0
           /\ row[p] = "claimed" => promised[p] < minted[t]
           /\ row[p] = "queued" /\ promised[p] # 0 /\ promised[p] = minted[t] => Heard(t)

HasPrompt(t) == pc[t] \in {"start", "waiting", "running", "completing", "okay", "erred",
                           "panicked", "cancelling", "giveBack", "read", "emit", "numbering"}
CurInv(t) == HasPrompt(t) => cur[t] \in Prompts /\ ThreadOf[cur[t]] = t

\* What the dispatcher knows of how it came where it is.
PathInv(t) ==
    /\ pc[t] = "giveBack" => why[t] \in {"failed", "panicked", "unnumbered"}
    /\ pc[t] = "clearing" => why[t] = "panicked"
    /\ Undisturbed => why[t] # "unnumbered"
    /\ pc[t] \in {"numbering", "start"} \/ (Publishing(t) /\ why[t] = "claimed") => ~shell[t]


\* What is appended to a log.
Entry == [ev : Kinds, turn : Nat, prompt : Prompts \cup {NoPrompt}]

\* What is known of the entries of a log.
LEMMA Entries ==
    ASSUME NEW l \in Seq(Entry)
    PROVE  Len(l) \in Nat /\ \A i \in 1 .. Len(l) : l[i] \in Entry /\ l[i].turn \in Nat
<1>1. Len(l) \in Nat /\ \A i \in 1 .. Len(l) : l[i] \in Entry
  OBVIOUS
<1> QED BY <1>1 DEF Entry

\* What Append does to a log.
LEMMA Appended ==
    ASSUME NEW l \in Seq(Entry), NEW e \in Entry
    PROVE  /\ Append(l, e) \in Seq(Entry) /\ Len(l) \in Nat /\ Len(Append(l, e)) = Len(l) + 1
           /\ Append(l, e) # <<>>
           /\ \A i \in 1 .. Len(l) : Append(l, e)[i] = l[i] /\ l[i].turn \in Nat
           /\ Append(l, e)[Len(l) + 1] = e
<1>1. Append(l, e) \in Seq(Entry) /\ Len(l) \in Nat /\ Len(Append(l, e)) = Len(l) + 1
  OBVIOUS
<1>2. \A i \in 1 .. Len(l) : Append(l, e)[i] = l[i] /\ l[i] \in Entry
  OBVIOUS
<1>3. Append(l, e)[Len(l) + 1] = e /\ Append(l, e) # <<>>
  OBVIOUS
<1> QED BY <1>1, <1>2, <1>3 DEF Entry

\* A turn that has ended stays so, and a prompt that was shown.
LEMMA LogGrows ==
    ASSUME NEW l \in Seq(Entry), NEW e \in Entry
    PROVE  /\ \A i \in 1 .. Len(l) : EndedAfter(l, i) => EndedAfter(Append(l, e), i)
           /\ \A p : ShownIn(l, p) => ShownIn(Append(l, e), p)
<1> DEFINE m == Append(l, e)
<1>1. /\ Len(l) \in Nat /\ Len(m) = Len(l) + 1
      /\ \A i \in 1 .. Len(l) : m[i] = l[i]
  BY Appended
<1> HIDE DEF m
<1>2. ASSUME NEW i \in 1 .. Len(l), EndedAfter(l, i) PROVE EndedAfter(m, i)
  <2>1. PICK k \in i .. Len(l) : l[k].turn = l[i].turn /\ l[k].ev # "started"
    BY <1>2 DEF EndedAfter
  <2>2. k \in i .. Len(m) /\ k \in 1 .. Len(l)
    BY <1>1
  <2>3. m[k].turn = m[i].turn /\ m[k].ev # "started"
    BY <1>1, <2>1, <2>2
  <2> QED BY <2>2, <2>3 DEF EndedAfter
<1>3. ASSUME NEW p, ShownIn(l, p) PROVE ShownIn(m, p)
  <2>1. PICK i \in 1 .. Len(l) : l[i].ev = "started" /\ l[i].prompt = p
    BY <1>3 DEF ShownIn
  <2>2. i \in 1 .. Len(m) /\ m[i] = l[i]
    BY <1>1
  <2> QED BY <2>1, <2>2 DEF ShownIn
<1> QED BY <1>2, <1>3 DEF m

\* The shell of turn n is the first of its events.
LEMMA TurnStarts ==
    ASSUME NEW l \in Seq(Entry), NEW e \in Entry, NEW n \in Nat, e.turn = n, e.ev = "started",
           InTurns(l, n), EndedBelow(l, n), NotBegun(l, n)
    PROVE  /\ InTurns(Append(l, e), n) /\ EndedBelow(Append(l, e), n)
           /\ OnlyStarted(Append(l, e), n) /\ ShownIn(Append(l, e), e.prompt)
<1> DEFINE m == Append(l, e)
<1>1. /\ Len(l) \in Nat /\ Len(m) = Len(l) + 1
      /\ \A i \in 1 .. Len(l) : m[i] = l[i] /\ l[i].turn \in Nat
      /\ m[Len(l) + 1] = e
      /\ \A i \in 1 .. Len(l) : EndedAfter(l, i) => EndedAfter(m, i)
  BY Appended, LogGrows
<1> HIDE DEF m
<1>2. \A i \in 1 .. Len(m) : i \in 1 .. Len(l) \/ i = Len(l) + 1
  BY <1>1
<1>3. \A i \in 1 .. Len(l) : l[i].turn < n
  BY <1>1 DEF InTurns, NotBegun
<1>4. InTurns(m, n)
  <2>1. \A i \in 1 .. Len(m) : m[i].turn <= n
    BY <1>1, <1>2, <1>3
  <2>2. ASSUME NEW i \in 1 .. Len(m), NEW j \in 1 .. Len(m), i < j
        PROVE  /\ m[i].turn <= m[j].turn
               /\ m[i].turn = m[j].turn =>
                      /\ m[j].ev # "started"
                      /\ m[i].ev = "started" \/ (m[i].ev = "completed" /\ m[j].ev = "cancelled")
    <3>1. i \in 1 .. Len(l)
      BY <1>1, <2>2
    <3>2. CASE j \in 1 .. Len(l)
      BY <1>1, <2>2, <3>1, <3>2 DEF InTurns
    <3>3. CASE j = Len(l) + 1
      BY <1>1, <1>3, <3>1, <3>3
    <3> QED BY <1>2, <3>2, <3>3
  <2> QED BY <2>1, <2>2 DEF InTurns
<1>5. EndedBelow(m, n)
  BY <1>1, <1>2 DEF EndedBelow
<1>6. OnlyStarted(m, n)
  BY <1>1, <1>2, <1>3 DEF OnlyStarted
<1>7. ShownIn(m, e.prompt)
  <2>1. Len(l) + 1 \in 1 .. Len(m)
    BY <1>1
  <2> QED BY <1>1, <2>1 DEF ShownIn
<1> QED BY <1>4, <1>5, <1>6, <1>7 DEF m

\* Its terminal event is the last, unless it completed and is cancelled after all.
LEMMA TurnEnds ==
    ASSUME NEW l \in Seq(Entry), NEW e \in Entry, NEW n \in Nat, e.turn = n, e.ev # "started",
           InTurns(l, n), EndedBelow(l, n),
           OnlyStarted(l, n) \/ (Cancellable(l, n) /\ e.ev = "cancelled")
    PROVE  /\ InTurns(Append(l, e), n) /\ EndedBelow(Append(l, e), n) /\ AllEnded(Append(l, e))
           /\ OnlyStarted(l, n) /\ e.ev = "completed" => Cancellable(Append(l, e), n)
           /\ e.ev \in {"failed", "cancelled"} => Interrupted(Append(l, e))
<1> DEFINE m == Append(l, e)
<1>1. /\ Len(l) \in Nat /\ Len(m) = Len(l) + 1 /\ m # <<>>
      /\ \A i \in 1 .. Len(l) : m[i] = l[i] /\ l[i].turn \in Nat
      /\ m[Len(l) + 1] = e
      /\ \A i \in 1 .. Len(l) : EndedAfter(l, i) => EndedAfter(m, i)
  BY Appended, LogGrows
<1> HIDE DEF m
<1>2. \A i \in 1 .. Len(m) : i \in 1 .. Len(l) \/ i = Len(l) + 1
  BY <1>1
<1>3. \A i \in 1 .. Len(l) : l[i].turn = n =>
          l[i].ev = "started" \/ (l[i].ev = "completed" /\ e.ev = "cancelled")
  BY DEF OnlyStarted, Cancellable
<1>4. InTurns(m, n)
  <2>1. \A i \in 1 .. Len(m) : m[i].turn <= n
    BY <1>1, <1>2 DEF InTurns
  <2>2. ASSUME NEW i \in 1 .. Len(m), NEW j \in 1 .. Len(m), i < j
        PROVE  /\ m[i].turn <= m[j].turn
               /\ m[i].turn = m[j].turn =>
                      /\ m[j].ev # "started"
                      /\ m[i].ev = "started" \/ (m[i].ev = "completed" /\ m[j].ev = "cancelled")
    <3>1. i \in 1 .. Len(l)
      BY <1>1, <2>2
    <3>2. CASE j \in 1 .. Len(l)
      BY <1>1, <2>2, <3>1, <3>2 DEF InTurns
    <3>3. CASE j = Len(l) + 1
      <4>1. m[i] = l[i] /\ m[j] = e /\ l[i].turn <= n
        BY <1>1, <3>1, <3>3 DEF InTurns
      <4> QED BY <1>3, <3>1, <4>1
    <3> QED BY <1>2, <3>2, <3>3
  <2> QED BY <2>1, <2>2 DEF InTurns
<1>5. AllEnded(m)
  <2> SUFFICES ASSUME NEW i \in 1 .. Len(m), m[i].ev = "started" PROVE EndedAfter(m, i)
    BY DEF AllEnded
  <2>1. i \in 1 .. Len(l) /\ m[i] = l[i]
    BY <1>1, <1>2
  <2>2. CASE l[i].turn # n
    BY <1>1, <2>1, <2>2 DEF EndedBelow
  <2>3. CASE l[i].turn = n
    <3>1. Len(l) + 1 \in i .. Len(m)
      BY <1>1, <2>1
    <3> QED BY <1>1, <2>1, <2>3, <3>1 DEF EndedAfter
  <2> QED BY <2>2, <2>3
<1>6. EndedBelow(m, n)
  BY <1>5 DEF AllEnded, EndedBelow
<1>7. ASSUME OnlyStarted(l, n), e.ev = "completed" PROVE Cancellable(m, n)
  BY <1>1, <1>2, <1>7 DEF OnlyStarted, Cancellable
<1>8. ASSUME e.ev \in {"failed", "cancelled"} PROVE Interrupted(m)
  BY <1>1, <1>8 DEF Interrupted
<1> QED BY <1>4, <1>5, <1>6, <1>7, <1>8 DEF m

\* When every turn has ended the next may begin.
LEMMA TurnNumbered ==
    ASSUME NEW l \in Seq(Entry), NEW n \in Nat, InTurns(l, n), AllEnded(l)
    PROVE  InTurns(l, n + 1) /\ EndedBelow(l, n + 1) /\ NotBegun(l, n + 1)
<1>1. \A i \in 1 .. Len(l) : l[i].turn \in Nat
  BY Entries
<1>2. \A i \in 1 .. Len(l) : l[i].turn <= n + 1 /\ l[i].turn # n + 1
  BY <1>1 DEF InTurns
<1>3. InTurns(l, n + 1)
  BY <1>2 DEF InTurns
<1> QED BY <1>2, <1>3 DEF EndedBelow, AllEnded, NotBegun

\* A log in turns is what TurnsDoNotOverlap asks for.
LEMMA TurnsInOrder ==
    ASSUME NEW l \in Seq(Entry), NEW n \in Nat, InTurns(l, n), EndedBelow(l, n),
           NEW i \in 1 .. Len(l), NEW j \in 1 .. Len(l), i < j
    PROVE  /\ l[i].turn = l[j].turn /\ l[i].ev # "started" =>
                 l[i].ev = "completed" /\ l[j].ev = "cancelled"
           /\ l[i].ev = "started" /\ l[j].ev = "started" =>
                 /\ l[i].turn < l[j].turn
                 /\ \E k \in i .. j : l[k].turn = l[i].turn /\ l[k].ev # "started"
<1>1. /\ l[i].turn <= l[j].turn
      /\ l[i].turn = l[j].turn =>
             /\ l[j].ev # "started"
             /\ l[i].ev = "started" \/ (l[i].ev = "completed" /\ l[j].ev = "cancelled")
  BY DEF InTurns
<1>2. l[i].turn \in Nat /\ l[j].turn \in Nat /\ l[j].turn <= n /\ Len(l) \in Nat
  BY Entries DEF InTurns
<1>3. ASSUME l[i].ev = "started", l[j].ev = "started"
      PROVE  /\ l[i].turn < l[j].turn
             /\ \E k \in i .. j : l[k].turn = l[i].turn /\ l[k].ev # "started"
  <2>1. l[i].turn < l[j].turn
    BY <1>1, <1>2, <1>3
  <2>2. PICK k \in i .. Len(l) : l[k].turn = l[i].turn /\ l[k].ev # "started"
    BY <1>2, <1>3, <2>1 DEF EndedBelow, EndedAfter
  <2>3. k \in 1 .. Len(l) /\ l[k].turn \in Nat
    BY <1>2, Entries
  <2>4. ~(j < k)
    BY <1>2, <2>1, <2>2, <2>3 DEF InTurns
  <2>5. k \in i .. j
    BY <2>2, <2>3, <2>4
  <2> QED BY <2>1, <2>2, <2>5
<1> QED BY <1>1, <1>3

-------------------------------------------------------------------------------
(* Types. *)

RowStates == {"unsent", "queued", "claimed", "done", "removed"}
Budgets == [faults : Nat, crashes : Nat, commands : Nat]

\* The types the turns of a thread rest on.
DispatchTypes ==
    /\ row \in [Prompts -> RowStates] /\ promised \in [Prompts -> Nat]
    /\ lastTurn \in [Threads -> Nat] /\ log \in [Threads -> Seq(Entry)]
    /\ cur \in [Threads -> Prompts \cup {NoPrompt}] /\ shell \in [Threads -> BOOLEAN]
    /\ token \in [Threads -> Nat] /\ minted \in [Threads -> Nat] /\ held \in [Threads -> Nat]
    /\ tripped \in [Threads -> SUBSET Nat] /\ late \in [Threads -> SUBSET Nat]
    /\ resume \subseteq Threads /\ budget \in Budgets

typedVars == <<row, promised, lastTurn, log, cur, shell, token, minted, held, tripped, late,
               resume, budget>>

\* Nothing of it changes.
LEMMA TypesFrame == ASSUME DispatchTypes, UNCHANGED typedVars PROVE DispatchTypes'
BY DEF DispatchTypes, typedVars

\* The counters as a record.
LEMMA Counted ==
    ASSUME NEW b \in Budgets, NEW n \in Nat, NEW m \in Nat
    PROVE  /\ [b EXCEPT !.faults = @ + n] \in Budgets
           /\ [b EXCEPT !.crashes = @ + n] \in Budgets
           /\ [b EXCEPT !.commands = @ + n] \in Budgets
           /\ [b EXCEPT !.faults = @ + n, !.commands = @ + m] \in Budgets
<1>1. b.faults \in Nat /\ b.crashes \in Nat /\ b.commands \in Nat
  BY DEF Budgets
<1> DEFINE c == [b EXCEPT !.faults = @ + n]
<1>2. c \in Budgets /\ c.commands = b.commands
  BY <1>1 DEF Budgets
<1>3. [b EXCEPT !.faults = @ + n, !.commands = @ + m] = [c EXCEPT !.commands = @ + m]
  BY <1>2
<1> HIDE DEF c
<1>4. [c EXCEPT !.commands = @ + m] \in Budgets
  BY <1>1, <1>2 DEF Budgets
<1>5. /\ [b EXCEPT !.faults = @ + n] \in Budgets /\ [b EXCEPT !.crashes = @ + n] \in Budgets
      /\ [b EXCEPT !.commands = @ + n] \in Budgets
  BY <1>1 DEF Budgets
<1> QED BY <1>3, <1>4, <1>5

\* What the counters may become.
LEMMA Budgeting ==
    ASSUME DispatchTypes
    PROVE  /\ \A n \in Nat : Spend(n) => budget' \in Budgets
           /\ \A kind : Fault(kind) \/ FaultyCommand(kind) => budget' \in Budgets
           /\ Command => budget' \in Budgets
<1>1. budget \in Budgets
  BY DEF DispatchTypes
<1>2. ASSUME NEW n \in Nat, Spend(n) PROVE budget' \in Budgets
  BY <1>1, <1>2, Counted DEF Spend
<1>3. ASSUME NEW kind, Fault(kind) \/ FaultyCommand(kind) PROVE budget' \in Budgets
  <2>1. CASE Fault(kind)
    BY <1>2, <2>1 DEF Fault
  <2>2. CASE FaultyCommand(kind)
    BY <1>1, <2>2, Counted DEF FaultyCommand
  <2> QED BY <1>3, <2>1, <2>2
<1>4. ASSUME Command PROVE budget' \in Budgets
  BY <1>1, <1>4, Counted DEF Command
<1> QED BY <1>2, <1>3, <1>4

\* An event of the thread's turn is an entry of its log.
LEMMA EventTyped ==
    ASSUME DispatchTypes, NEW t \in Threads, NEW kind \in Kinds
    PROVE  /\ Event(t, kind) \in Entry /\ log[t] \in Seq(Entry)
           /\ Event(t, kind).turn = lastTurn[t] /\ Event(t, kind).ev = kind
           /\ Event(t, kind).prompt = cur[t]
<1>1. lastTurn[t] \in Nat /\ cur[t] \in Prompts \cup {NoPrompt} /\ log[t] \in Seq(Entry)
  BY DEF DispatchTypes
<1> QED BY <1>1 DEF Event, Entry

\* A log grows by an event of its thread.
LEMMA AppendTyped ==
    ASSUME DispatchTypes, NEW t \in Threads, NEW kind \in Kinds, Append1(t, kind)
    PROVE  log' \in [Threads -> Seq(Entry)] /\ log'[t] = Append(log[t], Event(t, kind))
<1>1. Append(log[t], Event(t, kind)) \in Seq(Entry)
  BY EventTyped, Appended
<1>2. log \in [Threads -> Seq(Entry)] /\ log' = [log EXCEPT ![t] = Append(log[t], Event(t, kind))]
  BY DEF DispatchTypes, Append1
<1> QED BY <1>1, <1>2

\* A fresh token.
LEMMA RegisterTyped ==
    ASSUME DispatchTypes, NEW t \in Threads, RegisterCancel(t)
    PROVE  /\ minted' \in [Threads -> Nat] /\ token' \in [Threads -> Nat]
           /\ held' \in [Threads -> Nat] /\ tripped' \in [Threads -> SUBSET Nat]
BY DEF DispatchTypes, RegisterCancel

\* The dispatcher leaves, or is stuck.
LEMMA LeaveTyped ==
    ASSUME DispatchTypes, NEW t \in Threads, NEW n \in Nat, LeaveThread(t, n)
    PROVE  /\ cur' \in [Threads -> Prompts \cup {NoPrompt}] /\ shell' \in [Threads -> BOOLEAN]
           /\ held' \in [Threads -> Nat] /\ budget' \in Budgets
<1>1. budget' \in Budgets
  BY Budgeting DEF LeaveThread
<1>2. \/ UNCHANGED <<cur, held, shell>>
      \/ /\ cur' = [cur EXCEPT ![t] = NoPrompt] /\ held' = [held EXCEPT ![t] = 0]
         /\ shell' = [shell EXCEPT ![t] = FALSE]
  BY DEF LeaveThread, EndTask
<1>3. CASE UNCHANGED <<cur, held, shell>>
  BY <1>1, <1>3 DEF DispatchTypes
<1>4. CASE /\ cur' = [cur EXCEPT ![t] = NoPrompt] /\ held' = [held EXCEPT ![t] = 0]
           /\ shell' = [shell EXCEPT ![t] = FALSE]
  BY <1>1, <1>4 DEF DispatchTypes
<1> QED BY <1>2, <1>3, <1>4

\* launch_claimed_prompt keeps them, and its failure.
LEMMA LaunchTypes ==
    ASSUME DispatchTypes, NEW t \in Threads, NEW p \in Prompts, NEW at, Launch(t, p, at)
    PROVE  DispatchTypes'
<1>1. /\ row' \in [Prompts -> RowStates] /\ lastTurn' \in [Threads -> Nat]
      /\ cur' \in [Threads -> Prompts \cup {NoPrompt}] /\ shell' \in [Threads -> BOOLEAN]
  BY DEF Launch, DispatchTypes, RowStates
<1>2. budget' \in Budgets
  BY Budgeting DEF Launch
<1>3. RegisterCancel(t) /\ UNCHANGED <<log, promised, resume, late>>
  BY DEF Launch
<1> QED BY <1>1, <1>2, <1>3, RegisterTyped DEF DispatchTypes

\* Only the token, the marker and the counters change.
LEMMA LaunchFailsTypes ==
    ASSUME DispatchTypes, NEW t \in Threads, NEW p \in Prompts, NEW during, NEW after,
           LaunchFails(t, p, during, after)
    PROVE  DispatchTypes'
<1>1. token' \in [Threads -> Nat] /\ resume' \subseteq Threads
  BY DEF LaunchFails, ClearCancel, DispatchTypes
<1>2. budget' \in Budgets
  <2>1. \/ budget' = [budget EXCEPT !.faults = @ + 1, !.commands = @ + 1]
        \/ budget' = [budget EXCEPT !.faults = @ + 2, !.commands = @ + 1]
    BY DEF LaunchFails
  <2>2. budget \in Budgets
    BY DEF DispatchTypes
  <2>3. CASE budget' = [budget EXCEPT !.faults = @ + 1, !.commands = @ + 1]
    BY <2>2, <2>3, Counted
  <2>4. CASE budget' = [budget EXCEPT !.faults = @ + 2, !.commands = @ + 1]
    BY <2>2, <2>4, Counted
  <2> QED BY <2>1, <2>3, <2>4
<1>3. UNCHANGED <<row, promised, lastTurn, log, cur, shell, minted, held, tripped, late>>
  BY DEF LaunchFails
<1> QED BY <1>1, <1>2, <1>3 DEF DispatchTypes

\* The commands keep the types.
LEMMA PromptCommandTypes ==
    ASSUME DispatchTypes, NEW p \in Prompts, PromptCommand(p)
    PROVE  DispatchTypes'
<1> DEFINE t == ThreadOf[p]
<1>0. t \in Threads
  BY ShapeAssumption
<1> USE DEF sessionVars, taskVars, rowVars
<1>1. CASE SendQueued(p)
  <2>1. /\ row' \in [Prompts -> RowStates] /\ promised' \in [Prompts -> Nat]
        /\ resume' \subseteq Threads
    BY <1>0, <1>1 DEF SendQueued, DispatchTypes, RowStates, MarkResume
  <2>2. UNCHANGED <<lastTurn, log, cur, shell, token, minted, held, tripped, late, budget>>
    BY <1>1 DEF SendQueued
  <2> QED BY <2>1, <2>2 DEF DispatchTypes
<1>2. CASE SendQueuedFails(p)
  <2>1. resume' \subseteq Threads
    BY <1>0, <1>2 DEF SendQueuedFails, DispatchTypes, MarkResume
  <2>2. UNCHANGED <<row, promised, lastTurn, log, cur, shell, token, minted, held, tripped, late>>
    BY <1>2 DEF SendQueuedFails
  <2>3. budget' \in Budgets
    BY <1>2, Budgeting DEF SendQueuedFails
  <2> QED BY <2>1, <2>2, <2>3 DEF DispatchTypes
<1>3. CASE SendStarts(p)
  <2>1. PICK first \in IF Visible(t) = {} THEN {p} ELSE Fronts(t) :
          /\ row' = [row EXCEPT ![p] = "queued", ![first] = "claimed"]
          /\ lastTurn' = [lastTurn EXCEPT ![t] = @ + 1]
          /\ log' = [log EXCEPT ![t] = Append(@, [ev |-> "started", turn |-> lastTurn[t] + 1,
                                                  prompt |-> first])]
          /\ cur' = [cur EXCEPT ![t] = first]
    BY <1>3 DEF SendStarts
  <2>2. first \in Prompts
    BY <2>1 DEF Fronts, Visible
  <2>3. row' \in [Prompts -> RowStates] /\ lastTurn' \in [Threads -> Nat]
        /\ cur' \in [Threads -> Prompts \cup {NoPrompt}]
    <3>1. row' \in [Prompts -> RowStates]
      <4> DEFINE mid == [row EXCEPT ![p] = "queued"]
      <4>1. mid \in [Prompts -> RowStates]
        BY DEF DispatchTypes, RowStates
      <4>2. row' = [mid EXCEPT ![first] = "claimed"]
        BY <2>1
      <4> HIDE DEF mid
      <4> QED BY <2>2, <4>1, <4>2 DEF RowStates
    <3>2. lastTurn' \in [Threads -> Nat]
      BY <1>0, <2>1 DEF DispatchTypes
    <3>3. cur' \in [Threads -> Prompts \cup {NoPrompt}]
      BY <1>0, <2>1, <2>2 DEF DispatchTypes
    <3> QED BY <3>1, <3>2, <3>3
  <2>4. log' \in [Threads -> Seq(Entry)]
    <3>1. [ev |-> "started", turn |-> lastTurn[t] + 1, prompt |-> first] \in Entry
      BY <1>0, <2>2 DEF DispatchTypes, Entry, Kinds
    <3> QED BY <1>0, <2>1, <3>1, Appended DEF DispatchTypes
  <2>5. RegisterCancel(t) /\ UNCHANGED <<promised, resume, late, budget>>
        /\ shell' = [shell EXCEPT ![t] = TRUE]
    BY <1>3 DEF SendStarts
  <2>6. shell' \in [Threads -> BOOLEAN]
    BY <2>5 DEF DispatchTypes
  <2> QED BY <1>0, <2>3, <2>4, <2>5, <2>6, RegisterTyped DEF DispatchTypes
<1>4. CASE SendStartFails(p)
  <2>1. /\ token' \in [Threads -> Nat] /\ resume' \subseteq Threads
    BY <1>4 DEF SendStartFails, ClearCancel, DispatchTypes
  <2>2. UNCHANGED <<row, promised, lastTurn, log, cur, shell, minted, held, tripped, late>>
    BY <1>4 DEF SendStartFails
  <2>3. budget' \in Budgets
    BY <1>4, Budgeting DEF SendStartFails
  <2> QED BY <2>1, <2>2, <2>3 DEF DispatchTypes
<1>5. CASE DispatchPromptIdle(p)
  BY <1>0, <1>5, LaunchTypes, LaunchFailsTypes DEF DispatchPromptIdle
<1>6. CASE DispatchPromptRunning(p)
  <2>1. /\ promised' \in [Prompts -> Nat] /\ resume' \subseteq Threads
        /\ late' \in [Threads -> SUBSET Nat]
    BY <1>0, <1>6 DEF DispatchPromptRunning, DispatchTypes
  <2>2. UNCHANGED <<row, lastTurn, log, cur, shell, token, minted, held, tripped>>
    BY <1>6 DEF DispatchPromptRunning
  <2>3. budget' \in Budgets
    BY <1>6, Budgeting DEF DispatchPromptRunning
  <2> QED BY <2>1, <2>2, <2>3 DEF DispatchTypes
<1>7. CASE DispatchPromptRunningFails(p)
  <2>1. resume' \subseteq Threads
    BY <1>7 DEF DispatchPromptRunningFails, DispatchTypes
  <2>2. UNCHANGED <<row, promised, lastTurn, log, cur, shell, token, minted, held, tripped, late>>
    BY <1>7 DEF DispatchPromptRunningFails
  <2>3. budget' \in Budgets
    BY <1>7, Budgeting DEF DispatchPromptRunningFails
  <2> QED BY <2>1, <2>2, <2>3 DEF DispatchTypes
<1> QED BY <1>1, <1>2, <1>3, <1>4, <1>5, <1>6, <1>7 DEF PromptCommand

\* The shell, if it is missing, and the cancellation.
LEMMA Recorded ==
    ASSUME DispatchTypes, NEW t \in Threads, RecordCancelled(t)
    PROVE  /\ log' \in [Threads -> Seq(Entry)]
           /\ \A u \in Threads : u # t => log'[u] = log[u]
           /\ shell[t] => log'[t] = Append(log[t], Event(t, "cancelled"))
           /\ ~shell[t] => log'[t] = Append(Append(log[t], Event(t, "started")),
                                            Event(t, "cancelled"))
<1> DEFINE a == Event(t, "started")
           b == Event(t, "cancelled")
           l == log[t] \o (IF shell[t] THEN <<>> ELSE <<a>>) \o <<b>>
<1>1. a \in Entry /\ b \in Entry /\ log[t] \in Seq(Entry)
  BY EventTyped DEF Kinds
<1>2. log' = [log EXCEPT ![t] = l] /\ log \in [Threads -> Seq(Entry)]
  BY DEF RecordCancelled, DispatchTypes
<1> HIDE DEF a, b
<1>3. CASE shell[t]
  <2>1. l = Append(log[t], b) /\ l \in Seq(Entry)
    BY <1>1, <1>3
  <2> HIDE DEF l
  <2> QED BY <1>2, <1>3, <2>1 DEF b
<1>4. CASE ~shell[t]
  <2>1. l = Append(Append(log[t], a), b) /\ l \in Seq(Entry)
    BY <1>1, <1>4
  <2> HIDE DEF l
  <2> QED BY <1>2, <1>4, <2>1 DEF a, b
<1> QED BY <1>3, <1>4

\* Commands of a thread: tokens are tripped, prompts are edited or claimed.
LEMMA ThreadCommandTypes ==
    ASSUME DispatchTypes, NEW t \in Threads, ThreadCommand(t)
    PROVE  DispatchTypes'
<1> USE DEF sessionVars, taskVars, rowVars, tokenVars
<1>1. CASE DispatchQueueIdle(t)
  <2>1. PICK p \in Fronts(t) : Launch(t, p, pos) \/ LaunchFails(t, p, pos, pos)
    BY <1>1 DEF DispatchQueueIdle
  <2>2. p \in Prompts
    BY DEF Fronts, Visible
  <2> QED BY <2>1, <2>2, LaunchTypes, LaunchFailsTypes
<1>2. CASE DispatchQueueRunning(t)
  <2>1. resume' \subseteq Threads
    BY <1>2 DEF DispatchQueueRunning, MarkResume, DispatchTypes
  <2>2. UNCHANGED <<row, promised, lastTurn, log, cur, shell, token, minted, held, tripped, late>>
    BY <1>2 DEF DispatchQueueRunning
  <2>3. budget' \in Budgets
    BY <1>2, Budgeting DEF DispatchQueueRunning
  <2> QED BY <2>1, <2>2, <2>3 DEF DispatchTypes
<1>3. CASE TripLate(t)
  <2>1. tripped' \in [Threads -> SUBSET Nat] /\ late' \in [Threads -> SUBSET Nat]
    BY <1>3 DEF TripLate, DispatchTypes
  <2>2. UNCHANGED <<row, promised, lastTurn, log, cur, shell, token, minted, held, resume, budget>>
    BY <1>3 DEF TripLate
  <2> QED BY <2>1, <2>2 DEF DispatchTypes
<1>4. CASE CancelTurn(t)
  <2>1. tripped' \in [Threads -> SUBSET Nat]
    BY <1>4 DEF CancelTurn, DispatchTypes
  <2>2. UNCHANGED <<row, promised, lastTurn, log, cur, shell, token, minted, held, late, resume,
                    budget>>
    BY <1>4 DEF CancelTurn
  <2> QED BY <2>1, <2>2 DEF DispatchTypes
<1>5. CASE EditQueue(t)
  <2>1. row' = row \/ \E p \in Visible(t) : row' = [row EXCEPT ![p] = "removed"]
    BY <1>5 DEF EditQueue
  <2>2. row' \in [Prompts -> RowStates]
    BY <2>1 DEF Visible, DispatchTypes, RowStates
  <2>3. UNCHANGED <<promised, lastTurn, log, cur, shell, token, minted, held, tripped, late, resume>>
    BY <1>5 DEF EditQueue
  <2>4. budget' \in Budgets
    BY <1>5, Budgeting DEF EditQueue
  <2> QED BY <2>2, <2>3, <2>4 DEF DispatchTypes
<1> QED BY <1>1, <1>2, <1>3, <1>4, <1>5 DEF ThreadCommand

\* The steps of a turn.
LEMMA TurnTypes ==
    ASSUME DispatchTypes, NEW t \in Threads,
           \/ PersistShell(t) \/ Consume(t) \/ Conclude(t) \/ Complete(t)
           \/ StopOnCancel(t) \/ EndBadly(t)
    PROVE  DispatchTypes'
<1> USE DEF sessionVars, rowVars, tokenVars, others
<1>1. CASE PersistShell(t)
  <2>1. log' \in [Threads -> Seq(Entry)]
    BY <1>1, AppendTyped DEF PersistShell, Kinds
  <2>2. shell' \in [Threads -> BOOLEAN]
    BY <1>1 DEF PersistShell, DispatchTypes
  <2>3. UNCHANGED <<row, promised, lastTurn, cur, token, minted, held, tripped, late, resume, budget>>
    BY <1>1 DEF PersistShell
  <2> QED BY <2>1, <2>2, <2>3 DEF DispatchTypes
<1>2. CASE Consume(t)
  <2>1. row' \in [Prompts -> RowStates]
    BY <1>2 DEF Consume, DispatchTypes, RowStates
  <2>2. UNCHANGED <<promised, lastTurn, log, cur, shell, token, minted, held, tripped, late, resume,
                    budget>>
    BY <1>2 DEF Consume
  <2> QED BY <2>1, <2>2 DEF DispatchTypes
<1>3. CASE Conclude(t)
  BY <1>3, TypesFrame DEF Conclude, typedVars
<1>4. CASE Complete(t)
  <2>1. log' \in [Threads -> Seq(Entry)]
    BY <1>4, AppendTyped DEF Complete, Kinds
  <2>2. UNCHANGED <<row, promised, lastTurn, cur, shell, token, minted, held, tripped, late, resume,
                    budget>>
    BY <1>4 DEF Complete
  <2> QED BY <2>1, <2>2 DEF DispatchTypes
<1>5. CASE StopOnCancel(t)
  BY <1>5, TypesFrame DEF StopOnCancel, typedVars
<1>6. CASE EndBadly(t)
  BY <1>6, TypesFrame DEF EndBadly, typedVars
<1> QED BY <1>1, <1>2, <1>3, <1>4, <1>5, <1>6

\* The rest of the dispatcher.
LEMMA SettleTypes ==
    ASSUME DispatchTypes, NEW t \in Threads, Settle(t)
    PROVE  DispatchTypes'
<1> USE DEF sessionVars, rowVars, tokenVars, others
<1>1. CASE SettleCancelled(t)
  <2>1. row' \in [Prompts -> RowStates]
    BY <1>1 DEF SettleCancelled, DispatchTypes, RowStates
  <2>2. UNCHANGED <<promised, lastTurn, log, cur, shell, token, minted, held, tripped, late, resume,
                    budget>>
    BY <1>1 DEF SettleCancelled
  <2> QED BY <2>1, <2>2 DEF DispatchTypes
<1>2. CASE RecordCancelled(t)
  <2>1. log' \in [Threads -> Seq(Entry)]
    BY <1>2, Recorded
  <2>2. UNCHANGED <<row, promised, lastTurn, cur, shell, token, minted, held, tripped, late, resume,
                    budget>>
    BY <1>2 DEF RecordCancelled
  <2> QED BY <2>1, <2>2 DEF DispatchTypes
<1>3. CASE SettleFailed(t) \/ SettlePanic(t)
  <2>1. log' \in [Threads -> Seq(Entry)]
    BY <1>3, AppendTyped DEF SettleFailed, SettlePanic, Kinds
  <2>2. UNCHANGED <<row, promised, lastTurn, cur, shell, token, minted, held, tripped, late, resume,
                    budget>>
    BY <1>3 DEF SettleFailed, SettlePanic
  <2> QED BY <2>1, <2>2 DEF DispatchTypes
<1>4. CASE SettleCompleted(t) \/ ReadQueue(t)
  BY <1>4, TypesFrame DEF SettleCompleted, ReadQueue, typedVars
<1>5. CASE SettleFails(t)
  <2>1. UNCHANGED <<row, promised, lastTurn, log, cur, shell, token, minted, held, tripped, late,
                    resume>>
    BY <1>5 DEF SettleFails
  <2>2. budget' \in Budgets
    BY <1>5, Budgeting DEF SettleFails
  <2> QED BY <2>1, <2>2 DEF DispatchTypes
<1>6. CASE GiveBack(t)
  <2>1. row' = row \/ row' = [row EXCEPT ![cur[t]] = IF @ = "claimed" THEN "queued" ELSE @]
    BY <1>6 DEF GiveBack
  <2>2. row' \in [Prompts -> RowStates]
    BY <2>1 DEF DispatchTypes, RowStates
  <2>3. budget' \in Budgets
    BY <1>6, Budgeting DEF GiveBack, DispatchTypes
  <2>4. UNCHANGED <<promised, lastTurn, log, cur, shell, token, minted, held, tripped, late, resume>>
    BY <1>6 DEF GiveBack
  <2> QED BY <2>2, <2>3, <2>4 DEF DispatchTypes
<1>7. CASE EmitQueue(t)
  <2>1. budget' \in Budgets
    BY <1>7, Budgeting DEF EmitQueue, DispatchTypes
  <2>2. UNCHANGED <<row, promised, lastTurn, log, cur, shell, token, minted, held, tripped, late,
                    resume>>
    BY <1>7 DEF EmitQueue
  <2> QED BY <2>1, <2>2 DEF DispatchTypes
<1>8. CASE ClearAfterPanic(t)
  <2>1. token' \in [Threads -> Nat] /\ resume' \subseteq Threads
    BY <1>8 DEF ClearAfterPanic, ClearCancel, DispatchTypes
  <2>2. UNCHANGED <<row, promised, lastTurn, log, cur, shell, minted, held, tripped, late, budget>>
    BY <1>8 DEF ClearAfterPanic
  <2> QED BY <2>1, <2>2 DEF DispatchTypes
<1>9. CASE ReleaseThread(t)
  <2>1. LeaveThread(t, 0)
        /\ UNCHANGED <<row, promised, lastTurn, log, token, minted, tripped, late, resume>>
    BY <1>9 DEF ReleaseThread
  <2> QED BY <2>1, LeaveTyped DEF DispatchTypes
<1>10. CASE FinishInterrupted(t)
  <2>1. token' \in [Threads -> Nat] /\ resume' \subseteq Threads
    BY <1>10 DEF FinishInterrupted, ClearCancel, DispatchTypes
  <2>2. UNCHANGED <<row, promised, lastTurn, log, minted, tripped, late>>
    BY <1>10 DEF FinishInterrupted
  <2>3. UNCHANGED <<cur, held, shell, budget>> \/ LeaveThread(t, 0)
    BY <1>10 DEF FinishInterrupted
  <2>4. /\ cur' \in [Threads -> Prompts \cup {NoPrompt}] /\ shell' \in [Threads -> BOOLEAN]
        /\ held' \in [Threads -> Nat] /\ budget' \in Budgets
    <3>1. CASE UNCHANGED <<cur, held, shell, budget>>
      BY <3>1 DEF DispatchTypes
    <3>2. CASE LeaveThread(t, 0)
      BY <3>2, LeaveTyped
    <3> QED BY <2>3, <3>1, <3>2
  <2> QED BY <2>1, <2>2, <2>4 DEF DispatchTypes
<1>11. CASE ClaimNext(t)
  <2>1. PICK p \in Fronts(t) : /\ row' = [row EXCEPT ![p] = "claimed"]
                               /\ cur' = [cur EXCEPT ![t] = p]
    BY <1>11 DEF ClaimNext
  <2>2. p \in Prompts
    BY DEF Fronts, Visible
  <2>3. row' \in [Prompts -> RowStates] /\ cur' \in [Threads -> Prompts \cup {NoPrompt}]
    BY <2>1, <2>2 DEF DispatchTypes, RowStates
  <2>4. shell' \in [Threads -> BOOLEAN] /\ resume' \subseteq Threads
    BY <1>11 DEF ClaimNext, DispatchTypes
  <2>5. RegisterCancel(t) /\ UNCHANGED <<promised, lastTurn, log, late, budget>>
    BY <1>11 DEF ClaimNext
  <2> QED BY <2>3, <2>4, <2>5, RegisterTyped DEF DispatchTypes
<1>12. CASE NothingNext(t)
  <2>1. PICK spent \in {0, 1} : LeaveThread(t, spent)
    BY <1>12 DEF NothingNext
  <2>2. token' \in [Threads -> Nat] /\ resume' \subseteq Threads
    <3>1. ClearCancel(t) \/ UNCHANGED <<token, resume>>
      BY <1>12 DEF NothingNext
    <3>2. CASE ClearCancel(t)
      BY <3>2 DEF ClearCancel, DispatchTypes
    <3>3. CASE UNCHANGED <<token, resume>>
      BY <3>3 DEF DispatchTypes
    <3> QED BY <3>1, <3>2, <3>3
  <2>3. UNCHANGED <<row, promised, lastTurn, log, minted, tripped, late>>
    BY <1>12 DEF NothingNext
  <2>4. /\ cur' \in [Threads -> Prompts \cup {NoPrompt}] /\ shell' \in [Threads -> BOOLEAN]
        /\ held' \in [Threads -> Nat] /\ budget' \in Budgets
    <3>1. spent \in Nat
      OBVIOUS
    <3> QED BY <2>1, <3>1, LeaveTyped
  <2> QED BY <2>2, <2>3, <2>4 DEF DispatchTypes
<1>13. CASE NumberTurn(t)
  <2>1. lastTurn' \in [Threads -> Nat]
    <3>1. lastTurn' = lastTurn \/ lastTurn' = [lastTurn EXCEPT ![t] = @ + 1]
      BY <1>13 DEF NumberTurn
    <3>2. CASE lastTurn' = [lastTurn EXCEPT ![t] = @ + 1]
      BY <3>2 DEF DispatchTypes
    <3> QED BY <3>1, <3>2 DEF DispatchTypes
  <2>2. budget' \in Budgets
    BY <1>13, Budgeting DEF NumberTurn, DispatchTypes
  <2>3. UNCHANGED <<row, promised, log, cur, shell, token, minted, held, tripped, late, resume>>
    BY <1>13 DEF NumberTurn
  <2> QED BY <2>1, <2>2, <2>3 DEF DispatchTypes
<1> QED BY <1>1, <1>2, <1>3, <1>4, <1>5, <1>6, <1>7, <1>8, <1>9, <1>10, <1>11, <1>12, <1>13
        DEF Settle

\* Deletion removes prompts; a restart empties the memory.
LEMMA OtherTypes ==
    ASSUME DispatchTypes, Crash \/ \E s \in Sessions : BeginDelete(s) \/ EndDelete(s)
    PROVE  DispatchTypes'
<1> USE DEF sessionVars, taskVars, rowVars, tokenVars
<1>1. CASE Crash
  <2>1. /\ row' \in [Prompts -> RowStates] /\ promised' \in [Prompts -> Nat]
        /\ token' \in [Threads -> Nat] /\ late' \in [Threads -> SUBSET Nat] /\ resume' \subseteq Threads
    BY <1>1 DEF Crash, ResetClaims, DispatchTypes, RowStates
  <2>2. /\ cur' \in [Threads -> Prompts \cup {NoPrompt}] /\ held' \in [Threads -> Nat]
        /\ shell' \in [Threads -> BOOLEAN]
    BY <1>1 DEF Crash
  <2>3. budget' \in Budgets
    BY <1>1, Counted DEF Crash, DispatchTypes
  <2>4. UNCHANGED <<lastTurn, log, minted, tripped>>
    BY <1>1 DEF Crash
  <2> QED BY <2>1, <2>2, <2>3, <2>4 DEF DispatchTypes
<1>2. ASSUME NEW s \in Sessions, BeginDelete(s) PROVE DispatchTypes'
  BY <1>2, TypesFrame DEF BeginDelete, typedVars
<1>3. ASSUME NEW s \in Sessions, EndDelete(s) PROVE DispatchTypes'
  <2>1. row' \in [Prompts -> RowStates]
    BY <1>3 DEF EndDelete, DispatchTypes, RowStates
  <2>2. UNCHANGED <<promised, lastTurn, log, cur, shell, token, minted, held, tripped, late, resume,
                    budget>>
    BY <1>3 DEF EndDelete
  <2> QED BY <2>1, <2>2 DEF DispatchTypes
<1> QED BY <1>1, <1>2, <1>3

-------------------------------------------------------------------------------
(* The turns of one thread. *)

TurnInv(t) ==
    /\ CurInv(t) /\ PathInv(t) /\ (budget.crashes = 0 => LogInv(t))
    /\ HoldInv(t) /\ ShowInv(t) /\ PauseInv(t) /\ PromiseInv(t)

\* The dispatcher, the log and the token of a thread are left alone; a token may be tripped.
Same(u) ==
    /\ pc'[u] = pc[u] /\ why'[u] = why[u] /\ cur'[u] = cur[u] /\ held'[u] = held[u]
    /\ shell'[u] = shell[u] /\ log'[u] = log[u] /\ lastTurn'[u] = lastTurn[u]
    /\ token'[u] = token[u] /\ minted'[u] = minted[u] /\ tripped[u] \subseteq tripped'[u]
    /\ u \in resume' <=> u \in resume

\* So are its prompts, but that some may be removed.
SamePrompts(u) ==
    \A p \in Prompts : ThreadOf[p] = u => promised'[p] = promised[p] /\ row'[p] \in {row[p], "removed"}

Elsewhere(t) == \A u \in Threads : u # t => Same(u) /\ SamePrompts(u)

\* Faults and restarts are not forgotten.
Remembered == /\ budget'.faults = 0 => budget.faults = 0
              /\ budget'.crashes = 0 => budget.crashes = 0

\* What nothing of a thread's state says anything about keeps its turns.
LEMMA TurnFrame ==
    ASSUME NEW t \in Threads, TurnInv(t), Same(t), SamePrompts(t), Remembered
    PROVE  TurnInv(t)'
<1> USE DEF Same, Publishing
<1>0. Cancelled(t) => Cancelled(t)'
  BY DEF Cancelled
<1>1. CurInv(t)'
  BY DEF TurnInv, CurInv, HasPrompt
<1>5. Undisturbed' => Undisturbed
  BY DEF Undisturbed, Remembered
<1>9. PathInv(t)'
  BY <1>5 DEF TurnInv, PathInv
<1>2. Working(t)' = Working(t) /\ Over(t)' = Over(t) /\ Showing(t)' = Showing(t)
      /\ Leaving(t)' = Leaving(t)
  BY DEF Working, Over, Showing, Leaving
<1>3. ASSUME budget'.crashes = 0 PROVE LogInv(t)'
  BY <1>0, <1>2, <1>3 DEF TurnInv, LogInv, Remembered
<1>4. HoldInv(t)'
  <2>1. Holding(t) => Holding(t)'
    BY <1>0 DEF Holding
  <2> QED BY <2>1 DEF TurnInv, HoldInv, Remembered, SamePrompts
<1>6. ShowInv(t)'
  BY <1>2, <1>5 DEF TurnInv, ShowInv, SamePrompts
<1>7. PauseInv(t)'
  <2>1. Visible(t)' \subseteq Visible(t)
    BY DEF Visible, SamePrompts
  <2> QED BY <1>2, <1>5, <2>1 DEF TurnInv, PauseInv
<1>8. PromiseInv(t)'
  <2>1. Heard(t) => Heard(t)'
    BY DEF Heard
  <2> QED BY <1>5, <2>1 DEF TurnInv, PromiseInv, SamePrompts
<1> QED BY <1>1, <1>3, <1>4, <1>6, <1>7, <1>8, <1>9 DEF TurnInv

\* The counters after a command or a fault.
LEMMA Counters ==
    ASSUME DispatchTypes
    PROVE  /\ budget.faults \in Nat /\ budget.crashes \in Nat
           /\ budget' = budget => Remembered
           /\ \A n \in Nat : Spend(n) => Remembered /\ budget'.faults = budget.faults + n
           /\ \A kind : Fault(kind) \/ FaultyCommand(kind) => Remembered /\ budget'.faults # 0
           /\ Command => Remembered /\ budget'.faults = budget.faults
<1>1. budget \in Budgets
  BY DEF DispatchTypes
<1>2. budget.faults \in Nat /\ budget.crashes \in Nat /\ (budget' = budget => Remembered)
  BY <1>1 DEF Budgets, Remembered
<1>3. ASSUME NEW n \in Nat, Spend(n) PROVE Remembered /\ budget'.faults = budget.faults + n
  <2>1. budget'.faults = budget.faults + n /\ budget'.crashes = budget.crashes
    BY <1>1, <1>3 DEF Spend, Budgets
  <2> QED BY <1>2, <2>1 DEF Remembered
<1>4. ASSUME NEW kind, Fault(kind) \/ FaultyCommand(kind) PROVE Remembered /\ budget'.faults # 0
  <2>1. budget'.faults = budget.faults + 1 /\ budget'.crashes = budget.crashes
    <3>1. CASE Fault(kind)
      BY <1>1, <3>1 DEF Fault, Spend, Budgets
    <3>2. CASE FaultyCommand(kind)
      BY <1>1, <3>2 DEF FaultyCommand, Budgets
    <3> QED BY <1>4, <3>1, <3>2
  <2> QED BY <1>2, <2>1 DEF Remembered
<1>5. ASSUME Command PROVE Remembered /\ budget'.faults = budget.faults
  BY <1>1, <1>5 DEF Command, Budgets, Remembered
<1> QED BY <1>2, <1>3, <1>4, <1>5

\* What launch_claimed_prompt does to the thread, and to no other.
LEMMA Launched ==
    ASSUME DispatchTypes, ClaimTypes, NEW t \in Threads, NEW p \in Prompts, ThreadOf[p] = t,
           NEW at, Launch(t, p, at)
    PROVE  /\ Remembered /\ Elsewhere(t)
           /\ pc'[t] = "start" /\ why'[t] = why[t] /\ cur'[t] = p /\ shell'[t] = FALSE
           /\ log'[t] = log[t] /\ lastTurn'[t] = lastTurn[t] + 1
           /\ minted'[t] = minted[t] + 1 /\ token'[t] = minted'[t]
           /\ row' = [row EXCEPT ![p] = "claimed"] /\ promised' = promised /\ resume' = resume
<1>1. Remembered
  BY Counters DEF Launch
<1>2. /\ pc' = [pc EXCEPT ![t] = "start"] /\ why' = why /\ cur' = [cur EXCEPT ![t] = p]
      /\ shell' = [shell EXCEPT ![t] = FALSE] /\ log' = log
      /\ lastTurn' = [lastTurn EXCEPT ![t] = @ + 1]
      /\ row' = [row EXCEPT ![p] = "claimed"] /\ promised' = promised /\ resume' = resume
  BY DEF Launch, Goto
<1>3. /\ minted' = [minted EXCEPT ![t] = @ + 1] /\ token' = [token EXCEPT ![t] = minted[t] + 1]
      /\ held' = [held EXCEPT ![t] = minted[t] + 1] /\ tripped' = [tripped EXCEPT ![t] = {}]
  BY DEF Launch, RegisterCancel
<1>4. Elsewhere(t)
  BY <1>2, <1>3 DEF Elsewhere, Same, SamePrompts, DispatchTypes, ClaimTypes
<1> QED BY <1>1, <1>2, <1>3, <1>4 DEF DispatchTypes, ClaimTypes

\* What its failure does.
LEMMA LaunchFailed ==
    ASSUME DispatchTypes, ClaimTypes, NEW t \in Threads, NEW p \in Prompts,
           NEW during, NEW after, LaunchFails(t, p, during, after)
    PROVE  /\ Remembered /\ Elsewhere(t) /\ budget'.faults # 0
           /\ pc'[t] \in {pc[t], "stuck"} /\ why'[t] = why[t] /\ cur'[t] = cur[t]
           /\ held'[t] = held[t] /\ shell'[t] = shell[t]
           /\ log'[t] = log[t] /\ lastTurn'[t] = lastTurn[t]
           /\ minted'[t] = minted[t] /\ token'[t] = 0 /\ tripped'[t] = tripped[t]
           /\ row' = row /\ promised' = promised
<1>1. budget'.faults # 0 /\ Remembered
  <2>1. \/ budget' = [budget EXCEPT !.faults = @ + 1, !.commands = @ + 1]
        \/ budget' = [budget EXCEPT !.faults = @ + 2, !.commands = @ + 1]
    BY DEF LaunchFails
  <2>2. budget \in Budgets
    BY DEF DispatchTypes
  <2>3. /\ budget'.faults = budget.faults + 1 \/ budget'.faults = budget.faults + 2
        /\ budget'.crashes = budget.crashes
    <3>1. CASE budget' = [budget EXCEPT !.faults = @ + 1, !.commands = @ + 1]
      BY <2>2, <3>1 DEF Budgets
    <3>2. CASE budget' = [budget EXCEPT !.faults = @ + 2, !.commands = @ + 1]
      BY <2>2, <3>2 DEF Budgets
    <3> QED BY <2>1, <3>1, <3>2
  <2> QED BY <2>3, Counters DEF Remembered
<1>2. /\ UNCHANGED <<row, promised, lastTurn, log, minted, tripped, cur, held, shell, why>>
      /\ token' = [token EXCEPT ![t] = 0] /\ resume' = resume \ {t}
  BY DEF LaunchFails, ClearCancel
<1>3. pc' = pc \/ pc' = [pc EXCEPT ![t] = "stuck"]
  BY DEF LaunchFails, Goto
<1>4. pc'[t] \in {pc[t], "stuck"} /\ \A u \in Threads : u # t => pc'[u] = pc[u]
  BY <1>3 DEF ClaimTypes
<1>5. Elsewhere(t)
  BY <1>2, <1>4 DEF Elsewhere, Same, SamePrompts, DispatchTypes
<1> QED BY <1>1, <1>2, <1>4, <1>5 DEF DispatchTypes

\* So says every step.
LEMMA Remembers == ASSUME DispatchTypes, ClaimTypes, [Next]_vars PROVE Remembered
<1>1. ASSUME NEW p \in Prompts, PromptCommand(p) PROVE Remembered
  <2>1. CASE SendQueued(p) \/ SendStarts(p)
    BY <2>1, Counters DEF SendQueued, SendStarts
  <2>2. CASE SendQueuedFails(p) \/ SendStartFails(p)
    BY <2>2, Counters DEF SendQueuedFails, SendStartFails
  <2>3. CASE DispatchPromptRunning(p) \/ DispatchPromptRunningFails(p)
    BY <2>3, Counters DEF DispatchPromptRunning, DispatchPromptRunningFails
  <2>4. CASE DispatchPromptIdle(p)
    BY <2>4, ShapeAssumption, Launched, LaunchFailed DEF DispatchPromptIdle
  <2> QED BY <1>1, <2>1, <2>2, <2>3, <2>4 DEF PromptCommand
<1>2. ASSUME NEW t \in Threads, ThreadCommand(t) PROVE Remembered
  <2>1. CASE DispatchQueueIdle(t)
    BY <2>1, Launched, LaunchFailed DEF DispatchQueueIdle, Fronts, Visible
  <2>2. CASE DispatchQueueRunning(t)
    BY <2>2, Counters DEF DispatchQueueRunning
  <2>3. CASE TripLate(t) \/ CancelTurn(t)
    BY <2>3, Counters DEF TripLate, CancelTurn
  <2>4. CASE EditQueue(t)
    BY <2>4, Counters DEF EditQueue
  <2> QED BY <1>2, <2>1, <2>2, <2>3, <2>4 DEF ThreadCommand
<1>3. ASSUME NEW t \in Threads, Task(t) PROVE Remembered
  <2>1. CASE \/ PersistShell(t) \/ Consume(t) \/ Conclude(t) \/ Complete(t) \/ StopOnCancel(t)
             \/ EndBadly(t)
    BY <2>1, Counters DEF PersistShell, Consume, Conclude, Complete, StopOnCancel, EndBadly
  <2>2. CASE \/ SettleCancelled(t) \/ RecordCancelled(t) \/ SettleFailed(t) \/ SettlePanic(t)
             \/ SettleCompleted(t) \/ SettleFails(t)
    BY <2>2, Counters DEF SettleCancelled, RecordCancelled, SettleFailed, SettlePanic,
                          SettleCompleted, SettleFails
  <2>3. CASE GiveBack(t) \/ ReadQueue(t) \/ EmitQueue(t) \/ ClearAfterPanic(t) \/ NumberTurn(t)
             \/ ClaimNext(t)
    BY <2>3, Counters DEF GiveBack, ReadQueue, EmitQueue, ClearAfterPanic, NumberTurn, ClaimNext
  <2>4. ASSUME NEW n \in Nat, LeaveThread(t, n) PROVE Remembered
    BY <2>4, Counters DEF LeaveThread
  <2>5. CASE ReleaseThread(t) \/ FinishInterrupted(t) \/ NothingNext(t)
    <3>1. budget' = budget \/ \E n \in {0, 1} : LeaveThread(t, n)
      BY <2>5 DEF ReleaseThread, FinishInterrupted, NothingNext
    <3> QED BY <2>4, <3>1, Counters
  <2> QED BY <1>3, <2>1, <2>2, <2>3, <2>5 DEF Task, Settle
<1>4. ASSUME NEW s \in Sessions, BeginDelete(s) \/ EndDelete(s) PROVE Remembered
  BY <1>4, Counters DEF BeginDelete, EndDelete
<1>5. CASE Crash
  <2>1. budget'.faults = budget.faults /\ budget'.crashes = budget.crashes + 1
    BY <1>5 DEF Crash, DispatchTypes, Budgets
  <2> QED BY <2>1, Counters DEF Remembered
<1>6. CASE UNCHANGED vars
  BY <1>6, Counters DEF vars
<1> QED BY <1>1, <1>2, <1>3, <1>4, <1>5, <1>6 DEF Next

-------------------------------------------------------------------------------
(* The commands and the turns. *)

\* A disturbance is not undone.
LEMMA StaysDisturbed == ASSUME Remembered, Undisturbed' PROVE Undisturbed
BY DEF Remembered, Undisturbed

\* Every thread is left alone.
LEMMA NothingTurns ==
    ASSUME Remembered, \A t \in Threads : TurnInv(t) /\ Same(t) /\ SamePrompts(t)
    PROVE  \A t \in Threads : TurnInv(t)'
BY TurnFrame

\* All but one.
LEMMA OneTurns ==
    ASSUME Remembered, \A u \in Threads : TurnInv(u), NEW t \in Threads, Elsewhere(t), TurnInv(t)'
    PROVE  \A u \in Threads : TurnInv(u)'
<1> SUFFICES ASSUME NEW u \in Threads, u # t PROVE TurnInv(u)'
  OBVIOUS
<1>1. TurnInv(u) /\ Same(u) /\ SamePrompts(u)
  BY DEF Elsewhere
<1> QED BY <1>1, TurnFrame

\* A command to a thread leaves its dispatcher, its log and its claims alone.
Quiet(t) ==
    /\ pc' = pc /\ why' = why /\ cur' = cur /\ held' = held /\ shell' = shell /\ log' = log
    /\ lastTurn' = lastTurn /\ minted' = minted /\ tripped' = tripped
    /\ \A u \in Threads : u # t => token'[u] = token[u] /\ (u \in resume' <=> u \in resume)
    /\ \A p \in Prompts : ThreadOf[p] # t => row'[p] = row[p] /\ promised'[p] = promised[p]

\* It may add a prompt to the queue of a running dispatcher.
LEMMA QuietTurns ==
    ASSUME NEW t \in Threads, TurnInv(t), Quiet(t), Remembered, PromiseInv(t)',
           \A p \in Prompts : row'[p] = row[p] \/ (row'[p] = "queued" /\ pc[t] # "none")
    PROVE  TurnInv(t)' /\ Elsewhere(t)
<1> USE DEF Quiet, Publishing
<1>1. CurInv(t)'
  BY DEF TurnInv, CurInv, HasPrompt
<1>2. Working(t)' = Working(t) /\ Over(t)' = Over(t) /\ Showing(t)' = Showing(t)
      /\ Leaving(t)' = Leaving(t) /\ Cancelled(t)' = Cancelled(t)
  BY DEF Working, Over, Showing, Leaving, Cancelled
<1>3. ASSUME budget'.crashes = 0 PROVE LogInv(t)'
  BY <1>2, <1>3 DEF TurnInv, LogInv, Remembered
<1>4. HoldInv(t)'
  <2>1. Holding(t) => Holding(t)'
    BY <1>2 DEF Holding
  <2> QED BY <2>1 DEF TurnInv, HoldInv, Remembered
<1>5. Undisturbed' => Undisturbed
  BY StaysDisturbed
<1>6. ShowInv(t)'
  BY <1>2, <1>5 DEF TurnInv, ShowInv
<1>7. PauseInv(t)'
  <2>1. pc[t] = "none" => Visible(t)' \subseteq Visible(t)
    BY DEF Visible
  <2> QED BY <1>2, <1>5, <2>1 DEF TurnInv, PauseInv
<1>8. PathInv(t)'
  BY <1>5 DEF TurnInv, PathInv
<1>9. TurnInv(t)'
  BY <1>1, <1>3, <1>4, <1>6, <1>7, <1>8 DEF TurnInv
<1>10. Elsewhere(t)
  BY DEF Elsewhere, Same, SamePrompts
<1> QED BY <1>9, <1>10

\* A marker or a promise less matters to nobody once a store call has failed.
LEMMA FailedPromise ==
    ASSUME NEW t \in Threads, TurnInv(t), budget'.faults # 0, minted'[t] = minted[t],
           token'[t] \in {0, token[t]}
    PROVE  PromiseInv(t)'
BY DEF TurnInv, PromiseInv, Undisturbed

\* send_message to a running thread.
LEMMA SendQueuedTurns ==
    ASSUME DispatchTypes, ClaimInv, NEW p \in Prompts, NEW t \in Threads, t = ThreadOf[p],
           TurnInv(t), SendQueued(p), Remembered
    PROVE  TurnInv(t)' /\ Elsewhere(t)
<1>1. /\ row[p] = "unsent" /\ t \in active /\ MarkResume(t)
      /\ row' = [row EXCEPT ![p] = "queued"]
      /\ promised' = IF Cancelling(t) THEN [promised EXCEPT ![p] = token[t]] ELSE promised
      /\ UNCHANGED <<lastTurn, log, token, minted, tripped, pc, cur, held, shell, why>>
  BY DEF SendQueued, taskVars
<1>2. pc[t] # "none"
  BY <1>1 DEF ClaimInv, ActivityAgrees
<1>3. resume' = IF Cancelling(t) THEN resume \cup {t} ELSE resume
  BY <1>1 DEF MarkResume
<1>4. /\ \A q \in Prompts : q # p => row'[q] = row[q] /\ promised'[q] = promised[q]
      /\ row'[p] = "queued" /\ promised'[p] = IF Cancelling(t) THEN token[t] ELSE promised[p]
  BY <1>1 DEF DispatchTypes
<1>5. Quiet(t)
  BY <1>1, <1>3, <1>4 DEF Quiet
<1>6. PromiseInv(t)'
  <2>1. token'[t] \in {0, minted'[t]}
    BY <1>1 DEF TurnInv, PromiseInv
  <2> SUFFICES ASSUME Undisturbed' PROVE PromiseInv(t)'
    BY <2>1 DEF PromiseInv
  <2>2. Undisturbed
    BY StaysDisturbed
  <2>3. Cancelling(t) => token[t] = minted[t] /\ token[t] # 0 /\ t \in resume'
    BY <1>3 DEF TurnInv, PromiseInv, Cancelling
  <2>4. pc[t] \in {"none", "resumed", "releasing"} => token[t] = 0 /\ t \notin resume
    BY <2>2 DEF TurnInv, PromiseInv
  <2>5. Heard(t) => Heard(t)'
    BY <1>1, <1>3 DEF Heard
  <2>6. promised[p] = 0 /\ minted[t] \in Nat
    BY <1>1, <2>2 DEF TurnInv, PromiseInv, DispatchTypes
  <2>7. /\ promised'[p] <= minted'[t]
        /\ promised'[p] # 0 => Heard(t)'
    BY <1>1, <1>4, <2>3, <2>6 DEF Heard
  <2>8. ASSUME NEW q \in Prompts, ThreadOf[q] = t, q # p
        PROVE  /\ promised'[q] <= minted'[t]
               /\ row'[q] = "unsent" => promised'[q] = 0
               /\ row'[q] = "claimed" => promised'[q] < minted'[t]
               /\ row'[q] = "queued" /\ promised'[q] # 0 /\ promised'[q] = minted'[t] => Heard(t)'
    BY <1>1, <1>4, <2>2, <2>5, <2>8 DEF TurnInv, PromiseInv
  <2>9. pc'[t] \in {"none", "resumed", "releasing"} => token'[t] = 0 /\ t \notin resume'
    BY <1>1, <1>3, <2>3, <2>4
  <2> QED BY <1>4, <2>1, <2>7, <2>8, <2>9 DEF PromiseInv
<1> QED BY <1>2, <1>4, <1>5, <1>6, QuietTurns

\* dispatch_queued_prompt on a running thread.
LEMMA DispatchRunningTurns ==
    ASSUME DispatchTypes, ClaimInv, NEW p \in Prompts, NEW t \in Threads, t = ThreadOf[p],
           TurnInv(t), DispatchPromptRunning(p), Remembered
    PROVE  TurnInv(t)' /\ Elsewhere(t)
<1>1. /\ row[p] = "queued" /\ token[t] # 0 /\ resume' = resume \cup {t} /\ row' = row
      /\ promised' = [promised EXCEPT ![p] = token[t]]
      /\ UNCHANGED <<lastTurn, log, token, minted, tripped, pc, cur, held, shell, why>>
  BY DEF DispatchPromptRunning, taskVars
<1>2. /\ \A q \in Prompts : q # p => promised'[q] = promised[q]
      /\ promised'[p] = token[t]
  BY <1>1 DEF DispatchTypes
<1>3. Quiet(t)
  BY <1>1, <1>2 DEF Quiet
<1>4. PromiseInv(t)'
  <2>1. token'[t] = minted'[t] /\ minted[t] \in Nat /\ Heard(t)'
    BY <1>1 DEF TurnInv, PromiseInv, DispatchTypes, Heard
  <2> SUFFICES ASSUME Undisturbed' PROVE PromiseInv(t)'
    BY <2>1 DEF PromiseInv
  <2>2. Undisturbed
    BY StaysDisturbed
  <2>3. pc'[t] \notin {"none", "resumed", "releasing"}
    BY <1>1, <2>2 DEF TurnInv, PromiseInv
  <2>4. ASSUME NEW q \in Prompts, ThreadOf[q] = t
        PROVE  /\ promised'[q] <= minted'[t]
               /\ row'[q] = "unsent" => promised'[q] = 0
               /\ row'[q] = "claimed" => promised'[q] < minted'[t]
    <3>1. CASE q = p
      BY <1>1, <1>2, <2>1, <3>1
    <3>2. CASE q # p
      BY <1>1, <1>2, <2>2, <2>4, <3>2 DEF TurnInv, PromiseInv
    <3> QED BY <3>1, <3>2
  <2> QED BY <2>1, <2>3, <2>4 DEF PromiseInv
<1> QED BY <1>1, <1>3, <1>4, QuietTurns

\* dispatch_queue on a running thread.
LEMMA DispatchQueueTurns ==
    ASSUME DispatchTypes, NEW t \in Threads, TurnInv(t), DispatchQueueRunning(t), Remembered
    PROVE  TurnInv(t)' /\ Elsewhere(t)
<1>1. /\ resume' = IF Cancelling(t) THEN resume \cup {t} ELSE resume
      /\ UNCHANGED <<row, promised, lastTurn, log, token, minted, tripped, pc, cur, held, shell,
                     why>>
  BY DEF DispatchQueueRunning, MarkResume, rowVars, taskVars
<1>2. Quiet(t)
  BY <1>1 DEF Quiet
<1>3. PromiseInv(t)'
  <2>1. Cancelling(t) => token[t] # 0
    BY DEF Cancelling
  <2>2. Heard(t) => Heard(t)'
    BY <1>1 DEF Heard
  <2>3. Undisturbed' => Undisturbed
    BY StaysDisturbed
  <2> QED BY <1>1, <2>1, <2>2, <2>3 DEF TurnInv, PromiseInv
<1> QED BY <1>1, <1>2, <1>3, QuietTurns

\* The commands that fail without a launch.
LEMMA RefusedTurns ==
    ASSUME DispatchTypes, NEW p \in Prompts, NEW t \in Threads, t = ThreadOf[p], TurnInv(t),
           SendQueuedFails(p) \/ SendStartFails(p) \/ DispatchPromptRunningFails(p), Remembered
    PROVE  TurnInv(t)' /\ Elsewhere(t)
<1>1. budget'.faults # 0
  <2>1. Fault("append") \/ FaultyCommand("append")
    BY DEF SendQueuedFails, SendStartFails, DispatchPromptRunningFails
  <2> QED BY <2>1, Counters
<1>2. UNCHANGED <<row, promised, lastTurn, log, minted, tripped, pc, cur, held, shell, why>>
  BY DEF SendQueuedFails, SendStartFails, DispatchPromptRunningFails, rowVars, taskVars
<1>3. \A u \in Threads : u # t => (u \in resume' <=> u \in resume)
  BY DEF SendQueuedFails, SendStartFails, DispatchPromptRunningFails, MarkResume, ClearCancel
<1>4. token' = token \/ token' = [token EXCEPT ![t] = 0]
  BY DEF SendQueuedFails, SendStartFails, DispatchPromptRunningFails, ClearCancel
<1>5. token'[t] \in {0, token[t]} /\ \A u \in Threads : u # t => token'[u] = token[u]
  BY <1>4 DEF DispatchTypes
<1>6. Quiet(t)
  BY <1>2, <1>3, <1>5 DEF Quiet
<1>7. PromiseInv(t)'
  BY <1>1, <1>2, <1>5, FailedPromise
<1> QED BY <1>2, <1>6, <1>7, QuietTurns

-------------------------------------------------------------------------------
(* A prompt is claimed on an idle thread. *)

\* An idle thread holds no claim, all its turns have ended.
LEMMA Idle ==
    ASSUME NEW t \in Threads, TurnInv(t), pc[t] = "none"
    PROVE  /\ ("row" \in FaultKinds => budget.faults = 0) =>
                  \A p \in Prompts : ThreadOf[p] = t => row[p] # "claimed"
           /\ budget.crashes = 0 => InTurns(log[t], lastTurn[t]) /\ AllEnded(log[t])
           /\ Undisturbed => \A p \in Prompts : ThreadOf[p] = t =>
                  /\ promised[p] <= minted[t]
                  /\ row[p] = "unsent" => promised[p] = 0
           /\ Undisturbed => \A p \in Prompts : ThreadOf[p] = t /\ row[p] = "done" =>
                  ShownIn(log[t], p)
<1>1. ~Holding(t) /\ Over(t)
  BY DEF Holding, Over, Publishing
<1> QED BY <1>1 DEF TurnInv, HoldInv, LogInv, PromiseInv, ShowInv

\* What launch_claimed_prompt and send_message's first claim have in common.
LEMMA FreshTurns ==
    ASSUME DispatchTypes, NEW t \in Threads, TurnInv(t), Remembered, pc[t] = "none",
           NEW p \in Prompts, ThreadOf[p] = t, cur'[t] = p, pc'[t] \in {"start", "waiting"},
           minted'[t] = minted[t] + 1, token'[t] = minted'[t], promised' = promised,
           row'[p] = "claimed", \A q \in Prompts : q # p => row'[q] = row[q] \/
                                           (row[q] = "unsent" /\ row'[q] = "queued")
    PROVE  CurInv(t)' /\ HoldInv(t)' /\ PauseInv(t)' /\ PromiseInv(t)'
<1>0. Undisturbed' => Undisturbed
  BY StaysDisturbed
<1>1. CurInv(t)'
  BY DEF CurInv
<1>2. HoldInv(t)'
  BY Idle DEF HoldInv, Holding, Remembered
<1>3. PauseInv(t)'
  BY DEF PauseInv, Leaving, Publishing
<1>4. PromiseInv(t)'
  <2>1. minted[t] \in Nat /\ \A q \in Prompts : promised[q] \in Nat
    BY DEF DispatchTypes
  <2>2. ASSUME Undisturbed', NEW q \in Prompts, ThreadOf[q] = t
        PROVE  promised'[q] < minted'[t] /\ (row'[q] = "unsent" => promised'[q] = 0)
    <3>1. promised[q] <= minted[t] /\ (row[q] = "unsent" => promised[q] = 0)
      BY <1>0, <2>2, Idle
    <3> QED BY <2>1, <3>1
  <2>3. \A q \in Prompts : promised'[q] \in Nat
    BY <2>1
  <2> QED BY <2>1, <2>2, <2>3 DEF PromiseInv
<1> QED BY <1>1, <1>2, <1>3, <1>4

\* launch_claimed_prompt.
LEMMA LaunchTurns ==
    ASSUME DispatchTypes, ClaimInv, NEW t \in Threads, NEW p \in Prompts, ThreadOf[p] = t,
           t \notin active, NEW at, Launch(t, p, at), TurnInv(t)
    PROVE  TurnInv(t)' /\ Elsewhere(t)
<1>0. pc[t] = "none" /\ ClaimTypes
  BY DEF ClaimInv, ActivityAgrees
<1>1. /\ Remembered /\ Elsewhere(t)
      /\ pc'[t] = "start" /\ why'[t] = why[t] /\ cur'[t] = p /\ shell'[t] = FALSE
      /\ log'[t] = log[t] /\ lastTurn'[t] = lastTurn[t] + 1
      /\ minted'[t] = minted[t] + 1 /\ token'[t] = minted'[t]
      /\ row' = [row EXCEPT ![p] = "claimed"] /\ promised' = promised
  BY <1>0, Launched
<1>2. row'[p] = "claimed" /\ \A q \in Prompts : q # p => row'[q] = row[q]
  BY <1>1 DEF DispatchTypes
<1>3. CurInv(t)' /\ HoldInv(t)' /\ PauseInv(t)' /\ PromiseInv(t)'
  BY <1>0, <1>1, <1>2, FreshTurns
<1>4. Undisturbed' => Undisturbed
  BY <1>1, StaysDisturbed
<1>5. ASSUME budget'.crashes = 0 PROVE LogInv(t)'
  <2>1. InTurns(log[t], lastTurn[t]) /\ AllEnded(log[t])
    BY <1>0, <1>1, <1>5, Idle DEF Remembered
  <2>2. log[t] \in Seq(Entry) /\ lastTurn[t] \in Nat
    BY DEF DispatchTypes
  <2>3. /\ InTurns(log'[t], lastTurn'[t]) /\ EndedBelow(log'[t], lastTurn'[t])
        /\ NotBegun(log'[t], lastTurn'[t])
    BY <1>1, <2>1, <2>2, TurnNumbered
  <2> QED BY <1>1, <2>3 DEF LogInv, Working, Over, Publishing
<1>6. ShowInv(t)'
  BY <1>0, <1>1, <1>2, <1>4, Idle DEF ShowInv, Showing, Working, Publishing
<1>7. PathInv(t)'
  BY <1>1, <1>4 DEF TurnInv, PathInv, Publishing
<1> QED BY <1>1, <1>3, <1>5, <1>6, <1>7 DEF TurnInv

\* When it fails the thread is as it was, or stuck.
LEMMA LaunchFailsTurns ==
    ASSUME DispatchTypes, ClaimInv, NEW t \in Threads, NEW p \in Prompts, t \notin active,
           NEW during, NEW after, LaunchFails(t, p, during, after), TurnInv(t)
    PROVE  TurnInv(t)' /\ Elsewhere(t)
<1>0. pc[t] = "none" /\ ClaimTypes
  BY DEF ClaimInv, ActivityAgrees
<1>1. /\ Remembered /\ Elsewhere(t) /\ budget'.faults # 0
      /\ pc'[t] \in {"none", "stuck"} /\ why'[t] = why[t] /\ cur'[t] = cur[t]
      /\ log'[t] = log[t] /\ lastTurn'[t] = lastTurn[t]
      /\ minted'[t] = minted[t] /\ token'[t] = 0 /\ row' = row /\ promised' = promised
  BY <1>0, LaunchFailed
<1>2. CurInv(t)' /\ PathInv(t)'
  BY <1>1 DEF CurInv, HasPrompt, PathInv, Publishing, Undisturbed
<1>3. ASSUME budget'.crashes = 0 PROVE LogInv(t)'
  <2>1. ~Working(t)' /\ Over(t)
    BY <1>0, <1>1 DEF Working, Over, Publishing
  <2> QED BY <1>1, <1>3, <2>1 DEF TurnInv, LogInv, Remembered
<1>4. HoldInv(t)'
  BY <1>0, <1>1, Idle DEF HoldInv, Remembered
<1>5. ShowInv(t)' /\ PauseInv(t)'
  BY <1>1 DEF ShowInv, PauseInv, Undisturbed, Showing, Working, Publishing
<1>6. PromiseInv(t)'
  BY <1>1, FailedPromise
<1> QED BY <1>1, <1>2, <1>3, <1>4, <1>5, <1>6 DEF TurnInv

\* send_message to an idle thread: the shell of the first prompt is durable.
LEMMA SendStartsTurns ==
    ASSUME DispatchTypes, ClaimInv, NEW p \in Prompts, NEW t \in Threads, t = ThreadOf[p],
           TurnInv(t), SendStarts(p), Remembered
    PROVE  TurnInv(t)' /\ Elsewhere(t)
<1>0. pc[t] = "none" /\ ClaimTypes
  BY DEF SendStarts, ClaimInv, ActivityAgrees
<1>1. PICK first \in Prompts :
         /\ ThreadOf[first] = t /\ row[p] = "unsent"
         /\ row' = [row EXCEPT ![p] = "queued", ![first] = "claimed"]
         /\ lastTurn' = [lastTurn EXCEPT ![t] = @ + 1]
         /\ log' = [log EXCEPT ![t] = Append(@, [ev |-> "started", turn |-> lastTurn[t] + 1,
                                                 prompt |-> first])]
         /\ cur' = [cur EXCEPT ![t] = first]
  BY DEF SendStarts, Fronts, Visible
<1>2. /\ pc' = [pc EXCEPT ![t] = "waiting"] /\ shell' = [shell EXCEPT ![t] = TRUE]
      /\ minted' = [minted EXCEPT ![t] = @ + 1] /\ token' = [token EXCEPT ![t] = minted[t] + 1]
      /\ held' = [held EXCEPT ![t] = minted[t] + 1] /\ tripped' = [tripped EXCEPT ![t] = {}]
      /\ why' = why /\ resume' = resume /\ promised' = promised
  BY DEF SendStarts, Goto, RegisterCancel
<1>3. row'[first] = "claimed" /\ \A q \in Prompts : q # first =>
          row'[q] = row[q] \/ (row[q] = "unsent" /\ row'[q] = "queued" /\ ThreadOf[q] = t)
  <2> DEFINE r == [row EXCEPT ![p] = "queued"]
  <2>1. r \in [Prompts -> RowStates] /\ \A q \in Prompts : r[q] = IF q = p THEN "queued" ELSE row[q]
    BY DEF DispatchTypes, RowStates
  <2>2. row' = [r EXCEPT ![first] = "claimed"]
    BY <1>1
  <2> HIDE DEF r
  <2> QED BY <1>1, <2>1, <2>2
<1> DEFINE e == [ev |-> "started", turn |-> lastTurn[t] + 1, prompt |-> first]
<1>4. /\ log[t] \in Seq(Entry) /\ lastTurn[t] \in Nat /\ e \in Entry /\ e.turn = lastTurn[t] + 1
      /\ e.ev = "started" /\ e.prompt = first
  <2>1. log[t] \in Seq(Entry) /\ lastTurn[t] \in Nat
    BY DEF DispatchTypes
  <2> QED BY <2>1 DEF Entry, Kinds
<1>5. log' = [log EXCEPT ![t] = Append(log[t], e)]
  BY <1>1
<1> HIDE DEF e
<1>6. /\ log'[t] = Append(log[t], e) /\ lastTurn'[t] = lastTurn[t] + 1 /\ cur'[t] = first
      /\ \A u \in Threads : u # t => /\ log'[u] = log[u] /\ lastTurn'[u] = lastTurn[u]
                                     /\ cur'[u] = cur[u]
  BY <1>1, <1>5 DEF DispatchTypes
<1>7. /\ pc'[t] = "waiting" /\ shell'[t] = TRUE /\ minted'[t] = minted[t] + 1
      /\ token'[t] = minted'[t]
      /\ \A u \in Threads : u # t =>
             /\ pc'[u] = pc[u] /\ shell'[u] = shell[u] /\ minted'[u] = minted[u]
             /\ token'[u] = token[u] /\ held'[u] = held[u] /\ tripped'[u] = tripped[u]
  BY <1>0, <1>2 DEF DispatchTypes, ClaimTypes
<1>8. Elsewhere(t)
  <2>1. ThreadOf[first] = t /\ why' = why /\ resume' = resume /\ promised' = promised
    BY <1>1, <1>2
  <2>2. \A u \in Threads : u # t => Same(u)
    BY <1>6, <1>7, <2>1 DEF Same
  <2>3. \A u \in Threads : u # t => SamePrompts(u)
    BY <1>3, <2>1 DEF SamePrompts
  <2> QED BY <2>2, <2>3 DEF Elsewhere
<1>9. CurInv(t)' /\ HoldInv(t)' /\ PauseInv(t)' /\ PromiseInv(t)'
  <2>1. ThreadOf[first] = t /\ promised' = promised
    BY <1>1, <1>2
  <2>2. \A q \in Prompts : q # first =>
            row'[q] = row[q] \/ (row[q] = "unsent" /\ row'[q] = "queued")
    BY <1>3
  <2>3. pc'[t] \in {"start", "waiting"} /\ row'[first] = "claimed"
    BY <1>3, <1>7
  <2> QED BY <1>0, <1>6, <1>7, <2>1, <2>2, <2>3, FreshTurns
<1>10. Undisturbed' => Undisturbed
  BY StaysDisturbed
<1>11. ASSUME budget'.crashes = 0 PROVE LogInv(t)'
  <2>1. InTurns(log[t], lastTurn[t]) /\ AllEnded(log[t])
    BY <1>0, <1>11, Idle DEF Remembered
  <2>2. /\ InTurns(log[t], lastTurn[t] + 1) /\ EndedBelow(log[t], lastTurn[t] + 1)
        /\ NotBegun(log[t], lastTurn[t] + 1)
    BY <1>4, <2>1, TurnNumbered
  <2>3. /\ InTurns(log'[t], lastTurn'[t]) /\ EndedBelow(log'[t], lastTurn'[t])
        /\ OnlyStarted(log'[t], lastTurn'[t])
    BY <1>4, <1>6, <2>2, TurnStarts
  <2> QED BY <1>7, <2>3 DEF LogInv, Working, Over, Publishing
<1>12. ShowInv(t)'
  <2>1. ShownIn(log'[t], first)
    <3>1. Append(log[t], e)[Len(log[t]) + 1] = e /\ Len(log[t]) + 1 \in 1 .. Len(Append(log[t], e))
      BY <1>4, Appended
    <3> QED BY <1>4, <1>6, <3>1 DEF ShownIn
  <2>2. \A q : ShownIn(log[t], q) => ShownIn(log'[t], q)
    BY <1>4, <1>6, LogGrows
  <2>3. ASSUME Undisturbed', NEW q \in Prompts, ThreadOf[q] = t, row'[q] = "done"
        PROVE  ShownIn(log'[t], q)
    <3>1. row[q] = "done"
      BY <1>3, <2>3
    <3> QED BY <1>0, <1>10, <2>2, <2>3, <3>1, Idle
  <2> QED BY <1>6, <1>7, <2>1, <2>3 DEF ShowInv, Showing
<1>13. PathInv(t)'
  BY <1>2, <1>7, <1>10 DEF TurnInv, PathInv, Publishing
<1> QED BY <1>8, <1>9, <1>11, <1>12, <1>13 DEF TurnInv

-------------------------------------------------------------------------------
(* The dispatcher moves on. *)

\* Its turn, its prompt and its token stay what they are.
Steady == UNCHANGED <<lastTurn, token, minted, tripped, resume, cur, held, promised>>

\* So they say of every thread; the rest is its own.
LEMMA SteadyElsewhere ==
    ASSUME NEW t \in Threads, Steady,
           \A u \in Threads : u # t => /\ pc'[u] = pc[u] /\ why'[u] = why[u]
                                       /\ shell'[u] = shell[u] /\ log'[u] = log[u],
           \A p \in Prompts : ThreadOf[p] # t => row'[p] = row[p]
    PROVE  Elsewhere(t)
BY DEF Elsewhere, Steady, Same, SamePrompts

\* Where the shell of a turn that runs is written.
Shelled(t) == \/ pc[t] \in {"waiting", "running", "completing"}
              \/ Publishing(t) /\ why[t] = "routed"

\* A move to a place where no more is known than where it comes from.
Onward(t) ==
    /\ HasPrompt(t)' => HasPrompt(t)
    /\ Working(t)' => Working(t) \/ pc[t] = "start"
    /\ Over(t)' => Over(t) \/ (pc[t] = "okay" /\ ~Cancelled(t))
    /\ pc'[t] = "okay" => Working(t) /\ Cancelled(t)
    /\ pc'[t] \notin {"start", "cancelling", "none"}
    /\ Holding(t) => Holding(t)'
    /\ Shelled(t)' => Shelled(t)
    /\ Leaving(t)' => Leaving(t)
    /\ Undisturbed' => pc'[t] \notin {"resumed", "releasing"}
    /\ pc[t] \notin {"resumed", "releasing", "none", "cancelling"} \/ budget'.faults # 0

\* Nothing but the place changes.
LEMMA PlainTurns ==
    ASSUME NEW t \in Threads, TurnInv(t), Remembered, Steady, UNCHANGED <<row, log, shell, why>>,
           Onward(t), PathInv(t)'
    PROVE  TurnInv(t)'
<1>1. Cancelled(t)' = Cancelled(t) /\ (Undisturbed' => Undisturbed)
  BY StaysDisturbed DEF Cancelled, Steady
<1>2. CurInv(t)'
  BY DEF TurnInv, CurInv, Onward, Steady
<1>3. ASSUME budget'.crashes = 0 PROVE LogInv(t)'
  <2>1. LogInv(t)
    BY <1>3 DEF TurnInv, Remembered
  <2>2. NotBegun(log[t], lastTurn[t]) => OnlyStarted(log[t], lastTurn[t])
    BY DEF NotBegun, OnlyStarted
  <2>3. OnlyStarted(log[t], lastTurn[t]) => Cancellable(log[t], lastTurn[t])
    BY DEF Cancellable, OnlyStarted
  <2>4. log' = log /\ lastTurn' = lastTurn /\ shell' = shell
    BY DEF Steady
  <2>5. InTurns(log'[t], lastTurn'[t]) /\ EndedBelow(log'[t], lastTurn'[t])
    BY <2>1, <2>4 DEF LogInv
  <2>6. Working(t)' => /\ OnlyStarted(log'[t], lastTurn'[t])
                       /\ ~shell'[t] => NotBegun(log'[t], lastTurn'[t])
    BY <2>1, <2>2, <2>4 DEF LogInv, Onward
  <2>7. pc'[t] = "okay" => /\ Cancellable(log'[t], lastTurn'[t]) /\ Cancelled(t)'
                           /\ ~shell'[t] => NotBegun(log'[t], lastTurn'[t])
    BY <1>1, <2>1, <2>3, <2>4 DEF LogInv, Onward
  <2>8. Over(t)' => AllEnded(log'[t])
    BY <2>1, <2>4 DEF LogInv, Onward
  <2>9. pc'[t] \notin {"start", "cancelling"}
    BY DEF Onward
  <2> QED BY <2>5, <2>6, <2>7, <2>8, <2>9 DEF LogInv
<1>4. HoldInv(t)'
  BY DEF TurnInv, HoldInv, Onward, Steady, Remembered
<1>5. ShowInv(t)'
  <2>1. log' = log /\ shell' = shell /\ row' = row /\ cur' = cur
    BY DEF Steady
  <2>2. Showing(t)' => Showing(t) \/ pc[t] = "start"
    BY DEF Showing, Onward
  <2>3. pc[t] = "start" => ~shell[t]
    BY DEF TurnInv, PathInv
  <2>4. Shelled(t)' => shell'[t]
    BY <2>1 DEF Onward, TurnInv, ShowInv, Shelled
  <2>5. Showing(t)' /\ shell'[t] => ShownIn(log'[t], cur'[t])
    BY <2>1, <2>2, <2>3 DEF TurnInv, ShowInv
  <2>6. Undisturbed' => pc[t] # "cancelling"
    BY DEF Onward, Undisturbed
  <2>7. ASSUME Undisturbed', NEW p \in Prompts, ThreadOf[p] = t, row'[p] = "done"
        PROVE  ShownIn(log'[t], p)
    BY <1>1, <2>1, <2>6, <2>7 DEF TurnInv, ShowInv
  <2> QED BY <2>4, <2>5, <2>7 DEF ShowInv, Shelled
<1>6. PauseInv(t)'
  BY <1>1 DEF TurnInv, PauseInv, Onward
<1>7. PromiseInv(t)'
  <2>1. token' = token /\ minted' = minted /\ promised' = promised /\ row' = row /\ resume' = resume
    BY DEF Steady
  <2>2. Undisturbed' => pc'[t] \notin {"resumed", "releasing", "none"}
    BY DEF Onward
  <2>3. Undisturbed' => (Heard(t) => Heard(t)')
    BY <2>1 DEF Heard, Onward, Undisturbed
  <2> QED BY <1>1, <2>1, <2>2, <2>3 DEF TurnInv, PromiseInv
<1> QED BY <1>2, <1>3, <1>4, <1>5, <1>6, <1>7 DEF TurnInv

\* The steps of a turn, and of its settlement, that only move on.
LEMMA MovesTurn ==
    ASSUME DispatchTypes, ClaimTypes, NEW t \in Threads, TurnInv(t), Remembered,
           \/ Conclude(t) \/ StopOnCancel(t) \/ EndBadly(t)
           \/ SettleCompleted(t) \/ SettleFails(t) \/ ReadQueue(t) \/ EmitQueue(t)
    PROVE  TurnInv(t)' /\ Elsewhere(t)
<1>1. Steady /\ UNCHANGED <<row, log, shell, why>>
  BY DEF Conclude, StopOnCancel, EndBadly, SettleCompleted, SettleFails, ReadQueue, EmitQueue,
         Steady, rowVars, tokenVars, others
<1> DEFINE Moves(there) == pc' = [pc EXCEPT ![t] = there]
<1>2. PICK there : Moves(there)
  <2>1. CASE Conclude(t) \/ StopOnCancel(t) \/ EndBadly(t)
    BY <2>1 DEF Conclude, StopOnCancel, EndBadly, Goto
  <2>2. CASE SettleCompleted(t) \/ SettleFails(t) \/ ReadQueue(t) \/ EmitQueue(t)
    BY <2>2 DEF SettleCompleted, SettleFails, ReadQueue, EmitQueue, Goto
  <2> QED BY <2>1, <2>2
<1>3. pc'[t] = there /\ \A u \in Threads : u # t => pc'[u] = pc[u]
  BY <1>2 DEF ClaimTypes
<1>4. Elsewhere(t)
  BY <1>1, <1>3, SteadyElsewhere
<1>5. why'[t] = why[t] /\ shell'[t] = shell[t] /\ Cancelled(t)' = Cancelled(t)
      /\ (Undisturbed' => Undisturbed) /\ PathInv(t)
  BY <1>1, StaysDisturbed DEF Steady, Cancelled, TurnInv
<1> HIDE DEF Moves
<1> USE DEF Onward, HasPrompt, Working, Over, Holding, Shelled, Leaving, Publishing, PathInv
<1>6. CASE Conclude(t)
  <2>1. pc[t] = "running" /\ pc'[t] = "completing"
    BY <1>6, <1>3 DEF Conclude, At, Goto, ClaimTypes
  <2>2. Onward(t) /\ PathInv(t)'
    BY <2>1, <1>5
  <2> QED BY <1>1, <1>4, <2>2, PlainTurns
<1>7. CASE StopOnCancel(t)
  <2>1. pc[t] \in {"waiting", "running"} /\ pc'[t] = "okay" /\ Cancelled(t)
    BY <1>7, <1>3 DEF StopOnCancel, Goto, ClaimTypes
  <2>2. Onward(t) /\ PathInv(t)'
    BY <2>1, <1>5
  <2> QED BY <1>1, <1>4, <2>2, PlainTurns
<1>8. CASE EndBadly(t)
  <2>1. pc[t] \in {"start", "waiting", "running", "completing"} /\ pc'[t] \in {"erred", "panicked"}
    BY <1>8, <1>3 DEF EndBadly, InTurn, Goto, ClaimTypes
  <2>2. Onward(t) /\ PathInv(t)'
    BY <2>1, <1>5
  <2> QED BY <1>1, <1>4, <2>2, PlainTurns
<1>9. CASE SettleCompleted(t)
  <2>1. pc[t] = "okay" /\ pc'[t] = "next" /\ ~Cancelled(t)
    BY <1>9, <1>3 DEF SettleCompleted, At, Goto, ClaimTypes
  <2>2. Onward(t) /\ PathInv(t)'
    BY <2>1, <1>5
  <2> QED BY <1>1, <1>4, <2>2, PlainTurns
<1>10. CASE SettleFails(t)
  <2>1. /\ pc[t] \in {"okay", "erred", "cancelling", "panicked"} /\ pc'[t] = "stuck"
    BY <1>10, <1>3 DEF SettleFails, Goto, ClaimTypes
  <2>2. budget'.faults # 0
    BY <1>10, Counters DEF SettleFails
  <2>3. Onward(t) /\ PathInv(t)'
    BY <2>1, <2>2, <1>5
  <2> QED BY <1>1, <1>4, <2>3, PlainTurns
<1>11. CASE ReadQueue(t)
  <2>1. pc[t] = "read" /\ pc'[t] = "emit"
    BY <1>11, <1>3 DEF ReadQueue, At, Goto, ClaimTypes
  <2>2. Onward(t) /\ PathInv(t)'
    BY <2>1, <1>5
  <2> QED BY <1>1, <1>4, <2>2, PlainTurns
<1>12. CASE EmitQueue(t)
  <2>1. /\ pc[t] = "emit"
        /\ pc'[t] = AfterEmit[why[t]] \/ (why[t] = "routed" /\ pc'[t] = "erred")
    <3>1. pc[t] = "emit"
      BY <1>12 DEF EmitQueue, At
    <3>2. Goto(t, AfterEmit[why[t]]) \/ (why[t] = "routed" /\ Goto(t, "erred"))
      BY <1>12 DEF EmitQueue
    <3>3. \A x : Goto(t, x) => pc'[t] = x
      BY DEF Goto, ClaimTypes
    <3> QED BY <3>1, <3>2, <3>3
  <2>2. why[t] \in {"failed", "panicked", "unnumbered", "claimed", "routed"}
    BY <2>1 DEF ClaimTypes, Reasons
  <2>3. \/ why[t] = "failed" /\ pc'[t] = "interrupted"
        \/ why[t] = "panicked" /\ pc'[t] = "clearing"
        \/ why[t] = "unnumbered" /\ pc'[t] = "releasing"
        \/ why[t] = "claimed" /\ pc'[t] = "numbering"
        \/ why[t] = "routed" /\ pc'[t] \in {"running", "erred"}
    BY <2>1, <2>2 DEF AfterEmit
  <2>4. pc[t] = "emit"
    BY <2>1
  <2>5. Onward(t) /\ PathInv(t)'
    BY <2>3, <2>4, <1>5
  <2> QED BY <1>1, <1>4, <2>5, PlainTurns
<1> QED BY <1>6, <1>7, <1>8, <1>9, <1>10, <1>11, <1>12

-------------------------------------------------------------------------------
(* The dispatcher writes to the log. *)

\* What a write leaves alone.
LEMMA WriteKeeps ==
    ASSUME NEW t \in Threads, TurnInv(t), Remembered, Steady, row' = row,
           HasPrompt(t)' => HasPrompt(t), Holding(t) => Holding(t)',
           {pc[t], pc'[t]} \cap {"none", "resumed", "releasing"} = {}
    PROVE  CurInv(t)' /\ HoldInv(t)' /\ PromiseInv(t)'
<1>1. Undisturbed' => Undisturbed
  BY StaysDisturbed
<1>2. CurInv(t)'
  BY DEF TurnInv, CurInv, Steady
<1>3. HoldInv(t)'
  BY DEF TurnInv, HoldInv, Steady, Remembered
<1>4. PromiseInv(t)'
  <2>1. token' = token /\ minted' = minted /\ promised' = promised /\ resume' = resume
    BY DEF Steady
  <2>2. Heard(t) => Heard(t)'
    BY <2>1 DEF Heard
  <2> QED BY <1>1, <2>1, <2>2 DEF TurnInv, PromiseInv
<1> QED BY <1>2, <1>3, <1>4

\* What an event appended to a log makes of it.
LEMMA WriteLog ==
    ASSUME DispatchTypes, NEW t \in Threads, NEW kind \in Kinds, Append1(t, kind),
           lastTurn' = lastTurn
    PROVE  /\ log[t] \in Seq(Entry) /\ lastTurn[t] \in Nat
           /\ \A u \in Threads : u # t => log'[u] = log[u]
           /\ \A p : ShownIn(log[t], p) => ShownIn(log'[t], p)
           /\ (/\ kind = "started" /\ InTurns(log[t], lastTurn[t])
               /\ EndedBelow(log[t], lastTurn[t]) /\ NotBegun(log[t], lastTurn[t])) =>
                  /\ InTurns(log'[t], lastTurn'[t]) /\ EndedBelow(log'[t], lastTurn'[t])
                  /\ OnlyStarted(log'[t], lastTurn'[t])
           /\ kind = "started" => ShownIn(log'[t], cur[t])
           /\ (/\ kind # "started" /\ InTurns(log[t], lastTurn[t])
               /\ EndedBelow(log[t], lastTurn[t]) /\ OnlyStarted(log[t], lastTurn[t])) =>
                  /\ InTurns(log'[t], lastTurn'[t]) /\ EndedBelow(log'[t], lastTurn'[t])
                  /\ AllEnded(log'[t])
                  /\ kind = "completed" => Cancellable(log'[t], lastTurn'[t])
           /\ kind \in {"failed", "cancelled"} => Interrupted(log'[t])
<1> DEFINE e == Event(t, kind)
<1>1. /\ e \in Entry /\ log[t] \in Seq(Entry) /\ e.turn = lastTurn[t] /\ e.ev = kind
      /\ e.prompt = cur[t]
  BY EventTyped
<1>2. log'[t] = Append(log[t], e)
  BY AppendTyped
<1>3. \A u \in Threads : u # t => log'[u] = log[u]
  BY DEF Append1, DispatchTypes
<1>4. lastTurn[t] \in Nat
  BY DEF DispatchTypes
<1> HIDE DEF e
<1>5. \A p : ShownIn(log[t], p) => ShownIn(log'[t], p)
  BY <1>1, <1>2, LogGrows
<1>6. /\ Append(log[t], e)[Len(log[t]) + 1] = e /\ Append(log[t], e) # <<>>
      /\ Len(Append(log[t], e)) = Len(log[t]) + 1 /\ Len(log[t]) \in Nat
  BY <1>1, Appended
<1>7. kind = "started" => ShownIn(log'[t], cur[t])
  <2>1. Len(log[t]) + 1 \in 1 .. Len(Append(log[t], e))
    BY <1>6
  <2> QED BY <1>1, <1>2, <1>6, <2>1 DEF ShownIn
<1>8. kind \in {"failed", "cancelled"} => Interrupted(log'[t])
  BY <1>1, <1>2, <1>6 DEF Interrupted
<1>9. ASSUME /\ kind = "started" /\ InTurns(log[t], lastTurn[t])
             /\ EndedBelow(log[t], lastTurn[t]) /\ NotBegun(log[t], lastTurn[t])
      PROVE  /\ InTurns(log'[t], lastTurn'[t]) /\ EndedBelow(log'[t], lastTurn'[t])
             /\ OnlyStarted(log'[t], lastTurn'[t])
  BY <1>1, <1>2, <1>4, <1>9, TurnStarts
<1>10. ASSUME /\ kind # "started" /\ InTurns(log[t], lastTurn[t])
              /\ EndedBelow(log[t], lastTurn[t]) /\ OnlyStarted(log[t], lastTurn[t])
       PROVE  /\ InTurns(log'[t], lastTurn'[t]) /\ EndedBelow(log'[t], lastTurn'[t])
              /\ AllEnded(log'[t])
              /\ kind = "completed" => Cancellable(log'[t], lastTurn'[t])
  BY <1>1, <1>2, <1>4, <1>10, TurnEnds
<1> QED BY <1>1, <1>3, <1>4, <1>5, <1>7, <1>8, <1>9, <1>10

\* A write of one event moves the dispatcher and leaves the other threads alone.
LEMMA WriteElsewhere ==
    ASSUME DispatchTypes, ClaimTypes, NEW t \in Threads, NEW kind \in Kinds, Append1(t, kind),
           Steady, row' = row, NEW there, Goto(t, there),
           \A u \in Threads : u # t => why'[u] = why[u] /\ shell'[u] = shell[u]
    PROVE  Elsewhere(t) /\ pc'[t] = there
<1>1. pc'[t] = there /\ \A u \in Threads : u # t => pc'[u] = pc[u]
  BY DEF Goto, ClaimTypes
<1>2. \A u \in Threads : u # t => log'[u] = log[u]
  BY DEF Append1, DispatchTypes
<1> QED BY <1>1, <1>2, SteadyElsewhere

\* run_turn publishes the shell.
LEMMA PersistShellTurns ==
    ASSUME DispatchTypes, ClaimTypes, NEW t \in Threads, TurnInv(t), Remembered, PersistShell(t)
    PROVE  TurnInv(t)' /\ Elsewhere(t)
<1>1. /\ pc[t] = "start" /\ Append1(t, "started") /\ Steady /\ row' = row /\ why' = why
      /\ shell' = [shell EXCEPT ![t] = TRUE] /\ Goto(t, "waiting") /\ "started" \in Kinds
  BY DEF PersistShell, At, Steady, rowVars, tokenVars, others, Kinds
<1>2. shell'[t] = TRUE /\ \A u \in Threads : u # t => shell'[u] = shell[u]
  BY <1>1 DEF DispatchTypes
<1>3. Elsewhere(t) /\ pc'[t] = "waiting"
  BY <1>1, <1>2, WriteElsewhere
<1>4. lastTurn' = lastTurn /\ cur' = cur /\ (Undisturbed' => Undisturbed)
  BY <1>1, StaysDisturbed DEF Steady
<1>5. CurInv(t)' /\ HoldInv(t)' /\ PromiseInv(t)'
  <2>1. HasPrompt(t) /\ Holding(t)'
    BY <1>1, <1>3 DEF HasPrompt, Holding
  <2> QED BY <1>1, <1>3, <2>1, WriteKeeps
<1>6. ASSUME budget'.crashes = 0 PROVE LogInv(t)'
  <2>1. /\ InTurns(log[t], lastTurn[t]) /\ EndedBelow(log[t], lastTurn[t])
        /\ NotBegun(log[t], lastTurn[t])
    BY <1>1, <1>6 DEF TurnInv, LogInv, Remembered
  <2>2. /\ InTurns(log'[t], lastTurn'[t]) /\ EndedBelow(log'[t], lastTurn'[t])
        /\ OnlyStarted(log'[t], lastTurn'[t])
    BY <1>1, <1>4, <2>1, WriteLog
  <2> QED BY <1>2, <1>3, <2>2 DEF LogInv, Over, Publishing
<1>7. ShowInv(t)'
  <2>1. ShownIn(log'[t], cur'[t]) /\ \A p : ShownIn(log[t], p) => ShownIn(log'[t], p)
    BY <1>1, <1>4, WriteLog
  <2>2. Undisturbed => \A p \in Prompts : ThreadOf[p] = t /\ row[p] = "done" => ShownIn(log[t], p)
    BY <1>1 DEF TurnInv, ShowInv
  <2> QED BY <1>1, <1>2, <1>4, <2>1, <2>2 DEF ShowInv
<1>8. PauseInv(t)' /\ PathInv(t)'
  BY <1>1, <1>3, <1>4 DEF TurnInv, PauseInv, PathInv, Leaving, Publishing
<1> QED BY <1>3, <1>5, <1>6, <1>7, <1>8 DEF TurnInv

\* The completed event.
LEMMA CompleteTurns ==
    ASSUME DispatchTypes, ClaimTypes, NEW t \in Threads, TurnInv(t), Remembered, Complete(t)
    PROVE  TurnInv(t)' /\ Elsewhere(t)
<1>1. /\ pc[t] = "completing" /\ Append1(t, "completed") /\ Steady /\ row' = row /\ why' = why
      /\ shell' = shell /\ Goto(t, "okay") /\ "completed" \in Kinds
  BY DEF Complete, At, Steady, rowVars, tokenVars, others, Kinds
<1>3. Elsewhere(t) /\ pc'[t] = "okay"
  BY <1>1, WriteElsewhere
<1>4. lastTurn' = lastTurn /\ cur' = cur /\ (Undisturbed' => Undisturbed)
  BY <1>1, StaysDisturbed DEF Steady
<1>5. CurInv(t)' /\ HoldInv(t)' /\ PromiseInv(t)'
  <2>1. HasPrompt(t) /\ ~Holding(t)
    BY <1>1 DEF HasPrompt, Holding, Publishing
  <2> QED BY <1>1, <1>3, <2>1, WriteKeeps
<1>6. shell[t]
  BY <1>1 DEF TurnInv, ShowInv
<1>7. ASSUME budget'.crashes = 0 PROVE LogInv(t)'
  <2>1. /\ InTurns(log[t], lastTurn[t]) /\ EndedBelow(log[t], lastTurn[t])
        /\ OnlyStarted(log[t], lastTurn[t])
    BY <1>1, <1>7 DEF TurnInv, LogInv, Remembered, Working
  <2>2. /\ InTurns(log'[t], lastTurn'[t]) /\ EndedBelow(log'[t], lastTurn'[t])
        /\ AllEnded(log'[t]) /\ Cancellable(log'[t], lastTurn'[t])
    BY <1>1, <1>4, <2>1, WriteLog
  <2> QED BY <1>1, <1>3, <1>6, <2>2 DEF LogInv, Over, Working, Publishing
<1>8. ShowInv(t)'
  <2>1. \A p : ShownIn(log[t], p) => ShownIn(log'[t], p)
    BY <1>1, <1>4, WriteLog
  <2>2. ShownIn(log[t], cur[t])
    BY <1>1, <1>6 DEF TurnInv, ShowInv, Showing, Working
  <2>3. Undisturbed => \A p \in Prompts : ThreadOf[p] = t /\ row[p] = "done" => ShownIn(log[t], p)
    BY <1>1 DEF TurnInv, ShowInv
  <2> QED BY <1>1, <1>3, <1>4, <1>6, <2>1, <2>2, <2>3 DEF ShowInv, Publishing
<1>9. PauseInv(t)' /\ PathInv(t)'
  BY <1>1, <1>3, <1>4 DEF TurnInv, PauseInv, PathInv, Leaving, Publishing
<1> QED BY <1>3, <1>5, <1>7, <1>8, <1>9 DEF TurnInv

\* The failed event of a turn that returned an error or panicked.
LEMMA FailedTurns ==
    ASSUME DispatchTypes, ClaimTypes, NEW t \in Threads, TurnInv(t), Remembered,
           SettleFailed(t) \/ SettlePanic(t)
    PROVE  TurnInv(t)' /\ Elsewhere(t)
<1>1. /\ pc[t] \in {"erred", "panicked"} /\ Append1(t, "failed") /\ Steady /\ row' = row
      /\ shell' = shell /\ Goto(t, "giveBack") /\ "failed" \in Kinds
      /\ why' = [why EXCEPT ![t] = "failed"] \/ why' = [why EXCEPT ![t] = "panicked"]
  BY DEF SettleFailed, SettlePanic, At, Steady, rowVars, tokenVars, others, Kinds
<1>2. why'[t] \in {"failed", "panicked"} /\ \A u \in Threads : u # t => why'[u] = why[u]
  BY <1>1 DEF ClaimTypes
<1>3. Elsewhere(t) /\ pc'[t] = "giveBack"
  <2>1. Append1(t, "failed") /\ "failed" \in Kinds /\ Steady /\ row' = row /\ shell' = shell
        /\ Goto(t, "giveBack")
    BY <1>1
  <2> QED BY <1>2, <2>1, WriteElsewhere
<1>4. /\ lastTurn' = lastTurn /\ cur' = cur /\ row' = row /\ (Undisturbed' => Undisturbed)
      /\ pc[t] \in {"erred", "panicked"} /\ Append1(t, "failed") /\ "failed" \in Kinds /\ Steady
  BY <1>1, StaysDisturbed DEF Steady
<1>5. CurInv(t)' /\ HoldInv(t)' /\ PromiseInv(t)'
  <2>1. HasPrompt(t) /\ Holding(t)'
    BY <1>3, <1>4 DEF HasPrompt, Holding
  <2> QED BY <1>3, <1>4, <2>1, WriteKeeps
<1>7. ASSUME budget'.crashes = 0 PROVE LogInv(t)'
  <2>1. /\ InTurns(log[t], lastTurn[t]) /\ EndedBelow(log[t], lastTurn[t])
        /\ OnlyStarted(log[t], lastTurn[t])
    BY <1>4, <1>7 DEF TurnInv, LogInv, Remembered, Working
  <2>2. /\ InTurns(log'[t], lastTurn'[t]) /\ EndedBelow(log'[t], lastTurn'[t])
        /\ AllEnded(log'[t])
    BY <1>4, <2>1, WriteLog
  <2> QED BY <1>3, <2>2 DEF LogInv, Working, Publishing
<1>8. ShowInv(t)'
  <2>1. \A p : ShownIn(log[t], p) => ShownIn(log'[t], p)
    BY <1>4, WriteLog
  <2>3. Undisturbed => \A p \in Prompts : ThreadOf[p] = t /\ row[p] = "done" => ShownIn(log[t], p)
    BY <1>4 DEF TurnInv, ShowInv
  <2> QED BY <1>3, <1>4, <2>1, <2>3 DEF ShowInv, Showing, Working, Publishing
<1>9. PauseInv(t)' /\ PathInv(t)'
  <2>1. Interrupted(log'[t])
    BY <1>4, WriteLog
  <2> QED BY <1>2, <1>3, <2>1 DEF PauseInv, PathInv, Publishing
<1> QED BY <1>3, <1>5, <1>7, <1>8, <1>9 DEF TurnInv

\* The cancelled event, after a shell if there was none.
LEMMA CancelledTurns ==
    ASSUME DispatchTypes, ClaimTypes, NEW t \in Threads, TurnInv(t), Remembered, RecordCancelled(t)
    PROVE  TurnInv(t)' /\ Elsewhere(t)
<1>1. /\ pc[t] = "cancelling" /\ Steady /\ row' = row /\ why' = why /\ shell' = shell
      /\ pc' = [pc EXCEPT ![t] = "interrupted"]
  BY DEF RecordCancelled, At, Goto, Steady, rowVars, tokenVars, others
<1>2. pc'[t] = "interrupted" /\ \A u \in Threads : u # t => pc'[u] = pc[u]
  BY <1>1 DEF ClaimTypes
<1> DEFINE a == Event(t, "started")
           b == Event(t, "cancelled")
           n == lastTurn[t]
<1>3. /\ \A u \in Threads : u # t => log'[u] = log[u]
      /\ shell[t] => log'[t] = Append(log[t], b)
      /\ ~shell[t] => log'[t] = Append(Append(log[t], a), b)
  BY Recorded
<1>4. /\ a \in Entry /\ a.turn = n /\ a.ev = "started" /\ a.prompt = cur[t]
      /\ b \in Entry /\ b.turn = n /\ b.ev = "cancelled"
      /\ log[t] \in Seq(Entry) /\ n \in Nat
  BY EventTyped DEF Kinds, DispatchTypes
<1> HIDE DEF a, b
<1>5. Elsewhere(t)
  BY <1>1, <1>2, <1>3, SteadyElsewhere
<1>6. lastTurn' = lastTurn /\ cur' = cur /\ (Undisturbed' => Undisturbed)
  BY <1>1, StaysDisturbed DEF Steady
<1>7. CurInv(t)' /\ HoldInv(t)' /\ PromiseInv(t)'
  <2>1. HasPrompt(t) /\ ~Holding(t)
    BY <1>1 DEF HasPrompt, Holding, Publishing
  <2> QED BY <1>1, <1>2, <2>1, WriteKeeps
<1>8. ASSUME budget'.crashes = 0
      PROVE  InTurns(log'[t], n) /\ EndedBelow(log'[t], n) /\ AllEnded(log'[t])
  <2>1. /\ InTurns(log[t], n) /\ EndedBelow(log[t], n) /\ Cancellable(log[t], n)
        /\ ~shell[t] => NotBegun(log[t], n)
    BY <1>1, <1>8 DEF TurnInv, LogInv, Remembered
  <2>2. CASE shell[t]
    <3>1. log'[t] = Append(log[t], b)
      BY <1>3, <2>2
    <3> QED BY <1>4, <2>1, <3>1, TurnEnds
  <2>3. CASE ~shell[t]
    <3> DEFINE l == Append(log[t], a)
    <3>1. InTurns(l, n) /\ EndedBelow(l, n) /\ OnlyStarted(l, n)
      BY <1>4, <2>1, <2>3, TurnStarts
    <3>2. l \in Seq(Entry) /\ log'[t] = Append(l, b)
      BY <1>3, <1>4, <2>3, Appended
    <3> HIDE DEF l
    <3> QED BY <1>4, <3>1, <3>2, TurnEnds
  <2> QED BY <2>2, <2>3
<1>9. LogInv(t)' \/ budget'.crashes # 0
  BY <1>2, <1>6, <1>8 DEF LogInv, Working, Publishing
<1>10. /\ ShownIn(log'[t], cur[t]) /\ Interrupted(log'[t])
       /\ \A p : ShownIn(log[t], p) => ShownIn(log'[t], p)
  <2>0. \A l \in Seq(Entry) : Interrupted(Append(l, b))
    <3> SUFFICES ASSUME NEW l \in Seq(Entry) PROVE Interrupted(Append(l, b))
      OBVIOUS
    <3>1. /\ Append(l, b)[Len(l) + 1] = b /\ Append(l, b) # <<>>
          /\ Len(Append(l, b)) = Len(l) + 1
      BY <1>4, Appended
    <3> QED BY <1>4, <3>1 DEF Interrupted
  <2>1. CASE shell[t]
    <3>1. log'[t] = Append(log[t], b)
      BY <1>3, <2>1
    <3>2. ShownIn(log[t], cur[t])
      BY <1>1, <2>1 DEF TurnInv, ShowInv, Showing
    <3>3. \A p : ShownIn(log[t], p) => ShownIn(log'[t], p)
      BY <1>4, <3>1, LogGrows
    <3>4. Interrupted(log'[t])
      BY <1>4, <2>0, <3>1
    <3> QED BY <3>2, <3>3, <3>4
  <2>2. CASE ~shell[t]
    <3> DEFINE l == Append(log[t], a)
    <3>1. /\ l \in Seq(Entry) /\ log'[t] = Append(l, b) /\ l[Len(log[t]) + 1] = a
          /\ Len(l) = Len(log[t]) + 1 /\ Len(log[t]) \in Nat
      BY <1>3, <1>4, <2>2, Appended
    <3>2. \A p : ShownIn(log[t], p) => ShownIn(l, p)
      BY <1>4, LogGrows
    <3> HIDE DEF l
    <3>3. ShownIn(l, cur[t])
      <4>1. Len(log[t]) + 1 \in 1 .. Len(l)
        BY <3>1
      <4> QED BY <1>4, <3>1, <4>1 DEF ShownIn
    <3>4. \A p : ShownIn(l, p) => ShownIn(log'[t], p)
      BY <1>4, <3>1, LogGrows
    <3>5. Interrupted(log'[t])
      BY <1>4, <2>0, <3>1
    <3> QED BY <3>2, <3>3, <3>4, <3>5
  <2> QED BY <2>1, <2>2
<1>11. ShowInv(t)'
  <2>1. Undisturbed => \A p \in Prompts : ThreadOf[p] = t /\ row[p] = "done" =>
            ShownIn(log[t], p) \/ cur[t] = p
    BY DEF TurnInv, ShowInv
  <2> QED BY <1>1, <1>2, <1>6, <1>10, <2>1 DEF ShowInv, Showing, Working, Publishing
<1>12. PauseInv(t)' /\ PathInv(t)'
  BY <1>1, <1>2, <1>6, <1>10 DEF TurnInv, PauseInv, PathInv, Publishing
<1> QED BY <1>5, <1>7, <1>9, <1>11, <1>12 DEF TurnInv

-------------------------------------------------------------------------------
(* The dispatcher finishes its prompt, or gives it back. *)

\* The dispatcher has a prompt, of its thread.
LEMMA PromptInHand ==
    ASSUME NEW t \in Threads, TurnInv(t), HasPrompt(t)
    PROVE  cur[t] \in Prompts /\ ThreadOf[cur[t]] = t
BY DEF TurnInv, CurInv

\* When its prompt is not claimed any more, no prompt of the thread is.
LEMMA HoldEnds ==
    ASSUME NEW t \in Threads, TurnInv(t), Remembered, row'[cur[t]] # "claimed",
           \A p \in Prompts : p # cur[t] => row'[p] = row[p]
    PROVE  HoldInv(t)'
BY DEF TurnInv, HoldInv, Remembered

\* A promise to a prompt that leaves the queue, or comes back to it, is kept.
LEMMA RowPromise ==
    ASSUME DispatchTypes, NEW t \in Threads, TurnInv(t), Remembered, Steady,
           {pc[t], pc'[t]} \cap {"none", "resumed", "releasing"} = {},
           \A p \in Prompts : ThreadOf[p] = t =>
               row'[p] = row[p] \/ row'[p] = "done" \/ (row[p] = "claimed" /\ row'[p] = "queued")
    PROVE  PromiseInv(t)'
<1>1. Undisturbed' => Undisturbed
  BY StaysDisturbed
<1>2. token' = token /\ minted' = minted /\ promised' = promised /\ resume' = resume
  BY DEF Steady
<1>3. Heard(t) => Heard(t)'
  BY <1>2 DEF Heard
<1>4. token[t] \in {0, minted[t]}
  BY DEF TurnInv, PromiseInv
<1>5. ASSUME Undisturbed', NEW p \in Prompts, ThreadOf[p] = t
      PROVE  /\ promised'[p] <= minted'[t]
             /\ row'[p] = "unsent" => promised'[p] = 0
             /\ row'[p] = "claimed" => promised'[p] < minted'[t]
             /\ row'[p] = "queued" /\ promised'[p] # 0 /\ promised'[p] = minted'[t] => Heard(t)'
  <2>1. /\ promised[p] <= minted[t]
        /\ row[p] = "unsent" => promised[p] = 0
        /\ row[p] = "claimed" => promised[p] < minted[t]
        /\ row[p] = "queued" /\ promised[p] # 0 /\ promised[p] = minted[t] => Heard(t)
    BY <1>1, <1>5 DEF TurnInv, PromiseInv
  <2>2. CASE row'[p] = row[p]
    BY <1>2, <1>3, <2>1, <2>2
  <2>3. CASE row'[p] = "done"
    BY <1>2, <2>1, <2>3
  <2>4. CASE row[p] = "claimed" /\ row'[p] = "queued"
    <3>1. promised[p] < minted[t] /\ promised[p] \in Nat /\ minted[t] \in Nat
      BY <2>1, <2>4 DEF DispatchTypes
    <3> QED BY <1>2, <2>1, <2>4, <3>1
  <2> QED BY <1>5, <2>2, <2>3, <2>4
<1> QED BY <1>2, <1>4, <1>5 DEF PromiseInv

\* finish_queued_prompt.
LEMMA ConsumeTurns ==
    ASSUME DispatchTypes, ClaimTypes, NEW t \in Threads, TurnInv(t), Remembered, Consume(t)
    PROVE  TurnInv(t)' /\ Elsewhere(t)
<1>1. /\ pc[t] = "waiting" /\ row[cur[t]] = "claimed" /\ Steady /\ log' = log /\ shell' = shell
      /\ row' = [row EXCEPT ![cur[t]] = "done"]
      /\ \/ pc' = [pc EXCEPT ![t] = "read"] /\ why' = [why EXCEPT ![t] = "routed"]
         \/ pc' = [pc EXCEPT ![t] = "running"] /\ why' = why
  BY DEF Consume, At, Goto, Steady, tokenVars, others
<1>2. /\ \A u \in Threads : u # t => pc'[u] = pc[u] /\ why'[u] = why[u]
      /\ \/ pc'[t] = "running" /\ why'[t] = why[t]
         \/ pc'[t] = "read" /\ why'[t] = "routed"
  <2>1. CASE pc' = [pc EXCEPT ![t] = "read"] /\ why' = [why EXCEPT ![t] = "routed"]
    BY <2>1 DEF ClaimTypes
  <2>2. CASE pc' = [pc EXCEPT ![t] = "running"] /\ why' = why
    BY <2>2 DEF ClaimTypes
  <2> QED BY <1>1, <2>1, <2>2
<1>3. /\ pc[t] = "waiting" /\ row[cur[t]] = "claimed" /\ Steady /\ log' = log /\ shell' = shell
      /\ lastTurn' = lastTurn /\ cur' = cur /\ (Undisturbed' => Undisturbed) /\ HasPrompt(t)
  BY <1>1, StaysDisturbed DEF Steady, HasPrompt
<1>4. cur[t] \in Prompts /\ ThreadOf[cur[t]] = t
  BY <1>3, PromptInHand
<1>5. /\ cur[t] \in Prompts /\ ThreadOf[cur[t]] = t /\ row'[cur[t]] = "done"
      /\ \A p \in Prompts : p # cur[t] => row'[p] = row[p]
      /\ HoldInv(t)'
  <2>1. row'[cur[t]] = "done" /\ \A p \in Prompts : p # cur[t] => row'[p] = row[p]
    BY <1>1, <1>4 DEF DispatchTypes
  <2> QED BY <1>4, <2>1, HoldEnds
<1>6. Elsewhere(t)
  BY <1>2, <1>3, <1>5, SteadyElsewhere
<1>7. CurInv(t)'
  BY <1>3, <1>5 DEF CurInv
<1>8. shell[t] /\ ShownIn(log[t], cur[t])
  BY <1>3 DEF TurnInv, ShowInv, Showing, Working
<1>9. ASSUME budget'.crashes = 0 PROVE LogInv(t)'
  <2>1. /\ InTurns(log[t], lastTurn[t]) /\ EndedBelow(log[t], lastTurn[t])
        /\ OnlyStarted(log[t], lastTurn[t])
    BY <1>3, <1>9 DEF TurnInv, LogInv, Remembered, Working
  <2> QED BY <1>2, <1>3, <1>8, <2>1 DEF LogInv, Over, Publishing
<1>10. ShowInv(t)'
  <2>1. Undisturbed => \A p \in Prompts : ThreadOf[p] = t /\ row[p] = "done" => ShownIn(log[t], p)
    BY <1>3 DEF TurnInv, ShowInv
  <2> QED BY <1>3, <1>5, <1>8, <2>1 DEF ShowInv
<1>11. PauseInv(t)' /\ PathInv(t)'
  BY <1>2, <1>3 DEF TurnInv, PauseInv, PathInv, Leaving, Publishing
<1>12. PromiseInv(t)'
  BY <1>2, <1>3, <1>5, RowPromise
<1> QED BY <1>5, <1>6, <1>7, <1>9, <1>10, <1>11, <1>12 DEF TurnInv

\* The prompt of a cancelled turn is finished.
LEMMA SettleCancelledTurns ==
    ASSUME DispatchTypes, ClaimTypes, NEW t \in Threads, TurnInv(t), Remembered, SettleCancelled(t)
    PROVE  TurnInv(t)' /\ Elsewhere(t)
<1>1. /\ pc[t] \in {"okay", "erred"} /\ Cancelled(t) /\ Steady
      /\ log' = log /\ shell' = shell /\ why' = why
      /\ row' = [row EXCEPT ![cur[t]] = IF @ = "claimed" THEN "done" ELSE @]
      /\ pc' = [pc EXCEPT ![t] = "cancelling"]
  BY DEF SettleCancelled, Returned, Goto, Steady, tokenVars, others
<1>2. pc'[t] = "cancelling" /\ \A u \in Threads : u # t => pc'[u] = pc[u]
  BY <1>1 DEF ClaimTypes
<1>3. lastTurn' = lastTurn /\ cur' = cur /\ (Undisturbed' => Undisturbed) /\ HasPrompt(t)
  BY <1>1, StaysDisturbed DEF Steady, HasPrompt
<1>4. /\ cur[t] \in Prompts /\ ThreadOf[cur[t]] = t
      /\ row'[cur[t]] = IF row[cur[t]] = "claimed" THEN "done" ELSE row[cur[t]]
      /\ \A p \in Prompts : p # cur[t] => row'[p] = row[p]
      /\ HoldInv(t)'
  <2>1. cur[t] \in Prompts /\ ThreadOf[cur[t]] = t
    BY <1>3, PromptInHand
  <2>2. /\ row'[cur[t]] = IF row[cur[t]] = "claimed" THEN "done" ELSE row[cur[t]]
        /\ \A p \in Prompts : p # cur[t] => row'[p] = row[p]
    BY <1>1, <2>1 DEF DispatchTypes
  <2> QED BY <2>1, <2>2, HoldEnds
<1>5. /\ pc[t] \in {"okay", "erred"} /\ Steady /\ log' = log /\ shell' = shell /\ why' = why
  BY <1>1
<1>6. Elsewhere(t)
  BY <1>2, <1>4, <1>5, SteadyElsewhere
<1>7. CurInv(t)'
  BY <1>3, <1>4 DEF CurInv
<1>8. ASSUME budget'.crashes = 0 PROVE LogInv(t)'
  <2>1. LogInv(t)
    BY <1>8 DEF TurnInv, Remembered
  <2>2. OnlyStarted(log[t], lastTurn[t]) => Cancellable(log[t], lastTurn[t])
    BY DEF Cancellable, OnlyStarted
  <2>3. /\ Cancellable(log[t], lastTurn[t]) /\ (~shell[t] => NotBegun(log[t], lastTurn[t]))
        /\ InTurns(log[t], lastTurn[t]) /\ EndedBelow(log[t], lastTurn[t])
    BY <1>5, <2>1, <2>2 DEF LogInv, Working
  <2> QED BY <1>2, <1>3, <1>5, <2>3 DEF LogInv, Over, Working, Publishing
<1>9. ShowInv(t)'
  <2>1. shell[t] => ShownIn(log[t], cur[t])
    BY <1>5 DEF TurnInv, ShowInv, Showing, Working
  <2>2. Undisturbed => \A p \in Prompts : ThreadOf[p] = t /\ row[p] = "done" => ShownIn(log[t], p)
    BY <1>5 DEF TurnInv, ShowInv
  <2> QED BY <1>2, <1>3, <1>4, <1>5, <2>1, <2>2 DEF ShowInv, Publishing
<1>10. PauseInv(t)' /\ PathInv(t)'
  BY <1>2, <1>3, <1>5 DEF TurnInv, PauseInv, PathInv, Leaving, Publishing
<1>11. PromiseInv(t)'
  BY <1>2, <1>4, <1>5, RowPromise
<1> QED BY <1>4, <1>6, <1>7, <1>8, <1>9, <1>10, <1>11 DEF TurnInv

\* release_queued_prompt.
LEMMA GiveBackTurns ==
    ASSUME DispatchTypes, ClaimTypes, NEW t \in Threads, TurnInv(t), Remembered, GiveBack(t)
    PROVE  TurnInv(t)' /\ Elsewhere(t)
<1>1. /\ pc[t] = "giveBack" /\ Steady /\ log' = log /\ shell' = shell /\ why' = why
      /\ pc' = [pc EXCEPT ![t] = "read"]
      /\ \/ row' = [row EXCEPT ![cur[t]] = IF @ = "claimed" THEN "queued" ELSE @]
         \/ Fault("row") /\ row' = row
  BY DEF GiveBack, At, Goto, Steady, tokenVars, others
<1>2. /\ pc[t] = "giveBack" /\ Steady /\ log' = log /\ shell' = shell /\ why' = why
      /\ pc'[t] = "read" /\ \A u \in Threads : u # t => pc'[u] = pc[u]
  BY <1>1 DEF ClaimTypes
<1>3. /\ lastTurn' = lastTurn /\ cur' = cur /\ (Undisturbed' => Undisturbed) /\ HasPrompt(t)
      /\ why[t] \in {"failed", "panicked", "unnumbered"}
  BY <1>2, StaysDisturbed DEF Steady, HasPrompt, TurnInv, PathInv
<1>4. /\ cur[t] \in Prompts /\ ThreadOf[cur[t]] = t
      /\ \A p \in Prompts : \/ row'[p] = row[p]
                            \/ p = cur[t] /\ row[p] = "claimed" /\ row'[p] = "queued"
      /\ HoldInv(t)'
  <2>1. CASE row' = [row EXCEPT ![cur[t]] = IF @ = "claimed" THEN "queued" ELSE @]
    <3>1. cur[t] \in Prompts /\ ThreadOf[cur[t]] = t
      BY <1>3, PromptInHand
    <3>2. /\ row'[cur[t]] = IF row[cur[t]] = "claimed" THEN "queued" ELSE row[cur[t]]
          /\ \A p \in Prompts : p # cur[t] => row'[p] = row[p]
      BY <2>1, <3>1 DEF DispatchTypes
    <3>3. HoldInv(t)'
      BY <3>2, HoldEnds
    <3> QED BY <3>1, <3>2, <3>3
  <2>2. CASE Fault("row") /\ row' = row
    <3>1. budget'.faults # 0 /\ "row" \in FaultKinds
      BY <2>2, Counters DEF Fault
    <3>2. HoldInv(t)'
      BY <3>1 DEF HoldInv
    <3> QED BY <1>3, <2>2, <3>2 DEF TurnInv, CurInv
  <2> QED BY <1>1, <2>1, <2>2
<1>5. Elsewhere(t)
  BY <1>2, <1>4, SteadyElsewhere
<1>6. CurInv(t)'
  BY <1>3, <1>4 DEF CurInv
<1>7. ASSUME budget'.crashes = 0 PROVE LogInv(t)'
  <2>1. InTurns(log[t], lastTurn[t]) /\ EndedBelow(log[t], lastTurn[t]) /\ AllEnded(log[t])
    BY <1>2, <1>7 DEF TurnInv, LogInv, Remembered, Over
  <2> QED BY <1>2, <1>3, <2>1 DEF LogInv, Working, Publishing
<1>8. ShowInv(t)'
  <2>1. Undisturbed => \A p \in Prompts : ThreadOf[p] = t /\ row[p] = "done" => ShownIn(log[t], p)
    BY <1>2 DEF TurnInv, ShowInv
  <2>2. \A p \in Prompts : row'[p] = "done" => row[p] = "done"
    BY <1>4
  <2> QED BY <1>2, <1>3, <2>1, <2>2 DEF ShowInv, Showing, Working
<1>9. PauseInv(t)' /\ PathInv(t)'
  <2>1. Undisturbed => Interrupted(log[t])
    BY <1>2 DEF TurnInv, PauseInv, Leaving
  <2> QED BY <1>2, <1>3, <2>1 DEF TurnInv, PauseInv, PathInv
<1>10. PromiseInv(t)'
  <2>1. \A p \in Prompts : row'[p] = row[p] \/ (row[p] = "claimed" /\ row'[p] = "queued")
    BY <1>4
  <2> QED BY <1>2, <2>1, RowPromise
<1> QED BY <1>4, <1>5, <1>6, <1>7, <1>8, <1>9, <1>10 DEF TurnInv

-------------------------------------------------------------------------------
(* The dispatcher leaves, or goes on to the next prompt. *)

\* What leaving does to the thread, and to no other.
LEMMA Left ==
    ASSUME DispatchTypes, ClaimTypes, NEW t \in Threads, NEW n \in Nat, LeaveThread(t, n),
           UNCHANGED <<row, promised, lastTurn, log, minted, tripped, why>>,
           \A u \in Threads : u # t => token'[u] = token[u] /\ (u \in resume' <=> u \in resume)
    PROVE  /\ Remembered /\ Elsewhere(t)
           /\ n # 0 => budget'.faults # 0
           /\ pc'[t] = "none" \/ (pc'[t] = "stuck" /\ budget'.faults # 0)
<1>1. /\ Spend(n) \/ Spend(n + 1)
      /\ \/ pc' = [pc EXCEPT ![t] = "none"] /\ cur' = [cur EXCEPT ![t] = NoPrompt]
            /\ held' = [held EXCEPT ![t] = 0] /\ shell' = [shell EXCEPT ![t] = FALSE]
         \/ pc' = [pc EXCEPT ![t] = "stuck"] /\ Spend(n + 1) /\ UNCHANGED <<cur, held, shell>>
  BY DEF LeaveThread, EndTask, Goto
<1>2. /\ Remembered
      /\ budget'.faults = budget.faults + n \/ budget'.faults = budget.faults + n + 1
      /\ Spend(n + 1) => budget'.faults = budget.faults + n + 1
      /\ budget.faults \in Nat
  BY <1>1, Counters
<1>3. /\ \A u \in Threads : u # t => /\ pc'[u] = pc[u] /\ cur'[u] = cur[u]
                                     /\ held'[u] = held[u] /\ shell'[u] = shell[u]
      /\ pc'[t] = "none" \/ (pc'[t] = "stuck" /\ Spend(n + 1))
  <2>1. CASE pc' = [pc EXCEPT ![t] = "none"] /\ cur' = [cur EXCEPT ![t] = NoPrompt]
             /\ held' = [held EXCEPT ![t] = 0] /\ shell' = [shell EXCEPT ![t] = FALSE]
    BY <2>1 DEF ClaimTypes, DispatchTypes
  <2>2. CASE pc' = [pc EXCEPT ![t] = "stuck"] /\ Spend(n + 1) /\ UNCHANGED <<cur, held, shell>>
    BY <2>2 DEF ClaimTypes
  <2> QED BY <1>1, <2>1, <2>2
<1>4. Elsewhere(t)
  BY <1>3 DEF Elsewhere, Same, SamePrompts
<1> QED BY <1>2, <1>3, <1>4

\* Leaving from a place where all turns have ended and no prompt is in hand.
LEMMA LeaveTurns ==
    ASSUME DispatchTypes, ClaimTypes, NEW t \in Threads, TurnInv(t), NEW n \in Nat,
           LeaveThread(t, n), UNCHANGED <<row, promised, lastTurn, log, minted, tripped, why>>,
           \A u \in Threads : u # t => token'[u] = token[u] /\ (u \in resume' <=> u \in resume),
           pc[t] \in {"releasing", "interrupted", "next", "resumed"},
           token'[t] \in {0, token[t]},
           Undisturbed' => /\ token'[t] = 0 /\ t \notin resume'
                           /\ Visible(t) # {} => Leaving(t) /\ (Heard(t) => why[t] = "panicked")
    PROVE  TurnInv(t)' /\ Elsewhere(t)
<1>1. /\ Remembered /\ Elsewhere(t)
      /\ pc'[t] = "none" \/ (pc'[t] = "stuck" /\ budget'.faults # 0)
  BY Left
<1>2. (Undisturbed' => Undisturbed) /\ (Undisturbed' => pc'[t] = "none")
  BY <1>1, StaysDisturbed DEF Undisturbed
<1>3. Over(t) /\ ~Working(t)' /\ ~Publishing(t)' /\ ~Holding(t) /\ ~Leaving(t)'
  BY <1>1 DEF Over, Working, Publishing, Holding, Leaving
<1>4. CurInv(t)' /\ PathInv(t)'
  BY <1>1, <1>2, <1>3 DEF TurnInv, CurInv, HasPrompt, PathInv
<1>5. ASSUME budget'.crashes = 0 PROVE LogInv(t)'
  <2>1. InTurns(log[t], lastTurn[t]) /\ EndedBelow(log[t], lastTurn[t]) /\ AllEnded(log[t])
    BY <1>1, <1>3, <1>5 DEF TurnInv, LogInv, Remembered
  <2> QED BY <1>1, <1>3, <2>1 DEF LogInv
<1>6. HoldInv(t)'
  BY <1>1, <1>3 DEF TurnInv, HoldInv, Remembered
<1>7. ShowInv(t)'
  <2>1. Undisturbed => \A p \in Prompts : ThreadOf[p] = t /\ row[p] = "done" => ShownIn(log[t], p)
    BY DEF TurnInv, ShowInv
  <2> QED BY <1>1, <1>2, <1>3, <2>1 DEF ShowInv, Showing
<1>8. PauseInv(t)'
  <2>1. Visible(t)' = Visible(t)
    BY DEF Visible
  <2> QED BY <1>2, <1>3, <2>1 DEF TurnInv, PauseInv
<1>9. PromiseInv(t)'
  <2>1. token'[t] \in {0, minted'[t]}
    BY DEF TurnInv, PromiseInv
  <2>2. ASSUME Undisturbed', NEW p \in Prompts, ThreadOf[p] = t
        PROVE  /\ promised'[p] <= minted'[t]
               /\ row'[p] = "unsent" => promised'[p] = 0
               /\ row'[p] = "claimed" => promised'[p] < minted'[t]
               /\ row'[p] = "queued" /\ promised'[p] # 0 /\ promised'[p] = minted'[t] => Heard(t)'
    <3>1. row[p] = "queued" => Visible(t) # {}
      BY <2>2 DEF Visible
    <3>2. row[p] = "queued" => (Heard(t) => Heard(t)')
      BY <1>2, <2>2, <3>1 DEF Heard
    <3> QED BY <1>2, <2>2, <3>2 DEF TurnInv, PromiseInv
  <2> QED BY <2>1, <2>2 DEF PromiseInv
<1> QED BY <1>1, <1>4, <1>5, <1>6, <1>7, <1>8, <1>9 DEF TurnInv

\* release_thread after a panic or a turn that got no number.
LEMMA ReleaseTurns ==
    ASSUME DispatchTypes, ClaimTypes, NEW t \in Threads, TurnInv(t), ReleaseThread(t)
    PROVE  TurnInv(t)' /\ Elsewhere(t)
<1>1. /\ pc[t] = "releasing" /\ LeaveThread(t, 0) /\ 0 \in Nat
      /\ UNCHANGED <<row, promised, lastTurn, log, minted, tripped, why, token, resume>>
  BY DEF ReleaseThread, At, rowVars, tokenVars, others
<1>2. Remembered
  BY <1>1, Left
<1>3. Undisturbed' => token'[t] = 0 /\ t \notin resume'
  BY <1>1, <1>2, StaysDisturbed DEF TurnInv, PromiseInv
<1>4. Leaving(t)
  BY <1>1 DEF Leaving
<1>5. Undisturbed' => (Heard(t) => why[t] = "panicked")
  BY <1>1, <1>3 DEF Heard
<1> QED BY <1>1, <1>3, <1>4, <1>5, LeaveTurns

\* The token is dropped after a panic, and a marker with it.
LEMMA ClearingTurns ==
    ASSUME DispatchTypes, ClaimTypes, NEW t \in Threads, TurnInv(t), Remembered, ClearAfterPanic(t)
    PROVE  TurnInv(t)' /\ Elsewhere(t)
<1>1. /\ pc[t] = "clearing" /\ token' = [token EXCEPT ![t] = 0] /\ resume' = resume \ {t}
      /\ pc' = [pc EXCEPT ![t] = "releasing"]
      /\ UNCHANGED <<row, promised, lastTurn, log, minted, tripped, why, cur, held, shell>>
  BY DEF ClearAfterPanic, At, Goto, ClearCancel, rowVars, others
<1>2. /\ token'[t] = 0 /\ t \notin resume' /\ pc'[t] = "releasing"
      /\ \A u \in Threads : u # t => /\ token'[u] = token[u] /\ (u \in resume' <=> u \in resume)
                                     /\ pc'[u] = pc[u]
  BY <1>1 DEF DispatchTypes, ClaimTypes
<1>3. /\ pc[t] = "clearing"
      /\ UNCHANGED <<row, promised, lastTurn, log, minted, tripped, why, cur, held, shell>>
  BY <1>1
<1>4. Elsewhere(t)
  BY <1>2, <1>3 DEF Elsewhere, Same, SamePrompts
<1>5. (Undisturbed' => Undisturbed) /\ why[t] = "panicked"
  BY <1>3, StaysDisturbed DEF TurnInv, PathInv
<1>6. /\ Over(t) /\ Leaving(t) /\ ~Working(t)' /\ ~Publishing(t)' /\ ~Holding(t) /\ ~HasPrompt(t)'
      /\ Heard(t)'
  BY <1>2, <1>3, <1>5 DEF Over, Leaving, Working, Publishing, Holding, HasPrompt, Heard
<1>7. CurInv(t)' /\ PathInv(t)' /\ HoldInv(t)'
  BY <1>2, <1>3, <1>5, <1>6 DEF TurnInv, CurInv, PathInv, HoldInv, Remembered
<1>8. ASSUME budget'.crashes = 0 PROVE LogInv(t)'
  BY <1>2, <1>3, <1>6, <1>8 DEF TurnInv, LogInv, Remembered
<1>9. ShowInv(t)' /\ PauseInv(t)'
  BY <1>2, <1>3, <1>5, <1>6 DEF TurnInv, ShowInv, PauseInv, Showing
<1>10. PromiseInv(t)'
  BY <1>2, <1>3, <1>5, <1>6 DEF TurnInv, PromiseInv
<1> QED BY <1>4, <1>7, <1>8, <1>9, <1>10 DEF TurnInv

\* finish_interrupted_turn.
LEMMA InterruptedTurns ==
    ASSUME DispatchTypes, ClaimTypes, NEW t \in Threads, TurnInv(t), FinishInterrupted(t)
    PROVE  TurnInv(t)' /\ Elsewhere(t)
<1>1. /\ pc[t] = "interrupted" /\ token' = [token EXCEPT ![t] = 0] /\ resume' = resume \ {t}
      /\ UNCHANGED <<row, promised, lastTurn, log, minted, tripped, why>>
  BY DEF FinishInterrupted, At, ClearCancel, rowVars, others
<1>2. /\ token'[t] = 0 /\ t \notin resume' /\ pc[t] = "interrupted"
      /\ \A u \in Threads : u # t => token'[u] = token[u] /\ (u \in resume' <=> u \in resume)
      /\ UNCHANGED <<row, promised, lastTurn, log, minted, tripped, why>>
  BY <1>1 DEF DispatchTypes
<1>3. CASE t \notin resume /\ LeaveThread(t, 0)
  <2>1. ~Heard(t) /\ Leaving(t)
    BY <1>2, <1>3 DEF Heard, Leaving
  <2>2. 0 \in Nat
    OBVIOUS
  <2> QED BY <1>2, <1>3, <2>1, <2>2, LeaveTurns
<1>4. CASE /\ t \in resume /\ pc' = [pc EXCEPT ![t] = "resumed"]
           /\ UNCHANGED <<cur, held, shell, budget>>
  <2>1. /\ pc'[t] = "resumed" /\ \A u \in Threads : u # t => pc'[u] = pc[u]
        /\ UNCHANGED <<cur, held, shell, budget>>
    BY <1>4 DEF ClaimTypes
  <2>2. Elsewhere(t) /\ Remembered
    BY <1>2, <2>1, Counters DEF Elsewhere, Same, SamePrompts
  <2>3. Undisturbed' => Undisturbed
    BY <2>2, StaysDisturbed
  <2>4. /\ Over(t) /\ ~Leaving(t)' /\ ~Working(t)' /\ ~Publishing(t)' /\ ~Holding(t)
        /\ ~HasPrompt(t)' /\ Heard(t)'
    BY <1>2, <2>1 DEF Over, Leaving, Working, Publishing, Holding, HasPrompt, Heard
  <2>5. CurInv(t)' /\ PathInv(t)' /\ HoldInv(t)'
    BY <1>2, <2>1, <2>2, <2>3, <2>4 DEF TurnInv, CurInv, PathInv, HoldInv, Remembered
  <2>6. ASSUME budget'.crashes = 0 PROVE LogInv(t)'
    BY <1>2, <2>1, <2>2, <2>4, <2>6 DEF TurnInv, LogInv, Remembered
  <2>7. ShowInv(t)' /\ PauseInv(t)'
    BY <1>2, <2>1, <2>3, <2>4 DEF TurnInv, ShowInv, PauseInv, Showing
  <2>8. PromiseInv(t)'
    BY <1>2, <2>1, <2>3, <2>4 DEF TurnInv, PromiseInv
  <2> QED BY <2>2, <2>5, <2>6, <2>7, <2>8 DEF TurnInv
<1>5. \/ t \notin resume /\ LeaveThread(t, 0)
      \/ /\ t \in resume /\ pc' = [pc EXCEPT ![t] = "resumed"]
         /\ UNCHANGED <<cur, held, shell, budget>>
  BY DEF FinishInterrupted, Goto
<1> QED BY <1>3, <1>4, <1>5

\* Nothing to claim, or the claim failed.
LEMMA NothingNextTurns ==
    ASSUME DispatchTypes, ClaimTypes, NEW t \in Threads, TurnInv(t), NothingNext(t)
    PROVE  TurnInv(t)' /\ Elsewhere(t)
<1>1. PICK n \in {0, 1} : LeaveThread(t, n) /\ (n = 0 => Visible(t) = {})
  BY DEF NothingNext
<1>2. /\ pc[t] \in {"next", "resumed"}
      /\ UNCHANGED <<row, promised, lastTurn, log, minted, tripped, why>>
  BY DEF NothingNext, rowVars, others
<1>3. \/ pc[t] = "next" /\ token' = [token EXCEPT ![t] = 0] /\ resume' = resume \ {t}
      \/ pc[t] = "resumed" /\ token' = token /\ resume' = resume
  BY <1>2 DEF NothingNext, At, ClearCancel
<1>4. /\ \A u \in Threads : u # t => token'[u] = token[u] /\ (u \in resume' <=> u \in resume)
      /\ pc[t] = "next" => token'[t] = 0 /\ t \notin resume'
      /\ pc[t] = "resumed" => token'[t] = token[t] /\ resume' = resume
  <2>1. CASE pc[t] = "next" /\ token' = [token EXCEPT ![t] = 0] /\ resume' = resume \ {t}
    BY <2>1 DEF DispatchTypes
  <2>2. CASE pc[t] = "resumed" /\ token' = token /\ resume' = resume
    BY <2>2
  <2> QED BY <1>3, <2>1, <2>2
<1>5. Remembered /\ (n # 0 => budget'.faults # 0)
  BY <1>1, <1>2, <1>4, Left
<1>6. ASSUME Undisturbed' PROVE token'[t] = 0 /\ t \notin resume' /\ Visible(t) = {}
  <2>1. n = 0 /\ Undisturbed
    BY <1>1, <1>5, <1>6, StaysDisturbed DEF Undisturbed
  <2> QED BY <1>1, <1>2, <1>4, <2>1 DEF TurnInv, PromiseInv
<1>7. token'[t] \in {0, token[t]} /\ n \in Nat
  BY <1>2, <1>4
<1> QED BY <1>1, <1>2, <1>4, <1>6, <1>7, LeaveTurns

\* The front prompt is claimed, with a fresh token.
LEMMA ClaimNextTurns ==
    ASSUME DispatchTypes, ClaimTypes, NEW t \in Threads, TurnInv(t), Remembered, ClaimNext(t)
    PROVE  TurnInv(t)' /\ Elsewhere(t)
<1>1. PICK p \in Prompts : /\ ThreadOf[p] = t /\ row[p] = "queued"
                           /\ row' = [row EXCEPT ![p] = "claimed"]
                           /\ cur' = [cur EXCEPT ![t] = p]
  BY DEF ClaimNext, Fronts, Visible
<1>2. /\ pc[t] \in {"next", "resumed"} /\ lastTurn' = lastTurn /\ log' = log /\ promised' = promised
      /\ minted' = [minted EXCEPT ![t] = @ + 1] /\ token' = [token EXCEPT ![t] = minted[t] + 1]
      /\ held' = [held EXCEPT ![t] = minted[t] + 1] /\ tripped' = [tripped EXCEPT ![t] = {}]
      /\ shell' = [shell EXCEPT ![t] = FALSE] /\ why' = [why EXCEPT ![t] = "claimed"]
      /\ pc' = [pc EXCEPT ![t] = "read"] /\ (resume' = resume \/ resume' = resume \ {t})
  BY DEF ClaimNext, RegisterCancel, Goto, others
<1>3. /\ row'[p] = "claimed" /\ cur'[t] = p /\ ThreadOf[p] = t /\ row[p] = "queued"
      /\ \A q \in Prompts : q # p => row'[q] = row[q]
      /\ \A u \in Threads : u # t => cur'[u] = cur[u]
  BY <1>1 DEF DispatchTypes
<1>4. /\ pc'[t] = "read" /\ why'[t] = "claimed" /\ shell'[t] = FALSE
      /\ minted'[t] = minted[t] + 1 /\ token'[t] = minted[t] + 1
      /\ \A u \in Threads : u # t =>
             /\ pc'[u] = pc[u] /\ why'[u] = why[u] /\ shell'[u] = shell[u]
             /\ minted'[u] = minted[u] /\ token'[u] = token[u] /\ held'[u] = held[u]
             /\ tripped'[u] = tripped[u] /\ (u \in resume' <=> u \in resume)
  BY <1>2 DEF DispatchTypes, ClaimTypes
<1>5. /\ pc[t] \in {"next", "resumed"} /\ lastTurn' = lastTurn /\ log' = log
      /\ promised' = promised
  BY <1>2
<1>6. Elsewhere(t)
  <2>1. \A u \in Threads : u # t => Same(u)
    BY <1>3, <1>4, <1>5 DEF Same
  <2>2. \A u \in Threads : u # t => SamePrompts(u)
    BY <1>3, <1>5 DEF SamePrompts
  <2> QED BY <2>1, <2>2 DEF Elsewhere
<1>7. (Undisturbed' => Undisturbed) /\ Over(t) /\ Over(t)' /\ ~Working(t)' /\ ~Leaving(t)'
      /\ ~Holding(t) /\ Holding(t)'
  BY <1>4, <1>5, StaysDisturbed DEF Over, Working, Leaving, Holding, Publishing
<1>8. CurInv(t)' /\ PathInv(t)'
  BY <1>3, <1>4 DEF CurInv, PathInv, Publishing
<1>9. HoldInv(t)'
  BY <1>3, <1>7 DEF TurnInv, HoldInv, Remembered
<1>10. ASSUME budget'.crashes = 0 PROVE LogInv(t)'
  <2>1. InTurns(log[t], lastTurn[t]) /\ EndedBelow(log[t], lastTurn[t]) /\ AllEnded(log[t])
    BY <1>7, <1>10 DEF TurnInv, LogInv, Remembered
  <2> QED BY <1>4, <1>5, <1>7, <2>1 DEF LogInv
<1>11. ShowInv(t)'
  <2>1. Undisturbed => \A q \in Prompts : ThreadOf[q] = t /\ row[q] = "done" => ShownIn(log[t], q)
    BY <1>5 DEF TurnInv, ShowInv
  <2>2. \A q \in Prompts : row'[q] = "done" => row[q] = "done"
    BY <1>3
  <2> QED BY <1>4, <1>5, <1>7, <2>1, <2>2 DEF ShowInv, Showing
<1>12. PauseInv(t)'
  BY <1>4, <1>7 DEF PauseInv
<1>13. PromiseInv(t)'
  <2>1. minted[t] \in Nat /\ \A q \in Prompts : promised[q] \in Nat
    BY DEF DispatchTypes
  <2>2. ASSUME Undisturbed', NEW q \in Prompts, ThreadOf[q] = t
        PROVE  promised'[q] < minted'[t] /\ (row'[q] = "unsent" => promised'[q] = 0)
    <3>1. promised[q] <= minted[t] /\ (row[q] = "unsent" => promised[q] = 0)
      BY <1>7, <2>2 DEF TurnInv, PromiseInv
    <3> QED BY <1>3, <1>4, <1>5, <2>1, <3>1
  <2>3. minted'[t] \in Nat /\ \A q \in Prompts : promised'[q] \in Nat
    BY <1>4, <1>5, <2>1
  <2> QED BY <1>4, <2>2, <2>3 DEF PromiseInv
<1> QED BY <1>6, <1>8, <1>9, <1>10, <1>11, <1>12, <1>13 DEF TurnInv

\* next_turn.
LEMMA NumberTurns ==
    ASSUME DispatchTypes, ClaimTypes, NEW t \in Threads, TurnInv(t), Remembered, NumberTurn(t)
    PROVE  TurnInv(t)' /\ Elsewhere(t)
<1>1. /\ pc[t] = "numbering"
      /\ UNCHANGED <<row, promised, log, token, minted, tripped, resume, cur, held, shell>>
      /\ \/ /\ lastTurn' = [lastTurn EXCEPT ![t] = @ + 1] /\ pc' = [pc EXCEPT ![t] = "start"]
            /\ why' = why
         \/ /\ Fault("row") /\ why' = [why EXCEPT ![t] = "unnumbered"]
            /\ pc' = [pc EXCEPT ![t] = "giveBack"] /\ lastTurn' = lastTurn
  BY DEF NumberTurn, At, Goto, rowVars, tokenVars, others
<1>2. /\ \A u \in Threads : u # t => /\ pc'[u] = pc[u] /\ why'[u] = why[u]
                                     /\ lastTurn'[u] = lastTurn[u]
      /\ \/ pc'[t] = "start" /\ why'[t] = why[t] /\ lastTurn'[t] = lastTurn[t] + 1
         \/ /\ pc'[t] = "giveBack" /\ why'[t] = "unnumbered" /\ lastTurn'[t] = lastTurn[t]
            /\ budget'.faults # 0
  <2>1. CASE /\ lastTurn' = [lastTurn EXCEPT ![t] = @ + 1] /\ pc' = [pc EXCEPT ![t] = "start"]
             /\ why' = why
    BY <2>1 DEF ClaimTypes, DispatchTypes
  <2>2. CASE /\ Fault("row") /\ why' = [why EXCEPT ![t] = "unnumbered"]
             /\ pc' = [pc EXCEPT ![t] = "giveBack"] /\ lastTurn' = lastTurn
    BY <2>2, Counters DEF ClaimTypes
  <2> QED BY <1>1, <2>1, <2>2
<1>3. /\ pc[t] = "numbering"
      /\ UNCHANGED <<row, promised, log, token, minted, tripped, resume, cur, held, shell>>
  BY <1>1
<1>4. Elsewhere(t)
  BY <1>2, <1>3 DEF Elsewhere, Same, SamePrompts
<1>5. /\ (Undisturbed' => Undisturbed) /\ HasPrompt(t) /\ Over(t) /\ Holding(t)'
      /\ ~Working(t)' /\ (Over(t)' => pc'[t] = "giveBack") /\ ~shell[t]
  BY <1>2, <1>3, StaysDisturbed
     DEF HasPrompt, Over, Holding, Working, Publishing, TurnInv, PathInv
<1>6. CurInv(t)' /\ HoldInv(t)'
  BY <1>3, <1>5 DEF TurnInv, CurInv, HoldInv, Remembered
<1>7. PathInv(t)'
  BY <1>2, <1>3, <1>5 DEF TurnInv, PathInv, Publishing, Undisturbed
<1>8. ASSUME budget'.crashes = 0 PROVE LogInv(t)'
  <2>1. InTurns(log[t], lastTurn[t]) /\ EndedBelow(log[t], lastTurn[t]) /\ AllEnded(log[t])
    BY <1>5, <1>8 DEF TurnInv, LogInv, Remembered
  <2>2. log[t] \in Seq(Entry) /\ lastTurn[t] \in Nat
    BY DEF DispatchTypes
  <2>3. CASE pc'[t] = "start" /\ lastTurn'[t] = lastTurn[t] + 1
    <3>1. /\ InTurns(log'[t], lastTurn'[t]) /\ EndedBelow(log'[t], lastTurn'[t])
          /\ NotBegun(log'[t], lastTurn'[t])
      BY <1>3, <2>1, <2>2, <2>3, TurnNumbered
    <3> QED BY <1>3, <1>5, <2>3, <3>1 DEF LogInv
  <2>4. CASE pc'[t] = "giveBack" /\ lastTurn'[t] = lastTurn[t]
    BY <1>3, <1>5, <2>1, <2>4 DEF LogInv
  <2> QED BY <1>2, <2>3, <2>4
<1>9. ShowInv(t)'
  <2>1. Undisturbed => \A q \in Prompts : ThreadOf[q] = t /\ row[q] = "done" => ShownIn(log[t], q)
    BY <1>3 DEF TurnInv, ShowInv
  <2> QED BY <1>2, <1>3, <1>5, <2>1 DEF ShowInv, Showing, Publishing
<1>10. PauseInv(t)'
  BY <1>2 DEF PauseInv, Undisturbed, Leaving, Publishing
<1>11. PromiseInv(t)'
  <2>1. Heard(t) => Heard(t)'
    BY <1>3 DEF Heard
  <2> QED BY <1>2, <1>3, <1>5, <2>1 DEF TurnInv, PromiseInv
<1> QED BY <1>4, <1>6, <1>7, <1>8, <1>9, <1>10, <1>11 DEF TurnInv

-------------------------------------------------------------------------------
(* Every step, and the theorems. *)

\* Edits, cancellations and deletions leave every dispatcher where it is.
LEMMA OutsideTurns ==
    ASSUME DispatchTypes, Remembered, \A t \in Threads : TurnInv(t),
           \/ \E t \in Threads : TripLate(t) \/ CancelTurn(t) \/ EditQueue(t)
           \/ \E s \in Sessions : BeginDelete(s) \/ EndDelete(s)
           \/ UNCHANGED vars
    PROVE  \A t \in Threads : TurnInv(t)'
<1> USE DEF rowVars, tokenVars, taskVars, sessionVars
<1>1. UNCHANGED <<promised, lastTurn, log, token, minted, resume, pc, cur, held, shell, why>>
  BY DEF TripLate, CancelTurn, EditQueue, BeginDelete, EndDelete, vars
<1>2. \A u \in Threads : tripped[u] \subseteq tripped'[u]
  <2>1. CASE tripped' = tripped
    BY <2>1
  <2>2. CASE \E t \in Threads : \E g : tripped' = [tripped EXCEPT ![t] = @ \cup {g}]
    BY <2>2 DEF DispatchTypes
  <2>3. CASE \E t \in Threads : TripLate(t) \/ CancelTurn(t)
    BY <2>2, <2>3 DEF TripLate, CancelTurn
  <2>4. CASE \/ \E t \in Threads : EditQueue(t)
             \/ \E s \in Sessions : BeginDelete(s) \/ EndDelete(s)
             \/ UNCHANGED vars
    BY <2>1, <2>4 DEF EditQueue, BeginDelete, EndDelete, vars
  <2> QED BY <2>3, <2>4
<1>3. \A p \in Prompts : row'[p] \in {row[p], "removed"}
  <2>1. CASE row' = row
    BY <2>1
  <2>2. CASE \E t \in Threads : EditQueue(t)
    <3>1. row' = row \/ \E p \in Prompts : row' = [row EXCEPT ![p] = "removed"]
      BY <2>2 DEF EditQueue, Visible
    <3> QED BY <3>1 DEF DispatchTypes
  <2>3. CASE \E s \in Sessions : EndDelete(s)
    BY <2>1, <2>3 DEF EndDelete
  <2>4. CASE \/ \E t \in Threads : TripLate(t) \/ CancelTurn(t)
             \/ \E s \in Sessions : BeginDelete(s)
             \/ UNCHANGED vars
    BY <2>1, <2>4 DEF TripLate, CancelTurn, BeginDelete, vars
  <2> QED BY <2>2, <2>3, <2>4
<1>4. \A t \in Threads : Same(t) /\ SamePrompts(t)
  BY <1>1, <1>2, <1>3 DEF Same, SamePrompts
<1> QED BY <1>4, NothingTurns

\* A restart gives every claim back and starts no dispatcher.
LEMMA CrashTurns ==
    ASSUME DispatchTypes, Crash, NEW t \in Threads
    PROVE  TurnInv(t)'
<1>1. budget'.crashes # 0
  <2>1. budget'.crashes = budget.crashes + 1
    BY DEF Crash, DispatchTypes, Budgets
  <2> QED BY <2>1, Counters
<1>2. /\ pc'[t] = "none" /\ why'[t] = "none" /\ token'[t] = 0 /\ shell'[t] = FALSE
      /\ \A p \in Prompts : row'[p] # "claimed"
  BY DEF Crash, ResetClaims
<1>3. ~Undisturbed'
  BY <1>1 DEF Undisturbed
<1>4. CurInv(t)' /\ PathInv(t)' /\ HoldInv(t)'
  BY <1>2 DEF CurInv, HasPrompt, PathInv, HoldInv, Publishing
<1>5. ShowInv(t)' /\ PauseInv(t)' /\ PromiseInv(t)'
  BY <1>2, <1>3 DEF ShowInv, Showing, Working, Publishing, PauseInv, PromiseInv
<1> QED BY <1>1, <1>4, <1>5 DEF TurnInv

\* The steps of a dispatcher.
LEMMA TaskTurns ==
    ASSUME DispatchTypes, ClaimTypes, Remembered, NEW t \in Threads, TurnInv(t), Task(t)
    PROVE  TurnInv(t)' /\ Elsewhere(t)
<1>1. CASE \/ Conclude(t) \/ StopOnCancel(t) \/ EndBadly(t)
           \/ SettleCompleted(t) \/ SettleFails(t) \/ ReadQueue(t) \/ EmitQueue(t)
  BY <1>1, MovesTurn
<1>2. CASE \/ PersistShell(t) \/ Complete(t) \/ SettleFailed(t) \/ SettlePanic(t)
           \/ RecordCancelled(t)
  BY <1>2, PersistShellTurns, CompleteTurns, FailedTurns, CancelledTurns
<1>3. CASE Consume(t) \/ SettleCancelled(t) \/ GiveBack(t)
  BY <1>3, ConsumeTurns, SettleCancelledTurns, GiveBackTurns
<1>4. CASE ReleaseThread(t) \/ ClearAfterPanic(t) \/ FinishInterrupted(t) \/ NothingNext(t)
  BY <1>4, ReleaseTurns, ClearingTurns, InterruptedTurns, NothingNextTurns
<1>5. CASE ClaimNext(t) \/ NumberTurn(t)
  BY <1>5, ClaimNextTurns, NumberTurns
<1> QED BY <1>1, <1>2, <1>3, <1>4, <1>5 DEF Task, Settle

\* The commands that reach the dispatcher of a thread, or start one.
LEMMA PromptTurns ==
    ASSUME DispatchTypes, ClaimInv, Remembered, NEW p \in Prompts, NEW t \in Threads,
           t = ThreadOf[p], TurnInv(t), PromptCommand(p)
    PROVE  TurnInv(t)' /\ Elsewhere(t)
<1>1. CASE SendQueued(p) \/ SendStarts(p) \/ DispatchPromptRunning(p)
  BY <1>1, SendQueuedTurns, SendStartsTurns, DispatchRunningTurns
<1>2. CASE SendQueuedFails(p) \/ SendStartFails(p) \/ DispatchPromptRunningFails(p)
  BY <1>2, RefusedTurns
<1>3. CASE DispatchPromptIdle(p)
  <2>1. /\ t \notin active
        /\ \/ \E at \in Prioritized(p) : Launch(t, p, at)
           \/ \E at \in Prioritized(p), f \in Orders(Visible(t)) : LaunchFails(t, p, at, Renumber(f))
    BY <1>3 DEF DispatchPromptIdle
  <2>2. CASE \E at \in Prioritized(p) : Launch(t, p, at)
    BY <2>1, <2>2, LaunchTurns
  <2>3. CASE \E at \in Prioritized(p), f \in Orders(Visible(t)) :
                 LaunchFails(t, p, at, Renumber(f))
    BY <2>1, <2>3, LaunchFailsTurns
  <2> QED BY <2>1, <2>2, <2>3
<1> QED BY <1>1, <1>2, <1>3 DEF PromptCommand

\* dispatch_queue.
LEMMA QueueTurns ==
    ASSUME DispatchTypes, ClaimInv, Remembered, NEW t \in Threads, TurnInv(t),
           DispatchQueueIdle(t) \/ DispatchQueueRunning(t)
    PROVE  TurnInv(t)' /\ Elsewhere(t)
<1>1. CASE DispatchQueueRunning(t)
  BY <1>1, DispatchQueueTurns
<1>2. CASE DispatchQueueIdle(t)
  <2>1. t \notin active
    BY <1>2 DEF DispatchQueueIdle
  <2>2. PICK p \in Prompts : /\ ThreadOf[p] = t
                             /\ Launch(t, p, pos) \/ LaunchFails(t, p, pos, pos)
    BY <1>2 DEF DispatchQueueIdle, Fronts, Visible
  <2>3. CASE Launch(t, p, pos)
    BY <2>1, <2>2, <2>3, LaunchTurns
  <2>4. CASE LaunchFails(t, p, pos, pos)
    BY <2>1, <2>4, LaunchFailsTurns
  <2> QED BY <2>2, <2>3, <2>4
<1> QED BY <1>1, <1>2

\* What every reachable state satisfies.
DispatchInv == ClaimInv /\ DispatchTypes /\ \A t \in Threads : TurnInv(t)

\* DispatchInv holds at the start ...
LEMMA InitDispatch == Init => DispatchInv
<1> SUFFICES ASSUME Init PROVE DispatchInv
  OBVIOUS
<1>1. ClaimInv
  BY InitClaims
<1>2. DispatchTypes
  <2>1. row \in [Prompts -> RowStates] /\ promised \in [Prompts -> Nat]
    BY DEF Init, RowStates
  <2>2. /\ lastTurn \in [Threads -> Nat] /\ token \in [Threads -> Nat]
        /\ minted \in [Threads -> Nat] /\ held \in [Threads -> Nat]
    BY DEF Init
  <2>3. /\ cur \in [Threads -> Prompts \cup {NoPrompt}] /\ shell \in [Threads -> BOOLEAN]
        /\ tripped \in [Threads -> SUBSET Nat] /\ late \in [Threads -> SUBSET Nat]
        /\ resume \subseteq Threads
    BY DEF Init
  <2>4. log \in [Threads -> Seq(Entry)]
    <3>1. <<>> \in Seq(Entry)
      OBVIOUS
    <3> QED BY <3>1 DEF Init
  <2>5. budget \in Budgets
    BY DEF Init, Budgets
  <2> QED BY <2>1, <2>2, <2>3, <2>4, <2>5 DEF DispatchTypes
<1>3. ASSUME NEW t \in Threads PROVE TurnInv(t)
  <2>1. /\ pc[t] = "none" /\ why[t] = "none" /\ log[t] = <<>> /\ token[t] = 0 /\ resume = {}
        /\ minted[t] = 0 /\ shell[t] = FALSE /\ \A p \in Prompts : row[p] = "unsent" /\ promised[p] = 0
    BY DEF Init
  <2>2. CurInv(t) /\ PathInv(t) /\ HoldInv(t)
    BY <2>1 DEF CurInv, HasPrompt, PathInv, HoldInv, Publishing
  <2>3. ShowInv(t) /\ PauseInv(t) /\ PromiseInv(t)
    BY <2>1 DEF ShowInv, Showing, Working, Publishing, PauseInv, Leaving, Visible, PromiseInv
  <2>4. LogInv(t)
    <3>1. Len(log[t]) = 0
      BY <2>1
    <3>2. \A i \in 1 .. Len(log[t]) : FALSE
      BY <3>1
    <3> QED BY <2>1, <3>2 DEF LogInv, InTurns, EndedBelow, AllEnded, Working, Over, Publishing
  <2> QED BY <2>2, <2>3, <2>4 DEF TurnInv
<1> QED BY <1>1, <1>2, <1>3 DEF DispatchInv

\* ... is kept by every step ...
LEMMA NextDispatch == DispatchInv /\ [Next]_vars => DispatchInv'
<1> SUFFICES ASSUME DispatchInv, [Next]_vars PROVE DispatchInv'
  OBVIOUS
<1>0. ClaimInv /\ ClaimTypes /\ DispatchTypes /\ \A t \in Threads : TurnInv(t)
  BY DEF DispatchInv, ClaimInv
<1>1. ClaimInv'
  BY <1>0, NextClaims
<1>2. DispatchTypes'
  <2>1. CASE UNCHANGED vars
    BY <1>0, <2>1, TypesFrame DEF vars, typedVars, rowVars, tokenVars, taskVars
  <2>2. CASE \E p \in Prompts : PromptCommand(p)
    BY <1>0, <2>2, PromptCommandTypes
  <2>3. CASE \E t \in Threads : ThreadCommand(t)
    BY <1>0, <2>3, ThreadCommandTypes
  <2>4. CASE \E t \in Threads : Task(t)
    BY <1>0, <2>4, TurnTypes, SettleTypes DEF Task
  <2>5. CASE Crash \/ \E s \in Sessions : BeginDelete(s) \/ EndDelete(s)
    BY <1>0, <2>5, OtherTypes
  <2> QED BY <2>1, <2>2, <2>3, <2>4, <2>5 DEF Next
<1>3. Remembered
  BY <1>0, Remembers
<1>4. \A t \in Threads : TurnInv(t)'
  <2>1. ASSUME NEW p \in Prompts, PromptCommand(p) PROVE \A t \in Threads : TurnInv(t)'
    <3>1. ThreadOf[p] \in Threads
      BY ShapeAssumption
    <3>2. TurnInv(ThreadOf[p])' /\ Elsewhere(ThreadOf[p])
      BY <1>0, <1>3, <2>1, <3>1, PromptTurns
    <3> QED BY <1>0, <1>3, <3>1, <3>2, OneTurns
  <2>2. ASSUME NEW t \in Threads, DispatchQueueIdle(t) \/ DispatchQueueRunning(t)
        PROVE  \A u \in Threads : TurnInv(u)'
    <3>1. TurnInv(t)' /\ Elsewhere(t)
      BY <1>0, <1>3, <2>2, QueueTurns
    <3> QED BY <1>0, <1>3, <3>1, OneTurns
  <2>3. ASSUME NEW t \in Threads, Task(t) PROVE \A u \in Threads : TurnInv(u)'
    <3>1. TurnInv(t)' /\ Elsewhere(t)
      BY <1>0, <1>3, <2>3, TaskTurns
    <3> QED BY <1>0, <1>3, <3>1, OneTurns
  <2>4. CASE Crash
    BY <1>0, <2>4, CrashTurns
  <2>5. CASE \/ \E t \in Threads : TripLate(t) \/ CancelTurn(t) \/ EditQueue(t)
             \/ \E s \in Sessions : BeginDelete(s) \/ EndDelete(s)
             \/ UNCHANGED vars
    BY <1>0, <1>3, <2>5, OutsideTurns
  <2> QED BY <2>1, <2>2, <2>3, <2>4, <2>5 DEF Next, ThreadCommand
<1> QED BY <1>1, <1>2, <1>4 DEF DispatchInv

\* ... and so always holds.
LEMMA DispatchInvariant == Spec => []DispatchInv
BY InitDispatch, NextDispatch, PTL DEF Spec

\* A claimed prompt, which no queue shows, is the one a dispatcher of its thread
\* holds (claim_next_queued_prompt, release_queued_prompt, finish_queued_prompt),
\* whatever appends fail and whenever the server restarts.
THEOREM NoClaimIsOrphaned == Spec => []NoOrphanClaim
<1>1. DispatchInv => NoOrphanClaim
  <2> SUFFICES ASSUME DispatchInv, "row" \in FaultKinds => budget.faults = 0,
                      NEW p \in Prompts, row[p] = "claimed"
               PROVE  /\ ThreadOf[p] \in active /\ cur[ThreadOf[p]] = p
                      /\ pc[ThreadOf[p]] \in Owning
    BY DEF NoOrphanClaim
  <2> DEFINE t == ThreadOf[p]
  <2>1. t \in Threads
    BY ShapeAssumption
  <2>2. cur[t] = p /\ Holding(t)
    BY <2>1 DEF DispatchInv, TurnInv, HoldInv
  <2>3. pc[t] \in Owning /\ pc[t] # "none"
    BY <2>2 DEF Holding, Publishing, Owning
  <2>4. t \in active
    BY <2>1, <2>3 DEF DispatchInv, ClaimInv, ActivityAgrees
  <2> QED BY <2>2, <2>3, <2>4
<1> QED BY <1>1, DispatchInvariant, PTL

\* The turns of a thread follow one another in its log, and a turn has one terminal
\* event but for the cancellation of a completed one (drain_queue).
THEOREM TurnsFollowOneAnother == Spec => []TurnsDoNotOverlap
<1>1. DispatchInv => TurnsDoNotOverlap
  <2> SUFFICES ASSUME DispatchInv, budget.crashes = 0, NEW t \in Threads,
                      NEW i \in 1 .. Len(log[t]), NEW j \in 1 .. Len(log[t]), i < j
               PROVE  /\ log[t][i].turn = log[t][j].turn /\ log[t][i].ev # "started" =>
                            log[t][i].ev = "completed" /\ log[t][j].ev = "cancelled"
                      /\ log[t][i].ev = "started" /\ log[t][j].ev = "started" =>
                            /\ log[t][i].turn < log[t][j].turn
                            /\ \E k \in i .. j : /\ log[t][k].turn = log[t][i].turn
                                                 /\ log[t][k].ev # "started"
    BY DEF TurnsDoNotOverlap
  <2>1. /\ log[t] \in Seq(Entry) /\ lastTurn[t] \in Nat
        /\ InTurns(log[t], lastTurn[t]) /\ EndedBelow(log[t], lastTurn[t])
    BY DEF DispatchInv, DispatchTypes, TurnInv, LogInv
  <2> QED BY <2>1, TurnsInOrder
<1> QED BY <1>1, DispatchInvariant, PTL

\* A prompt that has left the queue was shown as a turn, or its dispatcher is about to
\* record the cancelled turn that shows it.
THEOREM NoPromptVanishes == Spec => []PromptKept
<1>1. DispatchInv => PromptKept
  <2> SUFFICES ASSUME DispatchInv, Undisturbed, NEW p \in Prompts, row[p] = "done"
               PROVE  \/ \E e \in Logged(ThreadOf[p]) : e.ev = "started" /\ e.prompt = p
                      \/ pc[ThreadOf[p]] = "cancelling" /\ cur[ThreadOf[p]] = p
    BY DEF PromptKept
  <2> DEFINE t == ThreadOf[p]
  <2>1. t \in Threads
    BY ShapeAssumption
  <2>2. ShownIn(log[t], p) \/ (pc[t] = "cancelling" /\ cur[t] = p)
    BY <2>1 DEF DispatchInv, TurnInv, ShowInv
  <2> QED BY <2>2 DEF ShownIn, Logged
<1> QED BY <1>1, DispatchInvariant, PTL

\* No lost wake-up: prompts wait on an idle thread only after an interrupted turn.
THEOREM NoLostWakeUp == Spec => []PausedOnlyAfterInterruption
<1>1. DispatchInv => PausedOnlyAfterInterruption
  <2> SUFFICES ASSUME DispatchInv, Undisturbed, NEW t \in Threads, t \notin active,
                      Visible(t) # {}
               PROVE  log[t] # <<>> /\ log[t][Len(log[t])].ev \in {"failed", "cancelled"}
    BY DEF PausedOnlyAfterInterruption
  <2>1. pc[t] = "none"
    BY DEF DispatchInv, ClaimInv, ActivityAgrees
  <2> QED BY <2>1 DEF DispatchInv, TurnInv, PauseInv, Interrupted
<1> QED BY <1>1, DispatchInvariant, PTL

\* A prompt sent to, or promoted on, a thread whose turn is being cancelled is not left
\* paused by that turn, unless it panics.
THEOREM FollowUpRuns == Spec => []FollowUpNotStranded
<1>1. DispatchInv => FollowUpNotStranded
  <2> SUFFICES ASSUME DispatchInv, Undisturbed, NEW p \in Prompts, row[p] = "queued",
                      promised[p] # 0, ThreadOf[p] \notin active
               PROVE  minted[ThreadOf[p]] > promised[p] \/ why[ThreadOf[p]] = "panicked"
    BY DEF FollowUpNotStranded
  <2> DEFINE t == ThreadOf[p]
  <2>1. t \in Threads
    BY ShapeAssumption
  <2>2. pc[t] = "none" /\ minted[t] \in Nat /\ promised[p] \in Nat
    BY <2>1 DEF DispatchInv, ClaimInv, ActivityAgrees, DispatchTypes
  <2>3. t \notin resume /\ promised[p] <= minted[t] /\ (promised[p] = minted[t] => Heard(t))
    BY <2>1, <2>2 DEF DispatchInv, TurnInv, PromiseInv
  <2> QED BY <2>2, <2>3 DEF Heard
<1> QED BY <1>1, DispatchInvariant, PTL

-------------------------------------------------------------------------------
(* Positions, published queues and tokens. *)

Sent == {p \in Prompts : row[p] # "unsent"}

\* A position is at most the number of prompts sent: each prompt is sent once and
\* gets one more than the largest, and a queue is renumbered from 1.
PosInv == pos \in [Prompts -> 0 .. Cardinality(Sent)]

QueueTypes ==
    /\ DOMAIN published = Threads /\ DOMAIN snap = Threads
    /\ \A t \in Threads : IsQueue(published[t]) /\ IsQueue(snap[t])
SessionTypes == gone \subseteq Sessions /\ deleting \subseteq Sessions

\* A dispatcher that has a prompt has its token; what is appended has a prompt.
TokenInv == \A t \in Threads : HasPrompt(t) => held[t] # 0
LogTypes == log \in [Threads -> Seq(Lifecycle)]

StateInv == PosInv /\ QueueTypes /\ SessionTypes /\ TokenInv /\ LogTypes

queueVars == <<pos, published, snap, gone, deleting>>

\* The prompts that have been sent are finitely many.
LEMMA SentFinite ==
    /\ Cardinality(Sent) \in Nat /\ IsFiniteSet(Sent)
    /\ Cardinality(Sent) <= Cardinality(Prompts) /\ Cardinality(Prompts) \in Nat
<1>1. Sent \in SUBSET Prompts /\ IsFiniteSet(Prompts)
  BY ShapeAssumption DEF Sent
<1> QED BY <1>1, FS_Subset, FS_CardinalityType

\* What is no position too high stays so, since no prompt is unsent again.
LEMMA PosStep ==
    ASSUME Sent \subseteq Sent', pos' \in [Prompts -> 0 .. Cardinality(Sent)]
    PROVE  PosInv'
<1>1. Sent' \subseteq Prompts
  BY DEF Sent
<1>2. IsFiniteSet(Sent')
  BY <1>1, ShapeAssumption, FS_Subset
<1>3. /\ Cardinality(Sent) \in Nat /\ Cardinality(Sent') \in Nat
      /\ Cardinality(Sent) <= Cardinality(Sent')
  BY <1>2, SentFinite, FS_Subset, FS_CardinalityType
<1>4. \A p \in Prompts : pos'[p] \in 0 .. Cardinality(Sent')
  BY <1>3
<1>5. pos' \in [Prompts -> 0 .. Cardinality(Sent')]
  BY <1>4
<1> QED BY <1>5 DEF PosInv, Sent

\* NextPosition is a position: the least number above the stored ones exists, and
\* is one more than one of them.
LEMMA NextPositionTyped ==
    ASSUME PosInv, NEW t \in Threads
    PROVE  NextPosition(t) \in 0 .. (Cardinality(Sent) + 1)
<1> DEFINE c == Cardinality(Sent)
           S == {n \in Nat : n >= 1 /\ \A q \in Stored(t) : pos[q] < n}
           Fits(n) == /\ \A p \in Stored(t) : pos[p] < n
                      /\ n = 1 \/ \E p \in Stored(t) : pos[p] = n - 1
<1>1. c \in Nat /\ c <= Cardinality(Prompts) /\ Cardinality(Prompts) \in Nat
  BY SentFinite
<1> HIDE DEF c
<1>2. \A q \in Stored(t) : pos[q] \in 0 .. c
  BY DEF Stored, PosInv, c
<1>3. c + 1 \in S
  BY <1>1, <1>2
<1>4. S \subseteq Nat /\ S # {}
  BY <1>3
<1> HIDE DEF S
<1>5. PICK m \in S : \A y \in S : ~ (<<y, m>> \in OpToRel(<, Nat))
  BY <1>4, WFMin, NatLessThanWellFounded
<1>6. m \in Nat /\ m >= 1 /\ \A q \in Stored(t) : pos[q] < m
  BY DEF S
<1>7. m = 1 \/ \E q \in Stored(t) : pos[q] = m - 1
  <2> SUFFICES ASSUME m # 1, \A q \in Stored(t) : pos[q] # m - 1 PROVE FALSE
    OBVIOUS
  <2>1. \A q \in Stored(t) : pos[q] < m - 1
    BY <1>1, <1>2, <1>6
  <2>2. m - 1 \in S
    BY <1>6, <2>1 DEF S
  <2>3. <<m - 1, m>> \in OpToRel(<, Nat)
    BY <1>6 DEF OpToRel
  <2> QED BY <1>5, <2>2, <2>3
<1>8. Fits(m) /\ m \in 1 .. (Cardinality(Prompts) + 1)
  BY <1>1, <1>2, <1>6, <1>7
<1>9. NextPosition(t) = CHOOSE n \in 1 .. (Cardinality(Prompts) + 1) : Fits(n)
  BY DEF NextPosition
<1> HIDE DEF Fits
<1>10. NextPosition(t) \in 1 .. (Cardinality(Prompts) + 1) /\ Fits(NextPosition(t))
  BY <1>8, <1>9
<1>11. NextPosition(t) = 1 \/ \E q \in Stored(t) : pos[q] = NextPosition(t) - 1
  BY <1>10 DEF Fits
<1>12. NextPosition(t) \in Nat
  BY <1>1, <1>10
<1>13. NextPosition(t) \in 0 .. (c + 1)
  BY <1>1, <1>2, <1>11, <1>12
<1> QED BY <1>13 DEF c

\* A sent prompt gets it.
LEMMA SentPos ==
    ASSUME PosInv, NEW p \in Prompts, row[p] = "unsent", row' \in [Prompts -> RowStates],
           row'[p] # "unsent", Sent \subseteq Sent',
           \A q \in Prompts \ {p} : row'[q] = "unsent" <=> row[q] = "unsent",
           NEW t \in Threads, pos' = [pos EXCEPT ![p] = NextPosition(t)]
    PROVE  PosInv'
<1>1. Sent' = Sent \cup {p} /\ p \notin Sent
  BY DEF Sent
<1>2. Cardinality(Sent') = Cardinality(Sent) + 1 /\ Cardinality(Sent) \in Nat
  BY <1>1, SentFinite, FS_AddElement
<1>3. NextPosition(t) \in 0 .. (Cardinality(Sent) + 1)
  BY NextPositionTyped
<1>4. pos \in [Prompts -> 0 .. Cardinality(Sent)]
  BY DEF PosInv
<1>5. \A q \in Prompts : pos'[q] \in 0 .. (Cardinality(Sent) + 1)
  BY <1>2, <1>3, <1>4
<1>6. pos' \in [Prompts -> 0 .. (Cardinality(Sent) + 1)]
  BY <1>4, <1>5
<1> QED BY <1>2, <1>6 DEF PosInv, Sent

\* Renumbering keeps positions, and putting one prompt before the others does.
LEMMA RenumberTyped ==
    ASSUME PosInv, NEW t, NEW S \in SUBSET Visible(t), NEW f \in [S -> 1 .. Cardinality(S)]
    PROVE  /\ Renumber(f) \in [Prompts -> 0 .. Cardinality(Sent)]
           /\ \A p \in Prompts : [Renumber(f) EXCEPT ![p] = 0] \in [Prompts -> 0 .. Cardinality(Sent)]
<1>1. S \subseteq Sent
  BY DEF Visible, Sent
<1>2. Cardinality(S) <= Cardinality(Sent) /\ Cardinality(Sent) \in Nat /\ Cardinality(S) \in Nat
  BY <1>1, SentFinite, FS_Subset, FS_CardinalityType
<1>3. pos \in [Prompts -> 0 .. Cardinality(Sent)] /\ DOMAIN f = S
  BY DEF PosInv
<1>4. \A p \in S : f[p] \in 0 .. Cardinality(Sent)
  BY <1>2
<1>5. Renumber(f) \in [Prompts -> 0 .. Cardinality(Sent)]
  BY <1>3, <1>4 DEF Renumber
<1> QED BY <1>2, <1>5

LEMMA PrioritizedTyped ==
    ASSUME PosInv, NEW p \in Prompts, NEW at \in Prioritized(p)
    PROVE  at \in [Prompts -> 0 .. Cardinality(Sent)]
<1> DEFINE S == Visible(ThreadOf[p]) \ {p}
<1>1. PICK f \in Orders(S) : at = [Renumber(f) EXCEPT ![p] = 0]
  BY DEF Prioritized
<1>2. S \in SUBSET Visible(ThreadOf[p]) /\ f \in [S -> 1 .. Cardinality(S)]
  BY DEF Orders
<1> HIDE DEF S
<1> QED BY <1>1, <1>2, RenumberTyped

LEMMA OrdersTyped ==
    ASSUME PosInv, NEW t, NEW f \in Orders(Visible(t))
    PROVE  Renumber(f) \in [Prompts -> 0 .. Cardinality(Sent)]
<1>1. f \in [Visible(t) -> 1 .. Cardinality(Visible(t))]
  BY DEF Orders
<1> QED BY <1>1, RenumberTyped

\* A queue as it is read, or about to be.
LEMMA ReadTyped ==
    ASSUME NEW t
    PROVE  /\ PosInv => IsQueue(QueueOf(t))
           /\ PosInv' => IsQueue(QueueOf(t)')
<1>1. PosInv => pos \in [Prompts -> Nat]
  BY SentFinite DEF PosInv
<1>2. Cardinality(Sent') \in Nat
  <2>1. Sent' \in SUBSET Prompts /\ IsFiniteSet(Prompts)
    BY ShapeAssumption DEF Sent
  <2> QED BY <2>1, FS_Subset, FS_CardinalityType
<1>3. PosInv' => pos' \in [Prompts -> Nat]
  BY <1>2 DEF PosInv
<1>4. Visible(t) \subseteq Prompts /\ Visible(t)' \subseteq Prompts
  BY DEF Visible
<1> QED BY <1>1, <1>3, <1>4 DEF IsQueue, QueueOf

\* One thread's queue is published.
LEMMA Republished ==
    ASSUME QueueTypes, NEW t \in Threads, snap' = snap, NEW q, IsQueue(q),
           published' = [published EXCEPT ![t] = q]
    PROVE  QueueTypes'
<1>1. DOMAIN published' = Threads /\ DOMAIN snap' = Threads
  BY DEF QueueTypes
<1>2. \A u \in Threads : IsQueue(published'[u]) /\ IsQueue(snap'[u])
  BY DEF QueueTypes
<1> QED BY <1>1, <1>2 DEF QueueTypes, IsQueue

\* The positions and queues are left alone and no prompt is unsent again.
LEMMA QueueFrame ==
    ASSUME PosInv, QueueTypes, SessionTypes, UNCHANGED queueVars, Sent \subseteq Sent'
    PROVE  PosInv' /\ QueueTypes' /\ SessionTypes'
<1>1. PosInv'
  BY PosStep DEF PosInv, queueVars
<1>2. QueueTypes' /\ SessionTypes'
  BY DEF QueueTypes, SessionTypes, IsQueue, queueVars
<1> QED BY <1>1, <1>2

\* No prompt is unsent again.
LEMMA SentGrows ==
    ASSUME row \in [Prompts -> RowStates], row' \in [Prompts -> RowStates],
           \A p \in Prompts : row'[p] = "unsent" => row[p] = "unsent"
    PROVE  Sent \subseteq Sent'
BY DEF Sent

\* A launch publishes the queue as it is then; a failing one perhaps as it was.
LEMMA LaunchQueues ==
    ASSUME DispatchTypes, PosInv, QueueTypes, SessionTypes, NEW t \in Threads, NEW p \in Prompts,
           NEW at \in [Prompts -> 0 .. Cardinality(Sent)],
           \/ Launch(t, p, at)
           \/ \E after \in [Prompts -> 0 .. Cardinality(Sent)] : LaunchFails(t, p, at, after)
    PROVE  PosInv' /\ QueueTypes' /\ SessionTypes'
<1>0. row \in [Prompts -> RowStates]
  BY DEF DispatchTypes
<1>1. CASE Launch(t, p, at)
  <2>1. row' = [row EXCEPT ![p] = "claimed"] /\ pos' = at /\ UNCHANGED <<gone, deleting, snap>>
        /\ published' = [published EXCEPT ![t] = QueueOf(t)']
    BY <1>1 DEF Launch
  <2>2. row' \in [Prompts -> RowStates]
    BY <1>0, <2>1 DEF RowStates
  <2>3. Sent \subseteq Sent'
    BY <1>0, <2>1, <2>2, SentGrows
  <2>4. PosInv'
    BY <2>1, <2>3, PosStep
  <2>5. QueueTypes'
    BY <2>1, <2>4, ReadTyped, Republished
  <2> QED BY <2>1, <2>4, <2>5 DEF SessionTypes
<1>2. ASSUME NEW after \in [Prompts -> 0 .. Cardinality(Sent)], LaunchFails(t, p, at, after)
      PROVE  PosInv' /\ QueueTypes' /\ SessionTypes'
  <2> DEFINE q == [r \in Visible(t) \ {p} |-> at[r]]
  <2>1. row' = row /\ pos' = after /\ UNCHANGED <<gone, deleting, snap>>
        /\ (published' = published \/ published' = [published EXCEPT ![t] = q])
    BY <1>2 DEF LaunchFails
  <2>2. Sent \subseteq Sent'
    BY <2>1 DEF Sent
  <2>3. PosInv'
    BY <2>1, <2>2, PosStep
  <2>4. IsQueue(q)
    BY SentFinite DEF IsQueue, Visible
  <2> HIDE DEF q
  <2>5. CASE published' = published
    BY <2>1, <2>3, <2>5 DEF SessionTypes, QueueTypes, IsQueue
  <2>6. CASE published' = [published EXCEPT ![t] = q]
    <3>1. QueueTypes'
      BY <2>1, <2>4, <2>6, Republished
    <3> QED BY <2>1, <2>3, <3>1 DEF SessionTypes
  <2> QED BY <2>1, <2>5, <2>6
<1> QED BY <1>1, <1>2

LEMMA PromptCommandQueues ==
    ASSUME DispatchTypes, DispatchTypes', PosInv, QueueTypes, SessionTypes, NEW p \in Prompts,
           PromptCommand(p)
    PROVE  PosInv' /\ QueueTypes' /\ SessionTypes'
<1> DEFINE t == ThreadOf[p]
<1>0. t \in Threads /\ row \in [Prompts -> RowStates] /\ row' \in [Prompts -> RowStates]
  BY ShapeAssumption DEF DispatchTypes
<1>p. pos \in [Prompts -> 0 .. Cardinality(Sent)]
  BY DEF PosInv
<1> USE DEF sessionVars, taskVars, rowVars
<1>1. CASE SendQueued(p)
  <2>1. /\ row[p] = "unsent" /\ row' = [row EXCEPT ![p] = "queued"]
        /\ pos' = [pos EXCEPT ![p] = NextPosition(t)]
        /\ published' = [published EXCEPT ![t] = QueueOf(t)'] /\ UNCHANGED <<gone, deleting, snap>>
    BY <1>1 DEF SendQueued
  <2>2. row'[p] # "unsent" /\ \A q \in Prompts \ {p} : row'[q] = "unsent" <=> row[q] = "unsent"
    BY <1>0, <2>1
  <2>3. Sent \subseteq Sent'
    BY <1>0, <2>1, <2>2, SentGrows
  <2>4. PosInv'
    BY <1>0, <2>1, <2>2, <2>3, SentPos
  <2>5. QueueTypes'
    BY <1>0, <2>1, <2>4, ReadTyped, Republished
  <2> QED BY <2>1, <2>4, <2>5 DEF SessionTypes
<1>2. CASE SendQueuedFails(p) \/ SendStartFails(p)
  <2>1. row' = row /\ UNCHANGED queueVars
    BY <1>2 DEF SendQueuedFails, SendStartFails, queueVars
  <2>2. Sent \subseteq Sent'
    BY <2>1 DEF Sent
  <2> QED BY <2>1, <2>2, QueueFrame
<1>3. CASE SendStarts(p)
  <2>1. PICK first \in IF Visible(t) = {} THEN {p} ELSE Fronts(t) :
          /\ row' = [row EXCEPT ![p] = "queued", ![first] = "claimed"]
          /\ pos' = [pos EXCEPT ![p] = NextPosition(t)]
          /\ published' = [published EXCEPT ![t] = QueueOf(t)']
    BY <1>3 DEF SendStarts
  <2>2. row[p] = "unsent" /\ UNCHANGED <<gone, deleting, snap>>
    BY <1>3 DEF SendStarts
  <2>3. first = p \/ row[first] = "queued"
    BY <2>1 DEF Fronts, Visible
  <2>4. row'[p] # "unsent" /\ \A q \in Prompts \ {p} : row'[q] = "unsent" <=> row[q] = "unsent"
    BY <1>0, <2>1, <2>3
  <2>5. Sent \subseteq Sent'
    BY <1>0, <2>2, <2>4, SentGrows
  <2>6. PosInv'
    BY <1>0, <2>1, <2>2, <2>4, <2>5, SentPos
  <2>7. QueueTypes'
    BY <1>0, <2>1, <2>2, <2>6, ReadTyped, Republished
  <2> QED BY <2>2, <2>6, <2>7 DEF SessionTypes
<1>4. CASE DispatchPromptIdle(p)
  <2>1. ASSUME NEW at \in Prioritized(p), Launch(t, p, at)
        PROVE  PosInv' /\ QueueTypes' /\ SessionTypes'
    BY <1>0, <2>1, PrioritizedTyped, LaunchQueues
  <2>2. ASSUME NEW at \in Prioritized(p), NEW f \in Orders(Visible(t)),
               LaunchFails(t, p, at, Renumber(f))
        PROVE  PosInv' /\ QueueTypes' /\ SessionTypes'
    BY <1>0, <2>2, PrioritizedTyped, OrdersTyped, LaunchQueues
  <2> QED BY <1>4, <2>1, <2>2 DEF DispatchPromptIdle
<1>5. CASE DispatchPromptRunning(p)
  <2>1. PICK at \in Prioritized(p) : pos' = at
    BY <1>5 DEF DispatchPromptRunning
  <2>2. row' = row /\ published' = [published EXCEPT ![t] = QueueOf(t)']
        /\ UNCHANGED <<gone, deleting, snap>>
    BY <1>5 DEF DispatchPromptRunning
  <2>3. Sent \subseteq Sent'
    BY <2>2 DEF Sent
  <2>4. PosInv'
    BY <2>1, <2>3, PrioritizedTyped, PosStep
  <2>5. QueueTypes'
    BY <1>0, <2>2, <2>4, ReadTyped, Republished
  <2> QED BY <2>2, <2>4, <2>5 DEF SessionTypes
<1>6. CASE DispatchPromptRunningFails(p)
  <2>1. PICK f \in Orders(Visible(t)) : pos' = Renumber(f)
    BY <1>6 DEF DispatchPromptRunningFails
  <2>2. row' = row /\ UNCHANGED <<published, gone, deleting, snap>>
    BY <1>6 DEF DispatchPromptRunningFails
  <2>3. Sent \subseteq Sent'
    BY <2>2 DEF Sent
  <2>4. PosInv'
    BY <2>1, <2>3, OrdersTyped, PosStep
  <2> QED BY <2>2, <2>4 DEF SessionTypes, QueueTypes, IsQueue
<1> QED BY <1>1, <1>2, <1>3, <1>4, <1>5, <1>6 DEF PromptCommand

LEMMA ThreadCommandQueues ==
    ASSUME DispatchTypes, DispatchTypes', PosInv, QueueTypes, SessionTypes, NEW t \in Threads,
           ThreadCommand(t)
    PROVE  PosInv' /\ QueueTypes' /\ SessionTypes'
<1>0. row \in [Prompts -> RowStates] /\ row' \in [Prompts -> RowStates]
      /\ pos \in [Prompts -> 0 .. Cardinality(Sent)]
  BY DEF DispatchTypes, PosInv
<1> USE DEF sessionVars, taskVars, rowVars
<1>1. CASE DispatchQueueIdle(t)
  <2>1. PICK p \in Fronts(t) : Launch(t, p, pos) \/ LaunchFails(t, p, pos, pos)
    BY <1>1 DEF DispatchQueueIdle
  <2>2. p \in Prompts
    BY DEF Fronts, Visible
  <2> QED BY <1>0, <2>1, <2>2, LaunchQueues
<1>2. CASE DispatchQueueRunning(t) \/ TripLate(t) \/ CancelTurn(t)
  <2>1. row' = row /\ UNCHANGED queueVars
    BY <1>2 DEF DispatchQueueRunning, TripLate, CancelTurn, queueVars
  <2>2. Sent \subseteq Sent'
    BY <2>1 DEF Sent
  <2> QED BY <2>1, <2>2, QueueFrame
<1>3. CASE EditQueue(t)
  <2>1. \/ pos' = pos /\ \E p \in Visible(t) : row' = [row EXCEPT ![p] = "removed"]
        \/ row' = row /\ \E f \in [Visible(t) -> 1 .. Cardinality(Visible(t))] : pos' = Renumber(f)
        \/ row' = row /\ pos' = pos
    BY <1>3 DEF EditQueue
  <2>2. Sent \subseteq Sent'
    <3>1. \A p \in Prompts : row'[p] = "unsent" => row[p] = "unsent"
      BY <1>0, <2>1
    <3> QED BY <1>0, <3>1, SentGrows
  <2>3. pos' \in [Prompts -> 0 .. Cardinality(Sent)]
    BY <1>0, <2>1, RenumberTyped
  <2>4. PosInv'
    BY <2>2, <2>3, PosStep
  <2>5. /\ published' = published \/ published' = [published EXCEPT ![t] = QueueOf(t)']
        /\ UNCHANGED <<gone, deleting, snap>>
    BY <1>3 DEF EditQueue
  <2>6. QueueTypes'
    <3>1. CASE published' = published
      BY <2>5, <3>1 DEF QueueTypes, IsQueue
    <3>2. CASE published' = [published EXCEPT ![t] = QueueOf(t)']
      BY <2>4, <2>5, <3>2, ReadTyped, Republished
    <3> QED BY <2>5, <3>1, <3>2
  <2> QED BY <2>4, <2>5, <2>6 DEF SessionTypes
<1> QED BY <1>1, <1>2, <1>3 DEF ThreadCommand

\* Of a dispatcher's steps only the two of emit_queue touch queues.
LEMMA TaskQueues ==
    ASSUME DispatchTypes, DispatchTypes', PosInv, QueueTypes, SessionTypes, NEW t \in Threads,
           Task(t)
    PROVE  PosInv' /\ QueueTypes' /\ SessionTypes'
<1>0. row \in [Prompts -> RowStates] /\ row' \in [Prompts -> RowStates]
  BY DEF DispatchTypes
<1> USE DEF sessionVars, rowVars, tokenVars, others
<1>1. CASE ReadQueue(t) \/ EmitQueue(t)
  <2>1. row' = row /\ pos' = pos /\ UNCHANGED <<gone, deleting>>
    BY <1>1 DEF ReadQueue, EmitQueue
  <2>2. Sent \subseteq Sent'
    BY <2>1 DEF Sent
  <2>3. PosInv'
    BY <2>1, <2>2, PosStep DEF PosInv
  <2>4. \/ published' = published /\ snap' = [snap EXCEPT ![t] = QueueOf(t)]
        \/ /\ published' = published \/ published' = [published EXCEPT ![t] = snap[t]]
           /\ snap' = [snap EXCEPT ![t] = Empty]
    BY <1>1 DEF ReadQueue, EmitQueue
  <2>5. IsQueue(QueueOf(t)) /\ IsQueue(Empty) /\ IsQueue(snap[t])
    BY ReadTyped DEF IsQueue, Empty, QueueTypes
  <2>6. DOMAIN published' = Threads /\ DOMAIN snap' = Threads
    BY <2>4 DEF QueueTypes
  <2>7. \A u \in Threads : IsQueue(published'[u]) /\ IsQueue(snap'[u])
    BY <2>4, <2>5 DEF QueueTypes
  <2>8. QueueTypes'
    BY <2>6, <2>7 DEF QueueTypes, IsQueue
  <2> QED BY <2>1, <2>3, <2>8 DEF SessionTypes
<1>2. CASE ~(ReadQueue(t) \/ EmitQueue(t))
  <2>1. UNCHANGED queueVars
    <3>1. CASE \/ PersistShell(t) \/ Consume(t) \/ Conclude(t) \/ Complete(t)
               \/ StopOnCancel(t) \/ EndBadly(t)
      BY <3>1 DEF PersistShell, Consume, Conclude, Complete, StopOnCancel, EndBadly, queueVars
    <3>2. CASE \/ SettleCancelled(t) \/ RecordCancelled(t) \/ SettleFailed(t) \/ SettlePanic(t)
               \/ SettleCompleted(t) \/ SettleFails(t) \/ GiveBack(t)
      BY <3>2 DEF SettleCancelled, RecordCancelled, SettleFailed, SettlePanic, SettleCompleted,
                  SettleFails, GiveBack, queueVars
    <3>3. CASE \/ ClearAfterPanic(t) \/ ReleaseThread(t) \/ FinishInterrupted(t)
               \/ ClaimNext(t) \/ NothingNext(t) \/ NumberTurn(t)
      BY <3>3 DEF ClearAfterPanic, ReleaseThread, FinishInterrupted, ClaimNext, NothingNext,
                  NumberTurn, queueVars
    <3> QED BY <1>2, <3>1, <3>2, <3>3 DEF Task, Settle
  <2>2. \/ row' = row
        \/ \E p : \E s \in RowStates \ {"unsent"} : row' = [row EXCEPT ![p] = s]
        \/ row' = [row EXCEPT ![cur[t]] = IF @ = "claimed" THEN "done" ELSE @]
        \/ row' = [row EXCEPT ![cur[t]] = IF @ = "claimed" THEN "queued" ELSE @]
    <3>1. CASE \/ PersistShell(t) \/ Conclude(t) \/ Complete(t) \/ StopOnCancel(t) \/ EndBadly(t)
      BY <3>1 DEF PersistShell, Conclude, Complete, StopOnCancel, EndBadly
    <3>2. CASE Consume(t)
      BY <3>2 DEF Consume, RowStates
    <3>3. CASE \/ SettleCancelled(t) \/ RecordCancelled(t) \/ SettleFailed(t) \/ SettlePanic(t)
               \/ SettleCompleted(t) \/ SettleFails(t) \/ GiveBack(t)
      BY <3>3 DEF SettleCancelled, RecordCancelled, SettleFailed, SettlePanic, SettleCompleted,
                  SettleFails, GiveBack
    <3>4. CASE \/ ClearAfterPanic(t) \/ ReleaseThread(t) \/ FinishInterrupted(t)
               \/ NothingNext(t) \/ NumberTurn(t)
      BY <3>4 DEF ClearAfterPanic, ReleaseThread, FinishInterrupted, NothingNext, NumberTurn
    <3>5. CASE ClaimNext(t)
      BY <3>5 DEF ClaimNext, RowStates
    <3> QED BY <1>2, <3>1, <3>2, <3>3, <3>4, <3>5 DEF Task, Settle
  <2>3. \A q \in Prompts : row'[q] = "unsent" => row[q] = "unsent"
    BY <1>0, <2>2
  <2>4. Sent \subseteq Sent'
    BY <1>0, <2>3, SentGrows
  <2> QED BY <2>1, <2>4, QueueFrame
<1> QED BY <1>1, <1>2

\* Every step keeps positions and queues.
LEMMA NextQueues ==
    ASSUME DispatchTypes, DispatchTypes', PosInv, QueueTypes, SessionTypes, [Next]_vars
    PROVE  PosInv' /\ QueueTypes' /\ SessionTypes'
<1>0. row \in [Prompts -> RowStates] /\ row' \in [Prompts -> RowStates]
  BY DEF DispatchTypes
<1>1. CASE UNCHANGED vars
  BY <1>1, QueueFrame DEF vars, rowVars, taskVars, queueVars, Sent
<1>2. CASE Crash
  <2>1. UNCHANGED <<pos, published, gone>> /\ deleting' = {} /\ ResetClaims
        /\ snap' = [t \in Threads |-> Empty]
    BY <1>2 DEF Crash
  <2>2. Sent \subseteq Sent'
    BY <1>0, <2>1, SentGrows DEF ResetClaims
  <2>3. PosInv'
    BY <2>1, <2>2, PosStep DEF PosInv
  <2>4. IsQueue(Empty)
    BY DEF IsQueue, Empty
  <2>5. QueueTypes'
    BY <2>1, <2>4 DEF QueueTypes, IsQueue
  <2> QED BY <2>1, <2>3, <2>5 DEF SessionTypes
<1>3. ASSUME NEW s \in Sessions, BeginDelete(s) \/ EndDelete(s)
      PROVE  PosInv' /\ QueueTypes' /\ SessionTypes'
  <2>1. UNCHANGED <<pos, published, snap>> /\ gone' \in {gone, gone \cup {s}}
        /\ deleting' \in {deleting \cup {s}, deleting \ {s}}
    BY <1>3 DEF BeginDelete, EndDelete, rowVars, taskVars
  <2>2. \A q \in Prompts : row'[q] = "unsent" => row[q] = "unsent"
    BY <1>3 DEF BeginDelete, EndDelete, rowVars
  <2>3. Sent \subseteq Sent'
    BY <1>0, <2>2, SentGrows
  <2>4. PosInv'
    BY <2>1, <2>3, PosStep DEF PosInv
  <2>5. QueueTypes' /\ SessionTypes'
    BY <2>1 DEF QueueTypes, SessionTypes, IsQueue
  <2> QED BY <2>4, <2>5
<1> QED BY <1>1, <1>2, <1>3, PromptCommandQueues, ThreadCommandQueues, TaskQueues DEF Next

\* What is appended to the log of a thread whose dispatcher has a prompt.
LEMMA LifecycleTyped ==
    ASSUME DispatchTypes, LogTypes, NEW t \in Threads, CurInv(t), HasPrompt(t), NEW kind \in Kinds
    PROVE  /\ Event(t, kind) \in Lifecycle /\ log[t] \in Seq(Lifecycle)
           /\ Append1(t, kind) => LogTypes'
<1>1. lastTurn[t] \in Nat /\ cur[t] \in Prompts
  BY DEF DispatchTypes, CurInv
<1>2. Event(t, kind) \in Lifecycle /\ log[t] \in Seq(Lifecycle)
  BY <1>1 DEF Event, Lifecycle, LogTypes
<1>3. Append(log[t], Event(t, kind)) \in Seq(Lifecycle)
  BY <1>2
<1> QED BY <1>2, <1>3 DEF Append1, LogTypes

\* A step of thread t that keeps its token with its prompt, or gets a new one.
LEMMA TokenStep ==
    ASSUME DispatchTypes, ClaimTypes, TokenInv, NEW t \in Threads,
           \A u \in Threads : u # t => pc'[u] = pc[u] /\ held'[u] = held[u],
           \/ RegisterCancel(t)
           \/ held'[t] = held[t] /\ (HasPrompt(t)' => HasPrompt(t))
           \/ ~HasPrompt(t)'
    PROVE  TokenInv'
<1>1. ASSUME NEW u \in Threads, u # t PROVE HasPrompt(u)' => held'[u] # 0
  BY <1>1 DEF TokenInv, HasPrompt
<1>2. HasPrompt(t)' => held'[t] # 0
  BY DEF TokenInv, RegisterCancel, DispatchTypes
<1> QED BY <1>1, <1>2 DEF TokenInv

\* Nobody's token or place changes.
LEMMA TokenFrame == ASSUME TokenInv, UNCHANGED <<pc, held>> PROVE TokenInv'
BY DEF TokenInv, HasPrompt

\* launch_claimed_prompt.
LEMMA LaunchTokens ==
    ASSUME DispatchTypes, ClaimTypes, TokenInv, LogTypes, NEW t \in Threads, NEW p \in Prompts,
           NEW at, \/ Launch(t, p, at)
                   \/ \E after : LaunchFails(t, p, at, after)
    PROVE  TokenInv' /\ LogTypes'
<1>1. log' = log
  BY DEF Launch, LaunchFails
<1>2. CASE Launch(t, p, at)
  <2>1. pc' = [pc EXCEPT ![t] = "start"] /\ RegisterCancel(t)
    BY <1>2 DEF Launch, Goto
  <2>2. \A u \in Threads : u # t => pc'[u] = pc[u] /\ held'[u] = held[u]
    BY <2>1 DEF RegisterCancel, DispatchTypes, ClaimTypes
  <2> QED BY <1>1, <2>1, <2>2, TokenStep DEF LogTypes
<1>3. ASSUME NEW after, LaunchFails(t, p, at, after) PROVE TokenInv'
  <2>1. held' = held /\ (pc' = pc \/ pc' = [pc EXCEPT ![t] = "stuck"])
    BY <1>3 DEF LaunchFails, Goto
  <2>2. /\ \A u \in Threads : u # t => pc'[u] = pc[u] /\ held'[u] = held[u]
        /\ pc'[t] = pc[t] \/ pc'[t] = "stuck"
    BY <2>1 DEF ClaimTypes
  <2>3. HasPrompt(t)' => HasPrompt(t)
    BY <2>2 DEF HasPrompt
  <2> QED BY <2>1, <2>2, <2>3, TokenStep
<1> QED BY <1>1, <1>2, <1>3 DEF LogTypes

LEMMA CommandTokens ==
    ASSUME DispatchTypes, ClaimTypes, TokenInv, LogTypes,
           \/ \E p \in Prompts : PromptCommand(p)
           \/ \E t \in Threads : ThreadCommand(t)
    PROVE  TokenInv' /\ LogTypes'
<1> USE DEF taskVars
<1>1. ASSUME NEW p \in Prompts, SendStarts(p) PROVE TokenInv' /\ LogTypes'
  <2> DEFINE t == ThreadOf[p]
  <2>0. t \in Threads
    BY ShapeAssumption
  <2>1. PICK first \in IF Visible(t) = {} THEN {p} ELSE Fronts(t) :
          log' = [log EXCEPT ![t] = Append(@, [ev |-> "started", turn |-> lastTurn[t] + 1,
                                               prompt |-> first])]
    BY <1>1 DEF SendStarts
  <2>2. first \in Prompts
    BY <2>1 DEF Fronts, Visible
  <2> DEFINE e == [ev |-> "started", turn |-> lastTurn[t] + 1, prompt |-> first]
  <2>3. e \in Lifecycle
    BY <2>0, <2>2 DEF Lifecycle, Kinds, DispatchTypes
  <2> HIDE DEF e
  <2>4. LogTypes'
    <3>1. log' = [log EXCEPT ![t] = Append(log[t], e)]
      BY <2>1 DEF e
    <3>2. Append(log[t], e) \in Seq(Lifecycle)
      BY <2>0, <2>3 DEF LogTypes
    <3> QED BY <2>0, <3>1, <3>2 DEF LogTypes
  <2>5. pc' = [pc EXCEPT ![t] = "waiting"] /\ RegisterCancel(t)
    BY <1>1 DEF SendStarts, Goto
  <2>6. \A u \in Threads : u # t => pc'[u] = pc[u] /\ held'[u] = held[u]
    BY <2>5 DEF RegisterCancel, DispatchTypes, ClaimTypes
  <2> QED BY <2>0, <2>4, <2>5, <2>6, TokenStep
<1>2. ASSUME NEW p \in Prompts, DispatchPromptIdle(p) PROVE TokenInv' /\ LogTypes'
  <2>1. ThreadOf[p] \in Threads
    BY ShapeAssumption
  <2> QED BY <1>2, <2>1, LaunchTokens DEF DispatchPromptIdle
<1>3. ASSUME NEW p \in Prompts, \/ SendQueued(p) \/ SendQueuedFails(p) \/ SendStartFails(p)
                                \/ DispatchPromptRunning(p) \/ DispatchPromptRunningFails(p)
      PROVE  TokenInv' /\ LogTypes'
  <2>1. UNCHANGED <<pc, held, log>>
    BY <1>3 DEF SendQueued, SendQueuedFails, SendStartFails, DispatchPromptRunning,
                DispatchPromptRunningFails
  <2> QED BY <2>1, TokenFrame DEF LogTypes
<1>4. ASSUME NEW t \in Threads, DispatchQueueIdle(t) PROVE TokenInv' /\ LogTypes'
  <2>1. PICK p \in Prompts : Launch(t, p, pos) \/ LaunchFails(t, p, pos, pos)
    BY <1>4 DEF DispatchQueueIdle, Fronts, Visible
  <2> QED BY <2>1, LaunchTokens
<1>5. ASSUME NEW t \in Threads,
             DispatchQueueRunning(t) \/ TripLate(t) \/ CancelTurn(t) \/ EditQueue(t)
      PROVE  TokenInv' /\ LogTypes'
  <2>1. UNCHANGED <<pc, held, log>>
    BY <1>5 DEF DispatchQueueRunning, TripLate, CancelTurn, EditQueue
  <2> QED BY <2>1, TokenFrame DEF LogTypes
<1> QED BY <1>1, <1>2, <1>3, <1>4, <1>5 DEF PromptCommand, ThreadCommand

\* The log of a dispatcher's steps: only a dispatcher with a prompt appends.
LEMMA TaskLog ==
    ASSUME DispatchTypes, LogTypes, NEW t \in Threads, CurInv(t), Task(t)
    PROVE  LogTypes'
<1>1. CASE \/ PersistShell(t) \/ Complete(t) \/ SettleFailed(t) \/ SettlePanic(t)
  <2>1. HasPrompt(t) /\ \E kind \in Kinds : Append1(t, kind)
    BY <1>1 DEF PersistShell, Complete, SettleFailed, SettlePanic, At, HasPrompt, Kinds
  <2> QED BY <2>1, LifecycleTyped
<1>2. CASE RecordCancelled(t)
  <2> DEFINE a == Event(t, "started")
             b == Event(t, "cancelled")
             l == log[t] \o (IF shell[t] THEN <<>> ELSE <<a>>) \o <<b>>
  <2>1. HasPrompt(t) /\ log' = [log EXCEPT ![t] = l]
    BY <1>2 DEF RecordCancelled, At, HasPrompt
  <2>2. a \in Lifecycle /\ b \in Lifecycle /\ log[t] \in Seq(Lifecycle)
    BY <2>1, LifecycleTyped DEF Kinds
  <2> HIDE DEF a, b
  <2>3. l \in Seq(Lifecycle)
    <3>1. CASE shell[t]
      BY <2>2, <3>1
    <3>2. CASE ~shell[t]
      BY <2>2, <3>2
    <3> QED BY <3>1, <3>2
  <2> HIDE DEF l
  <2> QED BY <2>1, <2>3 DEF LogTypes
<1>3. CASE \/ Consume(t) \/ Conclude(t) \/ StopOnCancel(t) \/ EndBadly(t)
  BY <1>3 DEF Consume, Conclude, StopOnCancel, EndBadly, LogTypes
<1>4. CASE \/ SettleCancelled(t) \/ SettleCompleted(t) \/ SettleFails(t) \/ GiveBack(t)
           \/ ReadQueue(t) \/ EmitQueue(t)
  BY <1>4 DEF SettleCancelled, SettleCompleted, SettleFails, GiveBack, ReadQueue, EmitQueue, LogTypes
<1>5. CASE \/ ClearAfterPanic(t) \/ ReleaseThread(t) \/ FinishInterrupted(t)
           \/ ClaimNext(t) \/ NothingNext(t) \/ NumberTurn(t)
  BY <1>5 DEF ClearAfterPanic, ReleaseThread, FinishInterrupted, ClaimNext, NothingNext, NumberTurn,
              LogTypes
<1> QED BY <1>1, <1>2, <1>3, <1>4, <1>5 DEF Task, Settle

\* A dispatcher drops its token when it leaves, with its prompt.
LEMMA LeaveTokens ==
    ASSUME DispatchTypes, ClaimTypes, TokenInv, NEW t \in Threads, NEW n, LeaveThread(t, n)
    PROVE  TokenInv'
<1>1. \/ pc' = [pc EXCEPT ![t] = "none"] /\ held' = [held EXCEPT ![t] = 0]
      \/ pc' = [pc EXCEPT ![t] = "stuck"] /\ held' = held
  BY DEF LeaveThread, EndTask, Goto
<1>2. /\ \A u \in Threads : u # t => pc'[u] = pc[u] /\ held'[u] = held[u]
      /\ pc'[t] \in {"none", "stuck"}
  BY <1>1 DEF DispatchTypes, ClaimTypes
<1>3. ~HasPrompt(t)'
  BY <1>2 DEF HasPrompt
<1> QED BY <1>2, <1>3, TokenStep

\* The other steps go from a place with a prompt to another, or end the turn.
LEMMA TaskTokens ==
    ASSUME DispatchTypes, ClaimTypes, TokenInv, NEW t \in Threads, Task(t)
    PROVE  TokenInv'
<1> DEFINE Stays == /\ held' = held
                    /\ \E there : pc' = [pc EXCEPT ![t] = there]
                    /\ HasPrompt(t) \/ ~HasPrompt(t)'
<1>s. ASSUME Stays PROVE TokenInv'
  <2>1. \A u \in Threads : u # t => pc'[u] = pc[u] /\ held'[u] = held[u]
    BY <1>s DEF ClaimTypes
  <2> QED BY <1>s, <2>1, TokenStep
<1>1. CASE \/ PersistShell(t) \/ Consume(t) \/ Conclude(t) \/ Complete(t)
           \/ StopOnCancel(t) \/ EndBadly(t)
  <2>1. held' = held /\ HasPrompt(t)
    BY <1>1 DEF PersistShell, Consume, Conclude, Complete, StopOnCancel, EndBadly, At, InTurn, HasPrompt
  <2>2. \E there : pc' = [pc EXCEPT ![t] = there]
    BY <1>1 DEF PersistShell, Consume, Conclude, Complete, StopOnCancel, EndBadly, Goto
  <2> QED BY <1>s, <2>1, <2>2
<1>2. CASE \/ SettleCancelled(t) \/ RecordCancelled(t) \/ SettleFailed(t) \/ SettlePanic(t)
           \/ SettleCompleted(t) \/ SettleFails(t) \/ GiveBack(t) \/ ReadQueue(t) \/ EmitQueue(t)
  <2>1. held' = held /\ HasPrompt(t)
    BY <1>2 DEF SettleCancelled, RecordCancelled, SettleFailed, SettlePanic, SettleCompleted,
                SettleFails, GiveBack, ReadQueue, EmitQueue, At, Returned, HasPrompt
  <2>2. \E there : pc' = [pc EXCEPT ![t] = there]
    BY <1>2 DEF SettleCancelled, RecordCancelled, SettleFailed, SettlePanic, SettleCompleted,
                SettleFails, GiveBack, ReadQueue, EmitQueue, Goto
  <2> QED BY <1>s, <2>1, <2>2
<1>3. CASE ClearAfterPanic(t)
  <2>1. held' = held /\ pc' = [pc EXCEPT ![t] = "releasing"]
    BY <1>3 DEF ClearAfterPanic, Goto
  <2>2. pc'[t] = "releasing"
    BY <2>1 DEF ClaimTypes
  <2>3. ~HasPrompt(t)'
    BY <2>2 DEF HasPrompt
  <2> QED BY <1>s, <2>1, <2>3
<1>4. CASE ReleaseThread(t) \/ NothingNext(t)
  BY <1>4, LeaveTokens DEF ReleaseThread, NothingNext
<1>5. CASE FinishInterrupted(t)
  <2>1. LeaveThread(t, 0) \/ (held' = held /\ pc' = [pc EXCEPT ![t] = "resumed"])
    BY <1>5 DEF FinishInterrupted, Goto
  <2>2. CASE held' = held /\ pc' = [pc EXCEPT ![t] = "resumed"]
    <3>1. pc'[t] = "resumed"
      BY <2>2 DEF ClaimTypes
    <3>2. ~HasPrompt(t)'
      BY <3>1 DEF HasPrompt
    <3> QED BY <1>s, <2>2, <3>2
  <2> QED BY <2>1, <2>2, LeaveTokens
<1>6. CASE ClaimNext(t)
  <2>1. RegisterCancel(t) /\ pc' = [pc EXCEPT ![t] = "read"]
    BY <1>6 DEF ClaimNext, Goto
  <2>2. \A u \in Threads : u # t => pc'[u] = pc[u] /\ held'[u] = held[u]
    BY <2>1 DEF RegisterCancel, DispatchTypes, ClaimTypes
  <2> QED BY <2>1, <2>2, TokenStep
<1>7. CASE NumberTurn(t)
  <2>1. held' = held /\ HasPrompt(t) /\ \E there : pc' = [pc EXCEPT ![t] = there]
    BY <1>7 DEF NumberTurn, Goto, At, HasPrompt, taskVars
  <2> QED BY <1>s, <2>1
<1> QED BY <1>1, <1>2, <1>3, <1>4, <1>5, <1>6, <1>7 DEF Task, Settle

\* Every step keeps tokens and logs.
LEMMA NextTokens ==
    ASSUME DispatchInv, TokenInv, LogTypes, [Next]_vars
    PROVE  TokenInv' /\ LogTypes'
<1>0. DispatchTypes /\ ClaimTypes /\ \A t \in Threads : CurInv(t)
  BY DEF DispatchInv, ClaimInv, TurnInv
<1>1. CASE UNCHANGED vars \/ \E s \in Sessions : BeginDelete(s) \/ EndDelete(s)
  <2>1. UNCHANGED <<pc, held, log>>
    BY <1>1 DEF vars, BeginDelete, EndDelete, taskVars
  <2> QED BY <2>1, TokenFrame DEF LogTypes
<1>2. CASE Crash
  <2>1. log' = log /\ \A t \in Threads : pc'[t] = "none"
    BY <1>2 DEF Crash
  <2> QED BY <2>1 DEF LogTypes, TokenInv, HasPrompt
<1>3. CASE \/ \E p \in Prompts : PromptCommand(p)
           \/ \E t \in Threads : ThreadCommand(t)
  BY <1>0, <1>3, CommandTokens
<1>4. CASE \E t \in Threads : Task(t)
  BY <1>0, <1>4, TaskTokens, TaskLog
<1> QED BY <1>1, <1>2, <1>3, <1>4 DEF Next

\* Every variable has its type, and a turn that runs has its prompt and its token:
\* what drain_queue expects when it says "an active queue prompt must have a
\* cancellation token", across give-backs, resumed queues, faults and restarts.
THEOREM TypeCorrect == Spec => []TypeOK
<1>1. Init => StateInv
  <2> SUFFICES ASSUME Init PROVE StateInv
    OBVIOUS
  <2>1. PosInv
    BY SentFinite DEF Init, PosInv
  <2>2. QueueTypes /\ SessionTypes
    BY DEF Init, QueueTypes, SessionTypes, IsQueue, Empty
  <2>3. TokenInv
    BY DEF Init, TokenInv, HasPrompt
  <2>4. LogTypes
    <3>1. <<>> \in Seq(Lifecycle)
      OBVIOUS
    <3> QED BY <3>1 DEF Init, LogTypes
  <2> QED BY <2>1, <2>2, <2>3, <2>4 DEF StateInv
<1>2. DispatchInv /\ DispatchInv' /\ StateInv /\ [Next]_vars => StateInv'
  BY NextQueues, NextTokens DEF StateInv, DispatchInv
<1>3. DispatchInv /\ StateInv => TypeOK
  <2> SUFFICES ASSUME DispatchInv, StateInv PROVE TypeOK
    OBVIOUS
  <2>1. DispatchTypes /\ ClaimTypes
    BY DEF DispatchInv, ClaimInv
  <2>2. pos \in [Prompts -> Nat]
    BY SentFinite DEF StateInv, PosInv
  <2>3. \A t \in Threads : InTurn(t) => cur[t] \in Prompts /\ held[t] # 0
    BY DEF DispatchInv, TurnInv, CurInv, StateInv, TokenInv, InTurn, HasPrompt
  <2>4. /\ gone \subseteq Sessions /\ deleting \subseteq Sessions
        /\ log \in [Threads -> Seq(Lifecycle)]
        /\ \A t \in Threads : IsQueue(published[t]) /\ IsQueue(snap[t])
    BY DEF StateInv, SessionTypes, LogTypes, QueueTypes
  <2> QED BY <2>1, <2>2, <2>3, <2>4 DEF TypeOK, DispatchTypes, ClaimTypes, RowStates, Budgets
<1> QED BY <1>1, <1>2, <1>3, DispatchInvariant, PTL DEF Spec

===============================================================================
