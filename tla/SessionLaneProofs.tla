--------------------------- MODULE SessionLaneProofs ---------------------------
(***************************************************************************)
(* The session lane keeps its promise for any tools, vendors, calls and     *)
(* messages.  The inductive invariant says that the execution lock orders   *)
(* those in it and that whoever works in the worktree holds it; a call that *)
(* its vendor executes is one the engine has approved and not released, or  *)
(* an orphan of a pinned backend, which the promise leaves out.             *)
(***************************************************************************)
EXTENDS SessionLane, TLAPS

Held == {"run", "late", "writing"}

\* Of two in the execution lock one came first.
Ordered == \A x, y \in execIn : x # y => x \in execAhead[y] \/ y \in execAhead[x]

\* Who works holds the lock.
Holding == \A x \in Work : pc[x] \in Held => HasExec(x)

\* What a vendor executes was approved, unless the vendor is adrift, and a vendor
\* that completed executes nothing.
Approved(c) == pc[c] = "run" \/ vendor[VendorOf[c]] = "adrift"
BusyApproved ==
    /\ \A c \in busy : Approved(c)
    /\ \A v \in Vendors : vendor[v] = "ending" => busy \cap CallsOf(v) = {}

LaneInv == TypeOK /\ Ordered /\ Holding /\ BusyApproved

ExecType == execIn \subseteq Work /\ execAhead \in [Clients -> SUBSET execIn]
GateType == gateIn \subseteq Clients /\ gateAhead \in [Clients -> SUBSET gateIn]

-------------------------------------------------------------------------------
(* The locks. *)

\* Joining the execution queue disturbs nobody who is in it.
LEMMA JoinExecKeeps ==
  ASSUME ExecType, Ordered, NEW x \in Work, JoinExec(x)
  PROVE  /\ ExecType' /\ Ordered'
         /\ \A y \in Work \ {x} : HasExec(y) => HasExec(y)'
  <1>1. x \in Clients
    BY DEF Clients
  <1>2. execIn' = execIn \cup {x} /\ execAhead' = [execAhead EXCEPT ![x] = execIn]
    BY DEF JoinExec
  <1>3. execAhead'[x] = execIn /\ \A y \in Clients \ {x} : execAhead'[y] = execAhead[y]
    BY <1>1, <1>2 DEF ExecType
  <1>4. ExecType'
    BY <1>1, <1>2 DEF ExecType
  <1>5. Ordered'
    <2> SUFFICES ASSUME NEW a \in execIn', NEW b \in execIn', a # b
                 PROVE  a \in execAhead'[b] \/ b \in execAhead'[a]
      BY DEF Ordered
    <2>1. a \in Clients /\ b \in Clients
      BY <1>4 DEF ExecType, Clients
    <2>2. CASE a = x
      BY <2>2, <1>2, <1>3
    <2>3. CASE b = x
      BY <2>3, <1>2, <1>3
    <2>4. CASE a # x /\ b # x
      BY <2>1, <2>4, <1>2, <1>3 DEF Ordered
    <2> QED BY <2>2, <2>3, <2>4
  <1>6. \A y \in Work \ {x} : HasExec(y) => HasExec(y)'
    BY <1>2, <1>3 DEF HasExec, Clients
  <1> QED BY <1>4, <1>5, <1>6

\* Nor does leaving it.
LEMMA ReleaseKeeps ==
  ASSUME ExecType, GateType, Ordered, NEW S \in SUBSET Clients, Release(S)
  PROVE  /\ ExecType' /\ GateType' /\ Ordered'
         /\ \A y \in Work \ S : HasExec(y) => HasExec(y)'
  <1>1. /\ execIn' = execIn \ S
        /\ execAhead' = [x \in Clients |-> IF x \in S THEN {} ELSE execAhead[x] \ S]
        /\ gateIn' = gateIn \ S
        /\ gateAhead' = [x \in Clients |-> IF x \in S THEN {} ELSE gateAhead[x] \ S]
    BY DEF Release, Without
  <1>2. \A y \in Clients : y \notin S => execAhead'[y] = execAhead[y] \ S
    BY <1>1
  <1>3. ExecType'
    BY <1>1 DEF ExecType
  <1>4. GateType'
    BY <1>1 DEF GateType
  <1>5. Ordered'
    BY <1>1, <1>2 DEF Ordered, ExecType, Clients
  <1>6. \A y \in Work \ S : HasExec(y) => HasExec(y)'
    BY <1>1, <1>2 DEF HasExec, Clients
  <1> QED BY <1>3, <1>4, <1>5, <1>6

\* A fence, or a mutation at the gate, takes its place there.
LEMMA JoinGateKeeps ==
  ASSUME GateType, NEW x \in Clients, JoinGate(x) PROVE GateType'
  BY DEF GateType, JoinGate

\* A writer that has got the lock and does not work yet finds nobody at work.
LEMMA WriterAlone ==
  ASSUME LaneInv, NEW x \in Writers, HasExec(x), pc[x] \notin Held
  PROVE  Touching = {}
  <1> SUFFICES ASSUME NEW y \in Touching PROVE FALSE
    OBVIOUS
  <1>1. y \in Work /\ pc[y] \in Held
    BY LaneAssumption DEF Touching, Orphans, LaneInv, BusyApproved, Approved, TypeOK, Work, Held
  <1>2. HasExec(y) /\ x # y
    BY <1>1 DEF LaneInv, Holding
  <1>3. x \in execAhead[y] \/ y \in execAhead[x]
    BY <1>2 DEF LaneInv, Ordered, HasExec
  <1>4. execAhead[x] = {}
    BY DEF HasExec, Writers
  <1> QED
    BY <1>2, <1>3, <1>4 DEF HasExec

\* A reader that has got it finds no writer at work.
LEMMA ReaderAmongReaders ==
  ASSUME LaneInv, NEW x \in Readers, HasExec(x), pc[x] \notin Held
  PROVE  Touching \cap Writers = {}
  <1> SUFFICES ASSUME NEW y \in Touching, y \in Writers PROVE FALSE
    OBVIOUS
  <1>1. y \in Work /\ pc[y] \in Held
    BY LaneAssumption DEF Touching, Orphans, LaneInv, BusyApproved, Approved, TypeOK, Work, Held
  <1>2. HasExec(y) /\ x # y
    BY <1>1 DEF LaneInv, Holding
  <1>3. x \in execAhead[y] \/ y \in execAhead[x]
    BY <1>2 DEF LaneInv, Ordered, HasExec
  <1>4. execAhead[y] = {} /\ execAhead[x] \cap Writers = {}
    BY <1>2 DEF HasExec, Writers
  <1> QED
    BY <1>3, <1>4
-------------------------------------------------------------------------------
(* The invariant. *)

\* A step keeps the invariant when it keeps the order of the lock and the places
\* of all but some, none of whom works afterwards.
LEMMA LaneKeeps ==
  ASSUME LaneInv, NEW D, TypeOK', Ordered', BusyApproved',
         \A y \in Work \ D : HasExec(y) => HasExec(y)',
         \A y \in Work : pc'[y] \in Held => y \notin D /\ (pc[y] \in Held \/ HasExec(y))
  PROVE  LaneInv'
  BY DEF LaneInv, Holding

\* Such a step may leave the execution lock alone.
LEMMA ExecAlone ==
  ASSUME LaneInv, TypeOK', BusyApproved', UNCHANGED exec,
         \A y \in Work : pc'[y] \in Held => pc[y] \in Held \/ HasExec(y)
  PROVE  LaneInv'
  <1>1. Ordered' /\ \A y \in Work : HasExec(y) => HasExec(y)'
    BY DEF LaneInv, Ordered, HasExec, exec
  <1> QED
    BY <1>1 DEF LaneInv, Holding

LEMMA InitKeeps == Init => LaneInv
  <1> SUFFICES ASSUME Init PROVE LaneInv
    OBVIOUS
  <1>1. TypeOK
    BY LaneAssumption DEF Init, TypeOK, States, None, Clients
  <1> QED
    BY <1>1, LaneAssumption DEF Init, LaneInv, Ordered, Holding, BusyApproved, Held, HasExec

\* The rest of the type invariant.
RestType ==
    /\ cancelled \subseteq Tools \cup Vendors
    /\ pending \subseteq Asking /\ answer \in [Asking -> {None, "approve", "always", "deny"}]
    /\ allow \in BOOLEAN /\ asked \subseteq Asking /\ settled \in [Asking -> Nat]
    /\ heard \subseteq Steers /\ durable \subseteq Steers

\* What a step that leaves the approvals and the messages alone keeps of it.
LEMMA RestKeeps ==
  ASSUME LaneInv, UNCHANGED <<cancelled, hub, steering>> PROVE RestType'
  BY DEF LaneInv, TypeOK, RestType, hub, steering

\* The end of an event loop: messages that wait are turned away, and whatever
\* the engine has approved keeps the lane.
LEMMA EndLoopKeeps ==
  ASSUME LaneInv, NEW v \in Vendors, NEW state \in {"denying", "ending"},
         NEW work \in [Work -> States], EndLoop(v, state, work), UNCHANGED busy, RestType',
         vendor[v] = "live",
         state = "ending" => busy \cap CallsOf(v) = {},
         \A y \in Work : work[y] \in Held => pc[y] \in Held,
         \A c \in busy : pc[c] = "run" => work[c] = "run"
  PROVE  LaneInv'
  <1> DEFINE S == {s \in SteersOf(v) : pc[s] \in {"queued", "gate"}}
  <1>1. S \in SUBSET Clients /\ Release(S) /\ vendor' = [vendor EXCEPT ![v] = state]
        /\ pc' = [x \in Work |-> IF x \in S THEN "refused" ELSE work[x]]
    BY DEF EndLoop, SteersOf, Clients, Work
  <1>2. ExecType /\ GateType /\ Ordered /\ S \cap Calls = {} /\ busy \subseteq Work
    BY LaneAssumption DEF LaneInv, TypeOK, ExecType, GateType, SteersOf, Work
  <1> HIDE DEF S
  <1>3. ExecType' /\ GateType' /\ Ordered' /\ \A y \in Work \ S : HasExec(y) => HasExec(y)'
    BY <1>1, <1>2, ReleaseKeeps
  <1>4. TypeOK'
    BY <1>1, <1>3 DEF LaneInv, TypeOK, ExecType, GateType, RestType, States
  <1>5. BusyApproved'
    BY <1>1, <1>2 DEF LaneInv, TypeOK, BusyApproved, Approved, CallsOf
  <1>6. \A y \in Work : pc'[y] \in Held => y \notin S /\ (pc[y] \in Held \/ HasExec(y))
    BY <1>1 DEF Held
  <1> QED
    BY <1>3, <1>4, <1>5, <1>6, LaneKeeps

\* Work that ends gives up its places.
LEMMA FinishKeeps ==
  ASSUME LaneInv, NEW S \in SUBSET Clients, Release(S), pc' \in [Work -> States], RestType',
         vendor' \in [Vendors -> {"off", "starting", "live", "halting", "denying", "ending",
                                  "draining", "late", "adrift", "closed"}],
         \A y \in Work : pc'[y] \in Held => y \notin S /\ pc[y] \in Held,
         busy' \subseteq busy, \A c \in busy' : Approved(c)',
         \A w \in Vendors : vendor'[w] = "ending" => vendor[w] = "ending"
  PROVE  LaneInv'
  <1>1. ExecType /\ GateType /\ Ordered
    BY DEF LaneInv, TypeOK, ExecType, GateType
  <1>2. ExecType' /\ GateType' /\ Ordered' /\ \A y \in Work \ S : HasExec(y) => HasExec(y)'
    BY <1>1, ReleaseKeeps
  <1>3. TypeOK'
    BY <1>2 DEF LaneInv, TypeOK, ExecType, GateType, RestType
  <1>4. BusyApproved'
    BY DEF LaneInv, BusyApproved, Approved, CallsOf
  <1> QED
    BY <1>2, <1>3, <1>4, LaneKeeps

\* Asking for approval.
LEMMA ApprovalKeeps == ASSUME LaneInv, Approval PROVE LaneInv'
  <1> USE LaneAssumption
  <1> PICK x \in Asking : \/ Gate(x) \/ AskFails(x) \/ Decide(x) \/ DecideFails(x)
                          \/ \E d \in {"approve", "always", "deny"} : Resolve(x, d)
    BY DEF Approval
  <1>a. x \in Work /\ x \in Clients /\ ExecType /\ GateType /\ Ordered
    BY DEF Asking, Work, Clients, LaneInv, TypeOK, ExecType, GateType
  <1>1. CASE Gate(x)
    <2>1. CASE allow
      <3>1. pc[x] = "idle" /\ pc' = [pc EXCEPT ![x] = "queued"] /\ JoinExec(x) /\ UNCHANGED gate
            /\ UNCHANGED <<vendor, cancelled, busy, hub, steering>>
        BY <1>1, <2>1 DEF Gate, Requests, To, hub
      <3>2. ExecType' /\ Ordered' /\ \A y \in Work \ {x} : HasExec(y) => HasExec(y)'
        BY <1>a, <3>1, JoinExecKeeps
      <3>3. TypeOK'
        BY <3>1, <3>2, <1>a DEF LaneInv, TypeOK, ExecType, gate, hub, steering, States
      <3>4. BusyApproved'
        BY <3>1, <1>a DEF LaneInv, TypeOK, BusyApproved, Approved, CallsOf, Work
      <3>5. \A y \in Work : pc'[y] \in Held => y \notin {x} /\ (pc[y] \in Held \/ HasExec(y))
        BY <3>1, <1>a DEF LaneInv, TypeOK, Held
      <3> QED
        BY <3>2, <3>3, <3>4, <3>5, LaneKeeps
    <2>2. CASE ~allow
      <3>1. pc[x] = "idle" /\ pc' = [pc EXCEPT ![x] = "ask"] /\ UNCHANGED exec /\ UNCHANGED gate
            /\ pending' = pending \cup {x} /\ asked' = asked \cup {x}
            /\ UNCHANGED <<vendor, cancelled, busy, answer, allow, settled, steering>>
        BY <1>1, <2>2 DEF Gate, Requests, To
      <3>2. TypeOK'
        BY <3>1, <1>a DEF LaneInv, TypeOK, exec, gate, steering, States
      <3>3. BusyApproved'
        BY <3>1, <1>a DEF LaneInv, TypeOK, BusyApproved, Approved, CallsOf, Work
      <3> QED
        BY <3>1, <3>2, <3>3, <1>a, ExecAlone DEF LaneInv, TypeOK, Held
    <2> QED BY <2>1, <2>2
  <1>2. CASE AskFails(x)
    <2>1. pc[x] = "idle" /\ ~allow /\ UNCHANGED <<cancelled, busy, hub, steering>>
      BY <1>2 DEF AskFails, Requests
    <2>2. CASE x \in Calls
      <3>1. /\ EndLoop(VendorOf[x], "denying", [pc EXCEPT ![x] = "done"]) /\ VendorOf[x] \in Vendors
            /\ vendor[VendorOf[x]] = "live"
        BY <1>2, <2>2 DEF AskFails, Requests, Looping
      <3>2. /\ [pc EXCEPT ![x] = "done"] \in [Work -> States]
            /\ \A y \in Work : [pc EXCEPT ![x] = "done"][y] \in Held => pc[y] \in Held
            /\ \A c \in busy : pc[c] = "run" => [pc EXCEPT ![x] = "done"][c] = "run"
        BY <1>a, <2>1 DEF LaneInv, TypeOK, BusyApproved, Approved, Held, States, Work
      <3> QED
        BY <3>1, <3>2, <2>1, RestKeeps, EndLoopKeeps
    <2>3. CASE x \notin Calls
      <3>1. pc' = [pc EXCEPT ![x] = "done"] /\ UNCHANGED <<vendor, exec, gate>>
        BY <1>2, <2>3 DEF AskFails, To
      <3>2. TypeOK'
        BY <2>1, <3>1, <1>a DEF LaneInv, TypeOK, exec, gate, hub, steering, States
      <3>3. BusyApproved'
        BY <2>1, <3>1, <1>a DEF LaneInv, TypeOK, BusyApproved, Approved, CallsOf, Work
      <3> QED
        BY <2>1, <3>1, <3>2, <3>3, <1>a, ExecAlone DEF LaneInv, TypeOK, Held
    <2> QED BY <2>2, <2>3
  <1>3. CASE Decide(x)
    <2> DEFINE d == IF Cancelled(x) THEN "deny" ELSE answer[x]
    <2>1. /\ pc[x] = "ask" /\ UNCHANGED <<vendor, cancelled, gate, busy, steering, asked>>
          /\ pending' = pending \ {x} /\ answer' = [answer EXCEPT ![x] = None]
          /\ settled' = [settled EXCEPT ![x] = @ + 1] /\ allow' \in BOOLEAN
          /\ IF d = "deny" THEN pc' = [pc EXCEPT ![x] = "done"] /\ UNCHANGED exec
                           ELSE pc' = [pc EXCEPT ![x] = "queued"] /\ JoinExec(x)
      BY <1>3 DEF Decide, Waited, Settle, Withdrawn, To, LaneInv, TypeOK
    <2> HIDE DEF d
    <2>2. RestType'
      BY <2>1, <1>a DEF LaneInv, TypeOK, RestType, steering
    <2>3. BusyApproved'
      BY <2>1, <1>a DEF LaneInv, TypeOK, BusyApproved, Approved, CallsOf, Work
    <2>4. CASE d = "deny"
      <3>1. TypeOK'
        BY <2>1, <2>2, <2>4, <1>a DEF LaneInv, TypeOK, RestType, exec, gate, States
      <3> QED
        BY <2>1, <2>3, <2>4, <3>1, <1>a, ExecAlone DEF LaneInv, TypeOK, Held
    <2>5. CASE d # "deny"
      <3>1. ExecType' /\ Ordered' /\ \A y \in Work \ {x} : HasExec(y) => HasExec(y)'
        BY <1>a, <2>1, <2>5, JoinExecKeeps
      <3>2. TypeOK'
        BY <2>1, <2>2, <2>5, <3>1, <1>a DEF LaneInv, TypeOK, ExecType, RestType, gate, States
      <3>3. \A y \in Work : pc'[y] \in Held => y \notin {x} /\ (pc[y] \in Held \/ HasExec(y))
        BY <2>1, <2>5, <1>a DEF LaneInv, TypeOK, Held
      <3> QED
        BY <3>1, <3>2, <3>3, <2>3, LaneKeeps
    <2> QED BY <2>4, <2>5
  <1>4. CASE DecideFails(x)
    <2>1. /\ pc[x] = "ask" /\ UNCHANGED <<cancelled, busy, allow, steering, asked>>
          /\ pending' = pending \ {x} /\ answer' = [answer EXCEPT ![x] = None]
          /\ settled' = [settled EXCEPT ![x] = @ + 1]
      BY <1>4 DEF DecideFails, Waited, Settle, Withdrawn
    <2>2. RestType'
      BY <2>1, <1>a DEF LaneInv, TypeOK, RestType, steering
    <2>3. CASE x \in Calls /\ vendor[VendorOf[x]] = "live"
      <3>1. EndLoop(VendorOf[x], "denying", [pc EXCEPT ![x] = "done"]) /\ VendorOf[x] \in Vendors
        BY <1>4, <2>3 DEF DecideFails
      <3>2. /\ [pc EXCEPT ![x] = "done"] \in [Work -> States]
            /\ \A y \in Work : [pc EXCEPT ![x] = "done"][y] \in Held => pc[y] \in Held
            /\ \A c \in busy : pc[c] = "run" => [pc EXCEPT ![x] = "done"][c] = "run"
        BY <1>a, <2>1 DEF LaneInv, TypeOK, BusyApproved, Approved, Held, States, Work
      <3> QED
        BY <3>1, <3>2, <2>1, <2>2, <2>3, EndLoopKeeps
    <2>4. CASE ~(x \in Calls /\ vendor[VendorOf[x]] = "live")
      <3>1. pc' = [pc EXCEPT ![x] = "done"] /\ UNCHANGED <<vendor, exec, gate>>
        BY <1>4, <2>4 DEF DecideFails, To
      <3>2. TypeOK'
        BY <2>1, <2>2, <3>1, <1>a DEF LaneInv, TypeOK, RestType, exec, gate, States
      <3>3. BusyApproved'
        BY <2>1, <3>1, <1>a DEF LaneInv, TypeOK, BusyApproved, Approved, CallsOf, Work
      <3> QED
        BY <2>1, <3>1, <3>2, <3>3, <1>a, ExecAlone DEF LaneInv, TypeOK, Held
    <2> QED BY <2>3, <2>4
  <1>5. ASSUME NEW d \in {"approve", "always", "deny"}, Resolve(x, d) PROVE LaneInv'
    <2>1. TypeOK'
      BY <1>5 DEF Resolve, LaneInv, TypeOK, exec, gate, steering
    <2>2. BusyApproved'
      BY <1>5 DEF Resolve, LaneInv, BusyApproved, Approved, CallsOf
    <2> QED
      BY <1>5, <2>1, <2>2, ExecAlone DEF Resolve
  <1> QED
    BY <1>1, <1>2, <1>3, <1>4, <1>5

\* Native tool calls: one starts with the lane in hand and keeps it when it is late.
LEMMA NativeKeeps == ASSUME LaneInv, NEW x \in Tools, StartTool(x) \/ FinishTool(x) \/ ToolTimesOut(x)
                     PROVE  LaneInv'
  <1> USE LaneAssumption
  <1>a. x \in Work /\ x \in Clients /\ x \notin busy
    BY DEF Work, Clients, LaneInv, TypeOK
  <1>1. CASE StartTool(x)
    <2>1. HasExec(x) /\ pc' = [pc EXCEPT ![x] = "run"]
          /\ UNCHANGED <<vendor, cancelled, exec, gate, busy, hub, steering>>
      BY <1>1 DEF StartTool, To, HasPermit
    <2>2. TypeOK'
      BY <2>1, <1>a DEF LaneInv, TypeOK, exec, gate, hub, steering, States
    <2>3. BusyApproved'
      BY <2>1, <1>a DEF LaneInv, TypeOK, BusyApproved, Approved, CallsOf, Work
    <2> QED
      BY <2>1, <2>2, <2>3, <1>a, ExecAlone DEF LaneInv, TypeOK
  <1>2. CASE FinishTool(x)
    <2>1. pc' = [pc EXCEPT ![x] = "done"] /\ Release({x})
          /\ UNCHANGED <<vendor, cancelled, busy, hub, steering>>
      BY <1>2 DEF FinishTool, To
    <2>2. /\ pc' \in [Work -> States] /\ \A c \in busy : Approved(c)'
          /\ \A y \in Work : pc'[y] \in Held => y \notin {x} /\ pc[y] \in Held
      BY <2>1, <1>a DEF LaneInv, TypeOK, BusyApproved, Approved, Held, States, Work
    <2> QED
      BY <2>1, <2>2, <1>a, RestKeeps, FinishKeeps DEF LaneInv, TypeOK
  <1>3. CASE ToolTimesOut(x)
    <2>1. pc[x] = "run" /\ pc' = [pc EXCEPT ![x] = "late"]
          /\ UNCHANGED <<vendor, cancelled, exec, gate, busy, hub, steering>>
      BY <1>3 DEF ToolTimesOut, To, KeepPermit
    <2>2. TypeOK'
      BY <2>1, <1>a DEF LaneInv, TypeOK, exec, gate, hub, steering, States
    <2>3. BusyApproved'
      BY <2>1, <1>a DEF LaneInv, TypeOK, BusyApproved, Approved, CallsOf, Work
    <2> QED
      BY <2>1, <2>2, <2>3, <1>a, ExecAlone DEF LaneInv, TypeOK, Held
  <1> QED BY <1>1, <1>2, <1>3

\* The life of a vendor attempt: it gives up its calls' places only when it has
\* completed, and executes nothing, has closed its stream, or is abandoned.
LEMMA VendorKeeps ==
  ASSUME LaneInv, NEW v \in Vendors,
         \/ StartVendor(v) \/ Started(v) \/ StopStartup(v) \/ StartupReturns(v) \/ Complete(v) \/ Break(v)
         \/ EndCompleted(v) \/ Fence(v) \/ CleanupTimesOut(v) \/ Abandon(v) \/ VendorCloses(v)
  PROVE  LaneInv'
  <1> USE LaneAssumption
  <1>a. v \in Clients /\ GateType
    BY DEF Clients, LaneInv, TypeOK, GateType
  <1>b. /\ pc \in [Work -> States] /\ \A c \in busy : Approved(c)
        /\ busy \subseteq Calls /\ Calls \subseteq Work
    BY DEF LaneInv, TypeOK, BusyApproved, Approved, Work
  <1>1. CASE StartVendor(v) \/ Started(v) \/ CleanupTimesOut(v) \/ StopStartup(v) \/ Fence(v)
    <2>1. /\ vendor[v] # "adrift"
          /\ \E next \in {"starting", "live", "closed", "late", "halting", "draining"} :
                vendor' = [vendor EXCEPT ![v] = next]
      BY <1>1 DEF StartVendor, Started, CleanupTimesOut, StopStartup, Fence
    <2>2. UNCHANGED <<pc, cancelled, exec, busy, hub, steering>> /\ (UNCHANGED gate \/ JoinGate(v))
      BY <1>1 DEF StartVendor, Started, CleanupTimesOut, StopStartup, Fence
    <2>3. GateType'
      BY <2>2, <1>a, JoinGateKeeps DEF gate, GateType
    <2>4. TypeOK'
      BY <2>1, <2>2, <2>3 DEF LaneInv, TypeOK, GateType, exec, hub, steering
    <2>5. BusyApproved'
      BY <2>1, <2>2 DEF LaneInv, TypeOK, BusyApproved, Approved, CallsOf
    <2> QED
      BY <2>2, <2>4, <2>5, ExecAlone
  <1>2. CASE Complete(v)
    BY <1>2, <1>b, RestKeeps, EndLoopKeeps DEF Complete, Looping
  <1>3. CASE Break(v)
    BY <1>3, <1>b, RestKeeps, EndLoopKeeps DEF Break
  <1> DEFINE G == Granted(v)
  <1>c. G \subseteq Calls /\ G \subseteq CallsOf(v) /\ G \in SUBSET Clients
    BY DEF Granted, CallsOf, Clients, Work
  <1>d. \A c \in Calls : c \in G => pc[c] = "run" /\ VendorOf[c] = v
    BY DEF Granted, CallsOf
  <1>4. CASE EndCompleted(v)
    <2>1. vendor[v] = "ending" /\ vendor' = [vendor EXCEPT ![v] = "closed"] /\ Release(G)
          /\ pc' = [x \in Work |-> IF x \in G THEN "done" ELSE pc[x]]
          /\ UNCHANGED <<cancelled, busy, hub, steering>>
      BY <1>4 DEF EndCompleted, Done
    <2>2. busy \cap G = {}
      BY <2>1, <1>c DEF LaneInv, BusyApproved, Approved
    <2> HIDE DEF G
    <2>3. /\ pc' \in [Work -> States] /\ \A c \in busy : Approved(c)'
          /\ \A y \in Work : pc'[y] \in Held => y \notin G /\ pc[y] \in Held
      BY <2>1, <2>2, <1>b DEF Held, States, Approved, LaneInv, TypeOK
    <2> QED
      BY <2>1, <2>3, <1>c, RestKeeps, FinishKeeps DEF LaneInv, TypeOK
  <1>5. CASE VendorCloses(v)
    <2>1. vendor' = [vendor EXCEPT ![v] = "closed"] /\ Release(G \cup {v})
          /\ pc' = [x \in Work |-> IF x \in G THEN "done" ELSE pc[x]]
          /\ busy' = busy \ CallsOf(v) /\ UNCHANGED <<cancelled, hub, steering>>
      BY <1>5 DEF VendorCloses, Done
    <2>2. \A c \in busy' : c \in busy /\ c \notin G /\ VendorOf[c] # v
      BY <2>1, <1>b, <1>c DEF CallsOf
    <2> HIDE DEF G
    <2>3. /\ pc' \in [Work -> States] /\ \A c \in busy' : Approved(c)'
          /\ \A y \in Work : pc'[y] \in Held => y \notin G \cup {v} /\ pc[y] \in Held
      BY <2>1, <2>2, <1>b DEF Held, States, Approved, LaneInv, TypeOK
    <2>4. G \cup {v} \in SUBSET Clients /\ busy' \subseteq busy
      BY <1>a, <1>c, <2>1
    <2> QED
      BY <2>1, <2>3, <2>4, RestKeeps, FinishKeeps DEF LaneInv, TypeOK
  <1>6. CASE Abandon(v)
    <2>1. vendor' = [vendor EXCEPT ![v] = "adrift"] /\ Release(G)
          /\ pc' = [x \in Work |-> IF x \in G THEN "done" ELSE pc[x]]
          /\ UNCHANGED <<cancelled, busy, hub, steering>>
      BY <1>6 DEF Abandon, Done
    <2> HIDE DEF G
    <2>2. /\ pc' \in [Work -> States] /\ \A c \in busy : Approved(c)'
          /\ \A y \in Work : pc'[y] \in Held => y \notin G /\ pc[y] \in Held
      BY <2>1, <1>b, <1>d DEF Held, States, Approved, LaneInv, TypeOK
    <2> QED
      BY <2>1, <2>2, <1>c, RestKeeps, FinishKeeps DEF LaneInv, TypeOK
  <1>7. CASE StartupReturns(v)
    <2>1. /\ vendor[v] = "halting" /\ UNCHANGED <<pc, cancelled, busy, hub, steering>> /\ Release({v})
          /\ \E next \in {"adrift", "closed"} : vendor' = [vendor EXCEPT ![v] = next]
      BY <1>7 DEF StartupReturns
    <2>2. /\ \A c \in busy : Approved(c)' /\ v \notin Work
          /\ vendor' \in [Vendors -> {"off", "starting", "live", "halting", "denying", "ending",
                                       "draining", "late", "adrift", "closed"}]
          /\ \A w \in Vendors : vendor'[w] = "ending" => vendor[w] = "ending"
      BY <2>1, <1>a, <1>b DEF Approved, LaneInv, TypeOK
    <2>3. /\ pc' \in [Work -> States] /\ busy' \subseteq busy /\ \A c \in busy' : Approved(c)'
          /\ \A y \in Work : pc'[y] \in Held => y \notin {v} /\ pc[y] \in Held
      BY <2>1, <2>2, <1>b
    <2>4. RestType'
      BY <2>1, RestKeeps
    <2> DEFINE S == {v}
    <2>5. Release(S)
      BY <2>1
    <2>6. S \in SUBSET Clients
      BY <1>a
    <2>7. \A y \in Work : pc'[y] \in Held => y \notin S /\ pc[y] \in Held
      BY <2>3
    <2> HIDE DEF S
    <2> QED
      BY <2>2, <2>3, <2>4, <2>5, <2>6, <2>7, FinishKeeps
  <1> QED BY <1>1, <1>2, <1>3, <1>4, <1>5, <1>6, <1>7

\* A call of a vendor: approved with the lane in hand, and released after the
\* vendor has finished with it.
LEMMA CallKeeps == ASSUME LaneInv, NEW c \in Calls, Approve(c) \/ VendorFinishes(c) \/ ToolCompleted(c)
                   PROVE  LaneInv'
  <1> USE LaneAssumption
  <1>a. c \in Work /\ c \in Clients /\ {c} \in SUBSET Clients
    BY DEF Work, Clients
  <1>b. Looping(VendorOf[c]) => vendor[VendorOf[c]] = "live"
    BY DEF Looping
  <1>1. ASSUME pc' = [pc EXCEPT ![c] = "done"], Release({c}), c \notin busy,
               UNCHANGED <<vendor, cancelled, busy, hub, steering>>
        PROVE  LaneInv'
    <2>1. /\ pc' \in [Work -> States] /\ \A b \in busy : Approved(b)'
          /\ \A y \in Work : pc'[y] \in Held => y \notin {c} /\ pc[y] \in Held
      BY <1>1, <1>a DEF LaneInv, TypeOK, BusyApproved, Approved, Held, States, Work
    <2> QED
      BY <1>1, <2>1, <1>a, RestKeeps, FinishKeeps DEF LaneInv, TypeOK
  <1>2. CASE Approve(c)
    <2>1. pc[c] = "gate" /\ HasExec(c) /\ vendor[VendorOf[c]] = "live" /\ c \notin busy
          /\ UNCHANGED <<vendor, cancelled, hub, steering>>
      BY <1>2, <1>b DEF Approve, HasPermit, LaneInv, BusyApproved, Approved
    <2>2. CASE pc' = [pc EXCEPT ![c] = "run"] /\ busy' = busy \cup {c} /\ UNCHANGED <<exec, gate>>
      <3>1. TypeOK'
        BY <2>1, <2>2, <1>a DEF LaneInv, TypeOK, exec, gate, hub, steering, States
      <3>2. BusyApproved'
        BY <2>1, <2>2, <1>a DEF LaneInv, TypeOK, BusyApproved, Approved, CallsOf, Work
      <3> QED
        BY <2>1, <2>2, <3>1, <3>2, <1>a, ExecAlone DEF LaneInv, TypeOK
    <2>3. CASE pc' = [pc EXCEPT ![c] = "done"] /\ Release({c}) /\ UNCHANGED busy
      BY <2>1, <2>3, <1>1
    <2> QED
      BY <1>2, <2>2, <2>3 DEF Approve, To
  <1>3. CASE VendorFinishes(c)
    <2>1. TypeOK'
      BY <1>3 DEF VendorFinishes, LaneInv, TypeOK, exec, gate, hub, steering
    <2>2. BusyApproved'
      BY <1>3 DEF VendorFinishes, LaneInv, BusyApproved, Approved, CallsOf
    <2> QED
      BY <1>3, <2>1, <2>2, ExecAlone DEF VendorFinishes
  <1>4. CASE ToolCompleted(c)
    BY <1>4, <1>1 DEF ToolCompleted, To
  <1> QED BY <1>2, <1>3, <1>4

\* A message takes the lane while its files are written, and only then.
LEMMA SteeringKeeps == ASSUME LaneInv, Steering PROVE LaneInv'
  <1> USE LaneAssumption
  <1> PICK s \in Steers : \/ Steer(s) \/ RejectSteer(s) \/ TakeSteer(s) \/ Materialize(s)
                          \/ Materialized(s) \/ VendorRefuses(s) \/ VendorAccepts(s) \/ CommitFails(s)
    BY DEF Steering
  <1>a. s \in Work /\ s \in Clients /\ {s} \in SUBSET Clients /\ s \notin busy /\ VendorOf[s] \in Vendors
        /\ ExecType /\ Ordered
    BY DEF Work, Clients, LaneInv, TypeOK, ExecType
  <1>1. ASSUME NEW next \in {"sent", "refused", "offered", "accepted"},
               pc' = [pc EXCEPT ![s] = next], RestType',
               UNCHANGED <<vendor, exec, gate, busy>>
        PROVE  LaneInv'
    <2>1. TypeOK'
      BY <1>1, <1>a DEF LaneInv, TypeOK, RestType, exec, gate, States
    <2>2. BusyApproved'
      BY <1>1, <1>a DEF LaneInv, TypeOK, BusyApproved, Approved, CallsOf, Work
    <2> QED
      BY <1>1, <2>1, <2>2, <1>a, ExecAlone DEF LaneInv, TypeOK, Held
  <1>2. CASE Steer(s) \/ VendorRefuses(s)
    <2>1. (pc' = [pc EXCEPT ![s] = "sent"] \/ pc' = [pc EXCEPT ![s] = "refused"])
          /\ UNCHANGED <<vendor, cancelled, exec, gate, busy, hub, steering>>
      BY <1>2 DEF Steer, VendorRefuses, To
    <2> QED
      BY <2>1, <1>1, RestKeeps
  <1>3. CASE VendorAccepts(s)
    <2>1. RestType'
      BY <1>3 DEF VendorAccepts, LaneInv, TypeOK, RestType, hub
    <2> QED
      BY <1>3, <2>1, <1>1 DEF VendorAccepts, To
  <1>4. CASE TakeSteer(s)
    <2>1. pc[s] = "sent" /\ UNCHANGED <<vendor, cancelled, gate, busy, hub, steering>>
      BY <1>4 DEF TakeSteer
    <2>2. CASE pc' = [pc EXCEPT ![s] = "offered"] /\ UNCHANGED exec
      BY <2>1, <2>2, <1>1, RestKeeps
    <2>3. CASE pc' = [pc EXCEPT ![s] = "queued"] /\ JoinExec(s)
      <3>1. ExecType' /\ Ordered' /\ \A y \in Work \ {s} : HasExec(y) => HasExec(y)'
        BY <1>a, <2>3, JoinExecKeeps
      <3>2. TypeOK'
        BY <2>1, <2>3, <3>1, <1>a DEF LaneInv, TypeOK, ExecType, gate, hub, steering, States
      <3>3. BusyApproved'
        BY <2>1, <2>3, <1>a DEF LaneInv, TypeOK, BusyApproved, Approved, CallsOf, Work
      <3>4. \A y \in Work : pc'[y] \in Held => y \notin {s} /\ (pc[y] \in Held \/ HasExec(y))
        BY <2>3, <1>a DEF LaneInv, TypeOK, Held
      <3> QED
        BY <3>1, <3>2, <3>3, <3>4, LaneKeeps
    <2> QED
      BY <1>4, <2>2, <2>3 DEF TakeSteer, To
  <1>5. CASE Materialize(s)
    <2>1. HasExec(s) /\ pc' = [pc EXCEPT ![s] = "writing"]
          /\ UNCHANGED <<vendor, cancelled, exec, gate, busy, hub, steering>>
      BY <1>5 DEF Materialize, To, HasPermit
    <2>2. TypeOK'
      BY <2>1, <1>a DEF LaneInv, TypeOK, exec, gate, hub, steering, States
    <2>3. BusyApproved'
      BY <2>1, <1>a DEF LaneInv, TypeOK, BusyApproved, Approved, CallsOf, Work
    <2> QED
      BY <2>1, <2>2, <2>3, <1>a, ExecAlone DEF LaneInv, TypeOK
  <1>6. CASE Materialized(s) \/ RejectSteer(s)
    <2>1. PICK next \in {"offered", "refused"} : pc' = [pc EXCEPT ![s] = next]
      BY <1>6 DEF Materialized, RejectSteer, To
    <2>2. Release({s}) /\ UNCHANGED <<vendor, cancelled, busy, hub, steering>>
      BY <1>6 DEF Materialized, RejectSteer
    <2>3. /\ pc' \in [Work -> States] /\ \A c \in busy : Approved(c)'
          /\ \A y \in Work : pc'[y] \in Held => y \notin {s} /\ pc[y] \in Held
      BY <2>1, <2>2, <1>a DEF LaneInv, TypeOK, BusyApproved, Approved, Held, States, Work
    <2> QED
      BY <2>2, <2>3, <1>a, RestKeeps, FinishKeeps DEF LaneInv, TypeOK
  <1>7. CASE CommitFails(s)
    <2>1. /\ EndLoop(VendorOf[s], "denying", [pc EXCEPT ![s] = "refused"]) /\ UNCHANGED busy /\ RestType'
          /\ vendor[VendorOf[s]] = "live"
      BY <1>7 DEF CommitFails, FailAttempt, LaneInv, TypeOK, RestType, hub
    <2>2. /\ [pc EXCEPT ![s] = "refused"] \in [Work -> States]
          /\ \A y \in Work : [pc EXCEPT ![s] = "refused"][y] \in Held => pc[y] \in Held
          /\ \A c \in busy : pc[c] = "run" => [pc EXCEPT ![s] = "refused"][c] = "run"
      BY <1>a DEF LaneInv, TypeOK, BusyApproved, Approved, Held, States, Work
    <2> QED
      BY <2>1, <2>2, <1>a, EndLoopKeeps
  <1> QED
    BY <1>2, <1>3, <1>4, <1>5, <1>6, <1>7

\* Every step keeps the invariant.
LEMMA StepKeeps == ASSUME LaneInv, [Next]_vars PROVE LaneInv'
  <1> USE LaneAssumption
  <1>1. CASE Approval
    BY <1>1, ApprovalKeeps
  <1>2. CASE Native
    BY <1>2, NativeKeeps DEF Native
  <1>3. CASE Vendor
    BY <1>3, VendorKeeps, CallKeeps DEF Vendor
  <1>4. CASE Steering
    BY <1>4, SteeringKeeps
  <1>5. ASSUME NEW x \in Readers, RequestRead(x) PROVE LaneInv'
    <2>1. x \in Work /\ x \notin busy /\ ExecType /\ Ordered
      BY DEF Readers, Work, LaneInv, TypeOK, ExecType
    <2>2. pc' = [pc EXCEPT ![x] = "queued"] /\ JoinExec(x)
          /\ UNCHANGED <<vendor, cancelled, gate, busy, hub, steering>>
      BY <1>5 DEF RequestRead, To
    <2>3. ExecType' /\ Ordered' /\ \A y \in Work \ {x} : HasExec(y) => HasExec(y)'
      BY <2>1, <2>2, JoinExecKeeps
    <2>4. TypeOK'
      BY <2>1, <2>2, <2>3 DEF LaneInv, TypeOK, ExecType, gate, hub, steering, States
    <2>5. BusyApproved'
      BY <2>1, <2>2 DEF LaneInv, TypeOK, BusyApproved, Approved, CallsOf, Work
    <2>6. \A y \in Work : pc'[y] \in Held => y \notin {x} /\ (pc[y] \in Held \/ HasExec(y))
      BY <2>1, <2>2 DEF LaneInv, TypeOK, Held
    <2> QED
      BY <2>3, <2>4, <2>5, <2>6, LaneKeeps
  <1>6. ASSUME NEW x \in Writers, EnterGate(x) PROVE LaneInv'
    <2>1. x \in Work /\ x \in Clients /\ GateType
      BY DEF Writers, Clients, LaneInv, TypeOK, GateType
    <2>2. pc[x] = "queued" /\ pc' = [pc EXCEPT ![x] = "gate"] /\ JoinGate(x)
          /\ UNCHANGED <<vendor, cancelled, exec, busy, hub, steering>>
      BY <1>6 DEF EnterGate, ExecutionFirst, To
    <2>3. GateType'
      BY <2>1, <2>2, JoinGateKeeps
    <2>4. TypeOK'
      BY <2>1, <2>2, <2>3 DEF LaneInv, TypeOK, GateType, exec, hub, steering, States
    <2>5. BusyApproved'
      BY <2>1, <2>2 DEF LaneInv, TypeOK, BusyApproved, Approved, CallsOf, Work
    <2> QED
      BY <2>1, <2>2, <2>4, <2>5, ExecAlone DEF LaneInv, TypeOK, Held
  <1>7. ASSUME NEW x \in Tools \cup Calls, GiveUp(x) PROVE LaneInv'
    <2>1. x \in Work /\ {x} \in SUBSET Clients
      BY DEF Work, Clients
    <2>2. pc[x] \in {"queued", "gate"} /\ pc' = [pc EXCEPT ![x] = "done"] /\ Release({x})
          /\ UNCHANGED <<vendor, cancelled, busy, hub, steering>>
      BY <1>7 DEF GiveUp, To
    <2>3. /\ pc' \in [Work -> States] /\ \A c \in busy : Approved(c)'
          /\ \A y \in Work : pc'[y] \in Held => y \notin {x} /\ pc[y] \in Held
      BY <2>1, <2>2 DEF LaneInv, TypeOK, BusyApproved, Approved, Held, States, Work
    <2> QED
      BY <2>1, <2>2, <2>3, RestKeeps, FinishKeeps DEF LaneInv, TypeOK
  <1>8. ASSUME NEW x \in Tools \cup Vendors, Cancel(x) PROVE LaneInv'
    <2>1. TypeOK'
      BY <1>8 DEF Cancel, LaneInv, TypeOK, exec, gate, hub, steering
    <2>2. BusyApproved'
      BY <1>8 DEF Cancel, LaneInv, BusyApproved, Approved, CallsOf
    <2> QED
      BY <1>8, <2>1, <2>2, ExecAlone DEF Cancel
  <1>9. CASE UNCHANGED vars
    <2>1. TypeOK'
      BY <1>9 DEF LaneInv, TypeOK, vars, exec, gate, hub, steering
    <2>2. BusyApproved'
      BY <1>9 DEF LaneInv, BusyApproved, Approved, CallsOf, vars
    <2> QED
      BY <1>9, <2>1, <2>2, ExecAlone DEF vars
  <1> QED
    BY <1>1, <1>2, <1>3, <1>4, <1>5, <1>6, <1>7, <1>8, <1>9 DEF Next

\* The invariant holds throughout.
LEMMA LaneInvariant == Spec => []LaneInv
  <1>1. LaneInv /\ [Next]_vars => LaneInv'
    BY StepKeeps
  <1> QED
    BY <1>1, InitKeeps, PTL DEF Spec

\* TypeOK: the two locks, the approvals and the messages stay well formed, and
\* nobody is waited for who has left.
THEOREM TypeCorrect == Spec => []TypeOK
  <1>1. LaneInv => TypeOK
    BY DEF LaneInv
  <1> QED
    BY <1>1, LaneInvariant, PTL

-------------------------------------------------------------------------------
(* The promise. *)

\* Only three steps put anybody to work in the worktree.
Begins == \/ \E x \in Tools : StartTool(x)
          \/ \E c \in Calls : Approve(c)
          \/ \E s \in Steers : Materialize(s)

\* Nobody starts work in any other step.
LEMMA OthersOnlyLeave == ASSUME LaneInv, [Next]_vars, ~Begins PROVE Touching' \subseteq Touching
  <1> USE LaneAssumption
  <1> DEFINE Quiet == /\ busy' \subseteq busy
                      /\ \A v \in Vendors : vendor[v] = "adrift" /\ vendor'[v] # "adrift" => busy' \cap CallsOf(v) = {}
                      /\ \A x \in Tools : pc'[x] \in {"run", "late"} => pc[x] \in {"run", "late"}
                      /\ \A x \in Steers : pc'[x] = "writing" => pc[x] = "writing"
  <1>a. /\ pc \in [Work -> States] /\ Tools \subseteq Work /\ Steers \subseteq Work /\ Calls \subseteq Work
        /\ Asking \subseteq Work /\ busy \subseteq Calls
        /\ vendor \in [Vendors -> {"off", "starting", "live", "halting", "denying", "ending",
                                   "draining", "late", "adrift", "closed"}]
    BY DEF LaneInv, TypeOK, Work, Asking
  <1>b. \A x \in Work, next \in {"ask", "queued", "gate", "done", "sent", "offered", "accepted", "refused"} :
           pc' = [pc EXCEPT ![x] = next] /\ busy' \subseteq busy /\ UNCHANGED vendor => Quiet
    BY <1>a
  <1>c. \A v \in Vendors, state \in {"denying", "ending"}, x \in Work,
           next \in {"done", "refused"} :
           EndLoop(v, state, [pc EXCEPT ![x] = next]) /\ vendor[v] = "live" /\ UNCHANGED busy => Quiet
    BY <1>a DEF EndLoop
  <1>d. \A v \in Vendors, state \in {"denying", "ending"} :
           EndLoop(v, state, pc) /\ vendor[v] = "live" /\ UNCHANGED busy => Quiet
    BY <1>a DEF EndLoop
  <1>1. Quiet
    <2>1. ASSUME NEW x \in Asking, Gate(x) \/ Decide(x) PROVE Quiet
      <3>1. UNCHANGED <<busy, vendor>> /\ \E next \in {"ask", "queued", "done"} : pc' = [pc EXCEPT ![x] = next]
        BY <2>1 DEF Gate, Decide, To
      <3> QED BY <3>1, <1>a, <1>b
    <2>2. ASSUME NEW x \in Asking, AskFails(x) \/ DecideFails(x) PROVE Quiet
      <3>1. UNCHANGED busy /\ (\/ /\ x \in Calls /\ EndLoop(VendorOf[x], "denying", [pc EXCEPT ![x] = "done"])
                                  /\ vendor[VendorOf[x]] = "live"
                               \/ pc' = [pc EXCEPT ![x] = "done"] /\ UNCHANGED vendor)
        BY <2>2 DEF AskFails, Requests, Looping, DecideFails, To
      <3> QED BY <3>1, <1>a, <1>b, <1>c
    <2>3. ASSUME NEW x \in Asking, \E d \in {"approve", "always", "deny"} : Resolve(x, d) PROVE Quiet
      BY <2>3 DEF Resolve
    <2>4. ASSUME NEW x \in Tools, FinishTool(x) \/ ToolTimesOut(x) PROVE Quiet
      BY <2>4, <1>a DEF FinishTool, ToolTimesOut, To
    <2>5. ASSUME NEW v \in Vendors, \/ StartVendor(v) \/ Started(v) \/ StopStartup(v) \/ StartupReturns(v)
                                    \/ Fence(v) \/ CleanupTimesOut(v)
          PROVE Quiet
      <3>1. UNCHANGED <<pc, busy>> /\ vendor[v] # "adrift" /\ \E state : vendor' = [vendor EXCEPT ![v] = state]
        BY <2>5 DEF StartVendor, Started, StopStartup, StartupReturns, Fence, CleanupTimesOut
      <3> QED BY <3>1, <1>a
    <2>6. ASSUME NEW v \in Vendors, Complete(v) \/ Break(v) PROVE Quiet
      BY <2>6, <1>d DEF Complete, Break, Looping
    <2>7. ASSUME NEW v \in Vendors, EndCompleted(v) \/ Abandon(v) \/ VendorCloses(v) PROVE Quiet
      <3>1. /\ busy' \subseteq busy /\ \E S \in SUBSET Work :
                  pc' = [x \in Work |-> IF x \in S THEN "done" ELSE pc[x]]
            /\ \E state : vendor' = [vendor EXCEPT ![v] = state]
            /\ vendor[v] # "adrift" \/ busy' \cap CallsOf(v) = {}
        BY <2>7, <1>a DEF EndCompleted, Abandon, VendorCloses, Done, Granted, CallsOf
      <3> QED BY <3>1, <1>a
    <2>8. ASSUME NEW c \in Calls, VendorFinishes(c) \/ ToolCompleted(c) PROVE Quiet
      BY <2>8, <1>a, <1>b DEF VendorFinishes, ToolCompleted, To
    <2>9. ASSUME NEW s \in Steers, Steer(s) \/ RejectSteer(s) \/ TakeSteer(s) \/ Materialized(s)
                                   \/ VendorRefuses(s) \/ VendorAccepts(s)
          PROVE Quiet
      <3>1. UNCHANGED <<busy, vendor>> /\ \E next \in {"sent", "refused", "queued", "offered", "accepted"} :
               pc' = [pc EXCEPT ![s] = next]
        BY <2>9 DEF Steer, RejectSteer, TakeSteer, Materialized, VendorRefuses, VendorAccepts, To
      <3> QED BY <3>1, <1>a, <1>b
    <2>10. ASSUME NEW s \in Steers, CommitFails(s) PROVE Quiet
      BY <2>10, <1>a, <1>c DEF CommitFails, FailAttempt
    <2>11. ASSUME NEW x \in Work, RequestRead(x) \/ EnterGate(x) \/ GiveUp(x) PROVE Quiet
      BY <2>11, <1>b DEF RequestRead, EnterGate, GiveUp, To
    <2>12. ASSUME NEW x \in Tools \cup Vendors, Cancel(x) PROVE Quiet
      BY <2>12 DEF Cancel
    <2>13. CASE UNCHANGED vars
      BY <2>13 DEF vars
    <2> HIDE DEF Quiet
    <2> QED
      BY <2>1, <2>2, <2>3, <2>4, <2>5, <2>6, <2>7, <2>8, <2>9, <2>10, <2>11, <2>12, <2>13, <1>a
      DEF Next, Approval, Native, Vendor, Steering, Begins, Readers, Writers
  <1> QED
    BY <1>1, <1>a DEF Touching, Orphans, CallsOf

\* A step of the engine is a step of the promise.
LEMMA StepOfPromise == ASSUME LaneInv, [Next]_vars PROVE [Promise!Next]_(Promise!lane)
  <1> USE LaneAssumption
  <1>a. Readers \cap Writers = {} /\ Calls \subseteq Writers /\ Steers \subseteq Writers
    BY DEF Readers, Writers, Work
  <1>b. pc \in [Work -> States] /\ Tools \subseteq Work /\ Calls \subseteq Work /\ Steers \subseteq Work
    BY DEF LaneInv, TypeOK, Work
  <1>1. ASSUME NEW x \in Writers, Touching = {}, Touching' = {x} PROVE Promise!Next
    BY <1>1, <1>a DEF Promise!Next, Promise!Write
  <1>2. CASE ~Begins
    BY <1>2, OthersOnlyLeave DEF Promise!Next, Promise!Leave
  <1>3. ASSUME NEW x \in Tools, StartTool(x) PROVE Promise!Next
    <2>1. /\ HasExec(x) /\ pc[x] \in {"queued", "gate"} /\ pc' = [pc EXCEPT ![x] = "run"]
          /\ UNCHANGED <<busy, vendor>>
      BY <1>3 DEF StartTool, To, HasPermit
    <2>2. Touching' = Touching \cup {x}
      BY <2>1, <1>b DEF Touching, Orphans
    <2>3. CASE x \in Readers
      <3>1. Touching \cap Writers = {}
        BY <2>1, <2>3, ReaderAmongReaders DEF Held
      <3> QED
        BY <2>2, <2>3, <3>1, <1>a DEF Promise!Next, Promise!Read
    <2>4. CASE x \notin Readers
      <3>1. x \in Writers /\ Touching = {}
        BY <2>1, <2>4, <1>b, WriterAlone DEF Held, Writers
      <3> QED
        BY <2>2, <3>1, <1>1
    <2> QED BY <2>3, <2>4
  <1>4. ASSUME NEW c \in Calls, Approve(c) PROVE Promise!Next
    <2>1. HasExec(c) /\ pc[c] = "gate" /\ vendor[VendorOf[c]] = "live" /\ UNCHANGED vendor
      BY <1>4 DEF Approve, HasPermit, Looping
    <2>2. Touching = {}
      BY <2>1, <1>a, WriterAlone DEF Held
    <2>3. CASE pc' = [pc EXCEPT ![c] = "run"] /\ busy' = busy \cup {c}
      <3>1. Touching' = {c}
        BY <2>1, <2>2, <2>3, <1>b DEF Touching, Orphans
      <3> QED
        BY <2>2, <3>1, <1>a, <1>1
    <2>4. CASE pc' = [pc EXCEPT ![c] = "done"] /\ UNCHANGED busy
      <3>1. Touching' = {}
        BY <2>1, <2>2, <2>4, <1>b DEF Touching, Orphans
      <3> QED
        BY <3>1 DEF Promise!Next, Promise!Leave
    <2> QED
      BY <1>4, <2>3, <2>4 DEF Approve, To
  <1>5. ASSUME NEW s \in Steers, Materialize(s) PROVE Promise!Next
    <2>1. HasExec(s) /\ pc[s] = "gate" /\ pc' = [pc EXCEPT ![s] = "writing"] /\ UNCHANGED <<busy, vendor>>
      BY <1>5 DEF Materialize, HasPermit, To
    <2>2. Touching = {}
      BY <2>1, <1>a, WriterAlone DEF Held
    <2>3. Touching' = {s}
      BY <2>1, <2>2, <1>b DEF Touching, Orphans
    <2> QED
      BY <2>2, <2>3, <1>a, <1>1
  <1> QED
    BY <1>2, <1>3, <1>4, <1>5 DEF Begins

\* LaneKept: the session lane implements the abstract one.  Cancelled tools, stopped
\* backends, pinned or not, and steered attachments never share the worktree with a
\* mutation, for any number of them; orphans, the calls whose permits
\* run_backend_turn drops when it returns an error, are outside the promise.
THEOREM LaneImplementsPromise == Spec => LaneKept
  <1>1. Init => Promise!Init
    BY LaneAssumption DEF Init, Promise!Init, Touching, Orphans, Work
  <1>2. LaneInv /\ [Next]_vars => [Promise!Next]_(Promise!lane)
    BY StepOfPromise
  <1> QED
    BY <1>1, <1>2, LaneInvariant, PTL DEF Spec, LaneKept, Promise!Spec

-------------------------------------------------------------------------------
(* Approvals. *)

\* AskedAndSettled, and that a request is made once, by who then waits.
AskInv ==
    /\ AskedAndSettled
    /\ \A x \in Asking : (pc[x] = "idle" => x \notin asked) /\ (pc[x] = "ask" => x \in asked)

\* No step outside the approvals makes anybody wait, or ends a wait.
LEMMA OthersDoNotAsk ==
  ASSUME TypeOK, [Next]_vars, ~Approval
  PROVE  /\ UNCHANGED hub
         /\ \A x \in Asking : (pc'[x] = "idle" => pc[x] = "idle") /\ (pc'[x] = "ask" <=> pc[x] = "ask")
  <1> USE LaneAssumption
  <1> DEFINE Same == \A x \in Asking : /\ pc'[x] = "idle" => pc[x] = "idle"
                                       /\ pc'[x] = "ask" <=> pc[x] = "ask"
  <1>a. pc \in [Work -> States] /\ Asking \subseteq Work /\ Asking \cap Steers = {} /\ Calls \subseteq Work
        /\ Tools \subseteq Work /\ Steers \subseteq Work
    BY DEF TypeOK, Work, Asking
  <1>b. \A y \in Work, next \in {"queued", "gate", "run", "late", "done", "sent", "writing", "offered",
                                   "accepted", "refused"} :
           pc' = [pc EXCEPT ![y] = next] /\ pc[y] # "ask" => Same
    BY <1>a
  <1>c. \A S \in SUBSET Work : pc' = [x \in Work |-> IF x \in S THEN "done" ELSE pc[x]]
                                /\ (\A x \in S : pc[x] = "run") => Same
    BY <1>a
  <1>d. \A v \in Vendors, state \in {"denying", "ending"} : EndLoop(v, state, pc) => Same
    BY <1>a DEF EndLoop, SteersOf
  <1>1. ASSUME NEW x \in Tools, StartTool(x) \/ FinishTool(x) \/ ToolTimesOut(x) PROVE UNCHANGED hub /\ Same
    <2>1. UNCHANGED hub /\ pc[x] # "ask" /\ \E next \in {"run", "done", "late"} : pc' = [pc EXCEPT ![x] = next]
      BY <1>1 DEF StartTool, FinishTool, ToolTimesOut, To
    <2> QED BY <2>1, <1>a, <1>b
  <1>2. ASSUME NEW v \in Vendors, \/ StartVendor(v) \/ Started(v) \/ StopStartup(v) \/ StartupReturns(v)
                                  \/ Fence(v) \/ CleanupTimesOut(v)
        PROVE  UNCHANGED hub /\ Same
    BY <1>2 DEF StartVendor, Started, StopStartup, StartupReturns, Fence, CleanupTimesOut
  <1>3. ASSUME NEW v \in Vendors, Complete(v) \/ Break(v) PROVE UNCHANGED hub /\ Same
    BY <1>3, <1>d DEF Complete, Break
  <1>4. ASSUME NEW v \in Vendors, EndCompleted(v) \/ Abandon(v) \/ VendorCloses(v) PROVE UNCHANGED hub /\ Same
    <2>1. /\ UNCHANGED hub /\ Granted(v) \in SUBSET Work /\ \A x \in Granted(v) : pc[x] = "run"
          /\ pc' = [x \in Work |-> IF x \in Granted(v) THEN "done" ELSE pc[x]]
      BY <1>4, <1>a DEF EndCompleted, Abandon, VendorCloses, Done, Granted, CallsOf
    <2> QED BY <2>1, <1>c
  <1>5. ASSUME NEW c \in Calls, Approve(c) \/ VendorFinishes(c) \/ ToolCompleted(c) PROVE UNCHANGED hub /\ Same
    <2>1. UNCHANGED hub /\ (\/ UNCHANGED pc
                            \/ pc[c] # "ask" /\ \E next \in {"run", "done"} : pc' = [pc EXCEPT ![c] = next])
      BY <1>5 DEF Approve, VendorFinishes, ToolCompleted, To
    <2> QED BY <2>1, <1>a, <1>b
  <1>6. ASSUME NEW s \in Steers, \/ Steer(s) \/ RejectSteer(s) \/ TakeSteer(s) \/ Materialize(s)
                                 \/ Materialized(s) \/ VendorRefuses(s) \/ VendorAccepts(s)
        PROVE  UNCHANGED hub /\ Same
    <2>1. UNCHANGED hub /\ pc[s] # "ask"
          /\ \E next \in {"sent", "refused", "queued", "offered", "writing", "accepted"} : pc' = [pc EXCEPT ![s] = next]
      BY <1>6 DEF Steer, RejectSteer, TakeSteer, Materialize, Materialized, VendorRefuses, VendorAccepts, To
    <2> QED BY <2>1, <1>a, <1>b
  <1>7. ASSUME NEW s \in Steers, CommitFails(s) PROVE UNCHANGED hub /\ Same
    BY <1>7, <1>a DEF CommitFails, FailAttempt, EndLoop, SteersOf
  <1>8. ASSUME NEW x \in Work, RequestRead(x) \/ EnterGate(x) \/ GiveUp(x) PROVE UNCHANGED hub /\ Same
    <2>1. UNCHANGED hub /\ pc[x] # "ask" /\ \E next \in {"queued", "gate", "done"} : pc' = [pc EXCEPT ![x] = next]
      BY <1>8 DEF RequestRead, EnterGate, ExecutionFirst, GiveUp, To
    <2> QED BY <2>1, <1>b
  <1>9. ASSUME NEW x \in Tools \cup Vendors, Cancel(x) PROVE UNCHANGED hub /\ Same
    BY <1>9 DEF Cancel
  <1>10. ASSUME UNCHANGED vars PROVE UNCHANGED hub /\ Same
    BY <1>10 DEF vars
  <1> HIDE DEF Same
  <1>11. Native => UNCHANGED hub /\ Same
    BY <1>1 DEF Native
  <1>12. Vendor => UNCHANGED hub /\ Same
    BY <1>2, <1>3, <1>4, <1>5 DEF Vendor
  <1>13. Steering => UNCHANGED hub /\ Same
    BY <1>6, <1>7 DEF Steering
  <1>14. Readers \subseteq Work /\ Writers \subseteq Work /\ Tools \cup Calls \subseteq Work
    BY <1>a DEF Readers, Writers
  <1>15. UNCHANGED hub /\ Same
    BY <1>8, <1>9, <1>10, <1>11, <1>12, <1>13, <1>14 DEF Next
  <1> QED
    BY <1>15 DEF Same

\* The approvals' own steps.
LEMMA AskingKeeps == ASSUME TypeOK, AskInv, Approval PROVE AskInv'
  <1> USE LaneAssumption
  <1> PICK x \in Asking : \/ Gate(x) \/ AskFails(x) \/ Decide(x) \/ DecideFails(x)
                          \/ \E d \in {"approve", "always", "deny"} : Resolve(x, d)
    BY DEF Approval
  <1>a. /\ x \in Work /\ pc \in [Work -> States] /\ Asking \subseteq Work /\ Asking \cap Steers = {}
        /\ answer \in [Asking -> {None, "approve", "always", "deny"}] /\ settled \in [Asking -> Nat]
        /\ pending \subseteq Asking
    BY DEF Asking, Work, TypeOK
  <1>b. \A v, state : EndLoop(v, state, [pc EXCEPT ![x] = "done"])
                     => \A y \in Asking : pc'[y] = IF y = x THEN "done" ELSE pc[y]
    BY <1>a DEF EndLoop, SteersOf
  <1>1. CASE Gate(x)
    <2>1. pc[x] = "idle" /\ UNCHANGED <<answer, settled>>
          /\ \/ pc' = [pc EXCEPT ![x] = "queued"] /\ UNCHANGED <<pending, asked>>
             \/ pc' = [pc EXCEPT ![x] = "ask"] /\ pending' = pending \cup {x} /\ asked' = asked \cup {x}
      BY <1>1 DEF Gate, Requests, To
    <2> QED
      BY <2>1, <1>a DEF AskInv, AskedAndSettled
  <1>2. CASE AskFails(x)
    <2>1. pc[x] = "idle" /\ UNCHANGED hub /\ \A y \in Asking : pc'[y] = IF y = x THEN "done" ELSE pc[y]
      BY <1>2, <1>a, <1>b DEF AskFails, Requests, To
    <2> QED
      BY <2>1, <1>a DEF AskInv, AskedAndSettled, hub
  <1>3. ASSUME pc[x] = "ask", pending' = pending \ {x}, answer' = [answer EXCEPT ![x] = None],
               settled' = [settled EXCEPT ![x] = @ + 1], UNCHANGED asked,
               NEW next \in {"done", "queued"},
               \A y \in Asking : pc'[y] = IF y = x THEN next ELSE pc[y]
        PROVE  AskInv'
    BY <1>3, <1>a DEF AskInv, AskedAndSettled
  <1>4. CASE Decide(x)
    <2>1. \E next \in {"done", "queued"} : pc' = [pc EXCEPT ![x] = next]
      BY <1>4 DEF Decide, To
    <2> QED
      BY <1>4, <2>1, <1>a, <1>3 DEF Decide, Waited, Settle, Withdrawn
  <1>5. CASE DecideFails(x)
    <2>1. \A y \in Asking : pc'[y] = IF y = x THEN "done" ELSE pc[y]
      BY <1>5, <1>a, <1>b DEF DecideFails, To
    <2> QED
      BY <1>5, <2>1, <1>3 DEF DecideFails, Waited, Settle, Withdrawn
  <1>6. ASSUME NEW d \in {"approve", "always", "deny"}, Resolve(x, d) PROVE AskInv'
    BY <1>6, <1>a DEF Resolve, AskInv, AskedAndSettled, None
  <1> QED
    BY <1>1, <1>2, <1>4, <1>5, <1>6

\* AskedAndSettled: whatever races an answer, each request for approval is resolved
\* once and leaves no sender behind.
THEOREM ApprovalsSettle == Spec => []AskedAndSettled
  <1>1. Init => AskInv
    BY LaneAssumption DEF Init, AskInv, AskedAndSettled, Asking, Work
  <1>2. TypeOK /\ AskInv /\ [Next]_vars => AskInv'
    <2> SUFFICES ASSUME TypeOK, AskInv, [Next]_vars PROVE AskInv'
      OBVIOUS
    <2>1. CASE Approval
      BY <2>1, AskingKeeps
    <2>2. CASE ~Approval
      <3>1. /\ UNCHANGED <<pending, answer, asked, settled>>
            /\ \A x \in Asking : (pc'[x] = "idle" => pc[x] = "idle") /\ (pc'[x] = "ask" <=> pc[x] = "ask")
        BY <2>2, OthersDoNotAsk DEF hub
      <3>2. pending \subseteq Asking
        BY DEF TypeOK
      <3> QED
        BY <3>1, <3>2 DEF AskInv, AskedAndSettled
    <2> QED BY <2>1, <2>2
  <1>3. AskInv => AskedAndSettled
    BY DEF AskInv
  <1> QED
    BY <1>1, <1>2, <1>3, TypeCorrect, PTL DEF Spec

-------------------------------------------------------------------------------
(* Steering. *)

\* A vendor attempt past its live phase; there is no way back from these.
Past == {"halting", "denying", "ending", "draining", "late", "adrift", "closed"}

\* SteeredAsTold is inductive once the attempts that took a message which is not
\* in the log are known to be past, not only not live: one that starts goes live.
SteerInv ==
    /\ \A s \in Steers : pc[s] = "accepted" <=> s \in durable
    /\ durable \subseteq heard
    /\ \A s \in heard \ durable : vendor[VendorOf[s]] \in Past

\* What a step that hands no message over leaves as it is.
NoneHandedOver ==
    /\ UNCHANGED steering
    /\ \A s \in Steers : pc'[s] = "accepted" <=> pc[s] = "accepted"
    /\ \A v \in Vendors : vendor[v] \in Past => vendor'[v] \in Past

\* The end of an event loop accepts nothing.
LEMMA EndLoopHandsNothingOver ==
  ASSUME TypeOK, NEW v \in Vendors, NEW state \in {"denying", "ending"},
         NEW work \in [Work -> States], EndLoop(v, state, work),
         \A s \in Steers : work[s] = "accepted" <=> pc[s] = "accepted"
  PROVE  /\ \A s \in Steers : pc'[s] = "accepted" <=> pc[s] = "accepted"
         /\ \A w \in Vendors : vendor[w] \in Past => vendor'[w] \in Past
         /\ vendor'[v] \in Past
  <1>1. /\ pc' = [x \in Work |-> IF x \in {s \in SteersOf(v) : pc[s] \in {"queued", "gate"}}
                                 THEN "refused" ELSE work[x]]
        /\ vendor' = [vendor EXCEPT ![v] = state]
    BY DEF EndLoop
  <1>2. Steers \subseteq Work /\ vendor \in [Vendors -> {"off", "starting", "live"} \cup Past]
    BY DEF Work, TypeOK, Past
  <1>3. \A s \in Steers : pc'[s] = "accepted" <=> pc[s] = "accepted"
    BY <1>1, <1>2
  <1>4. (\A w \in Vendors : vendor[w] \in Past => vendor'[w] \in Past) /\ vendor'[v] \in Past
    BY <1>1, <1>2 DEF Past
  <1> QED BY <1>3, <1>4

\* Only two steps hand a message over: the vendor takes it, and the log does or does not.
LEMMA OthersHandNothingOver ==
  ASSUME TypeOK, [Next]_vars, ~ \E s \in Steers : VendorAccepts(s) \/ CommitFails(s)
  PROVE  NoneHandedOver
  <1> USE LaneAssumption
  <1> DEFINE SamePc == \A s \in Steers : pc'[s] = "accepted" <=> pc[s] = "accepted"
             SameVendor == \A v \in Vendors : vendor[v] \in Past => vendor'[v] \in Past
             Goal == UNCHANGED steering /\ SamePc /\ SameVendor
  <1>a. /\ pc \in [Work -> States] /\ Asking \subseteq Work /\ Asking \cap Steers = {} /\ Calls \subseteq Work
        /\ Tools \subseteq Work /\ Steers \subseteq Work /\ Calls \cap Steers = {}
        /\ vendor \in [Vendors -> {"off", "starting", "live"} \cup Past]
        /\ \A x \in Calls \cup Steers : VendorOf[x] \in Vendors
    BY DEF TypeOK, Work, Asking, Past
  <1>b. \A y \in Work, next \in States \ {"accepted"} :
           pc' = [pc EXCEPT ![y] = next] /\ (y \notin Steers \/ pc[y] # "accepted") => SamePc
    BY <1>a
  <1>c. UNCHANGED vendor => SameVendor
    OBVIOUS
  <1>d. \A v \in Vendors, state \in {"denying", "ending"} : EndLoop(v, state, pc) => SamePc /\ SameVendor
    BY <1>a, EndLoopHandsNothingOver
  <1>e. \A v \in Vendors, x \in Asking : EndLoop(v, "denying", [pc EXCEPT ![x] = "done"]) => SamePc /\ SameVendor
    <2> SUFFICES ASSUME NEW v \in Vendors, NEW x \in Asking, EndLoop(v, "denying", [pc EXCEPT ![x] = "done"])
                 PROVE  SamePc /\ SameVendor
      OBVIOUS
    <2> DEFINE work == [pc EXCEPT ![x] = "done"]
    <2>1. work \in [Work -> States] /\ \A s \in Steers : work[s] = pc[s]
      BY <1>a DEF States
    <2>2. EndLoop(v, "denying", work)
      OBVIOUS
    <2> HIDE DEF work
    <2> QED BY <2>1, <2>2, EndLoopHandsNothingOver
  <1>f. \A v \in Vendors, state \in Past \cup {"starting", "live"} :
           vendor' = [vendor EXCEPT ![v] = state] /\ (state \in Past \/ vendor[v] \notin Past) => SameVendor
    BY <1>a
  <1>1. ASSUME NEW x \in Tools, StartTool(x) \/ FinishTool(x) \/ ToolTimesOut(x) PROVE Goal
    <2>1. /\ UNCHANGED steering /\ UNCHANGED vendor /\ x \in Work /\ x \notin Steers
          /\ \E next \in States \ {"accepted"} : pc' = [pc EXCEPT ![x] = next]
      BY <1>1, <1>a DEF StartTool, FinishTool, ToolTimesOut, To, States
    <2> QED BY <2>1, <1>b
  <1>2. ASSUME NEW v \in Vendors, \/ StartVendor(v) \/ Started(v) \/ StopStartup(v) \/ StartupReturns(v)
                                  \/ Fence(v) \/ CleanupTimesOut(v)
        PROVE  Goal
    <2>1. UNCHANGED steering /\ UNCHANGED pc
          /\ \E state \in Past \cup {"starting", "live"} :
                vendor' = [vendor EXCEPT ![v] = state] /\ (state \in Past \/ vendor[v] \notin Past)
      BY <1>2 DEF StartVendor, Started, StopStartup, StartupReturns, Fence, CleanupTimesOut, Past
    <2> QED BY <2>1, <1>f
  <1>3. ASSUME NEW v \in Vendors, Complete(v) \/ Break(v) PROVE Goal
    BY <1>3, <1>d DEF Complete, Break
  <1>4. ASSUME NEW v \in Vendors, EndCompleted(v) \/ Abandon(v) \/ VendorCloses(v) PROVE Goal
    <2>1. /\ UNCHANGED steering /\ \E state \in {"closed", "adrift"} : vendor' = [vendor EXCEPT ![v] = state]
          /\ pc' = [x \in Work |-> IF x \in Granted(v) THEN "done" ELSE pc[x]]
      BY <1>4 DEF EndCompleted, Abandon, VendorCloses, Done
    <2>2. Granted(v) \cap Steers = {} /\ {"closed", "adrift"} \subseteq Past
      BY <1>a DEF Granted, CallsOf, Past
    <2>3. SamePc
      BY <2>1, <2>2, <1>a
    <2> QED BY <2>1, <2>2, <2>3, <1>f
  <1>5. ASSUME NEW c \in Calls, Approve(c) \/ VendorFinishes(c) \/ ToolCompleted(c) PROVE Goal
    <2>1. /\ UNCHANGED steering /\ UNCHANGED vendor /\ c \in Work /\ c \notin Steers
          /\ UNCHANGED pc \/ \E next \in States \ {"accepted"} : pc' = [pc EXCEPT ![c] = next]
      BY <1>5, <1>a DEF Approve, VendorFinishes, ToolCompleted, To, States
    <2> QED BY <2>1, <1>b
  <1>6. ASSUME NEW s \in Steers, \/ Steer(s) \/ RejectSteer(s) \/ TakeSteer(s) \/ Materialize(s)
                                 \/ Materialized(s) \/ VendorRefuses(s)
        PROVE  Goal
    <2>1. /\ UNCHANGED steering /\ UNCHANGED vendor /\ s \in Work /\ pc[s] # "accepted"
          /\ \E next \in States \ {"accepted"} : pc' = [pc EXCEPT ![s] = next]
      BY <1>6, <1>a DEF Steer, RejectSteer, TakeSteer, Materialize, Materialized, VendorRefuses, To, States
    <2> QED BY <2>1, <1>b
  <1>7. ASSUME NEW x \in Asking, Gate(x) \/ Decide(x) \/ \E d \in {"approve", "always", "deny"} : Resolve(x, d)
        PROVE  Goal
    <2>1. /\ UNCHANGED steering /\ UNCHANGED vendor /\ x \in Work /\ x \notin Steers
          /\ UNCHANGED pc \/ \E next \in States \ {"accepted"} : pc' = [pc EXCEPT ![x] = next]
      BY <1>7, <1>a DEF Gate, Decide, Resolve, To, States
    <2> QED BY <2>1, <1>b
  <1>8. ASSUME NEW x \in Asking, AskFails(x) \/ DecideFails(x) PROVE Goal
    <2>1. /\ UNCHANGED steering /\ x \in Work /\ x \notin Steers /\ "done" \in States \ {"accepted"}
          /\ \/ x \in Calls /\ EndLoop(VendorOf[x], "denying", [pc EXCEPT ![x] = "done"])
             \/ pc' = [pc EXCEPT ![x] = "done"] /\ UNCHANGED vendor
      BY <1>8, <1>a DEF AskFails, DecideFails, To, States
    <2> QED BY <2>1, <1>a, <1>b, <1>e
  <1>9. ASSUME NEW x \in Work, RequestRead(x) \/ EnterGate(x) \/ GiveUp(x) PROVE Goal
    <2>1. /\ UNCHANGED steering /\ UNCHANGED vendor /\ pc[x] # "accepted"
          /\ \E next \in States \ {"accepted"} : pc' = [pc EXCEPT ![x] = next]
      BY <1>9 DEF RequestRead, EnterGate, ExecutionFirst, GiveUp, To, States
    <2> QED BY <2>1, <1>b
  <1>10. ASSUME NEW x \in Tools \cup Vendors, Cancel(x) PROVE Goal
    BY <1>10 DEF Cancel
  <1>11. ASSUME UNCHANGED vars PROVE Goal
    BY <1>11 DEF vars
  <1> HIDE DEF Goal
  <1>12. Native => Goal
    BY <1>1 DEF Native
  <1>13. Vendor => Goal
    BY <1>2, <1>3, <1>4, <1>5 DEF Vendor
  <1>14. Steering => Goal
    BY <1>6 DEF Steering
  <1>15. Approval => Goal
    BY <1>7, <1>8 DEF Approval
  <1>16. Readers \subseteq Work /\ Writers \subseteq Work /\ Tools \cup Calls \subseteq Work
    BY <1>a DEF Readers, Writers
  <1>17. Goal
    BY <1>9, <1>10, <1>11, <1>12, <1>13, <1>14, <1>15, <1>16 DEF Next
  <1> QED
    BY <1>17 DEF Goal, NoneHandedOver

\* SteeredAsTold: whoever steers is told of acceptance exactly when the message is
\* in the log, and no attempt goes on with one that is not.
THEOREM SteeringToldTruly == Spec => []SteeredAsTold
  <1>1. Init => SteerInv
    BY DEF Init, SteerInv, Work
  <1>2. TypeOK /\ SteerInv /\ [Next]_vars => SteerInv'
    <2> SUFFICES ASSUME TypeOK, SteerInv, [Next]_vars PROVE SteerInv'
      OBVIOUS
    <2>a. /\ pc \in [Work -> States] /\ Steers \subseteq Work /\ heard \subseteq Steers /\ durable \subseteq Steers
          /\ \A s \in Steers : VendorOf[s] \in Vendors
      BY LaneAssumption DEF TypeOK, Work
    <2>1. ASSUME NEW s \in Steers, VendorAccepts(s) PROVE SteerInv'
      <3>1. /\ pc' = [pc EXCEPT ![s] = "accepted"] /\ heard' = heard \cup {s} /\ durable' = durable \cup {s}
            /\ UNCHANGED vendor
        BY <2>1 DEF VendorAccepts, To
      <3> QED BY <3>1, <2>a DEF SteerInv
    <2>2. ASSUME NEW s \in Steers, CommitFails(s) PROVE SteerInv'
      <3> DEFINE work == [pc EXCEPT ![s] = "refused"]
      <3>1. /\ EndLoop(VendorOf[s], "denying", work) /\ heard' = heard \cup {s} /\ UNCHANGED durable
            /\ pc[s] = "offered"
        BY <2>2 DEF CommitFails, FailAttempt
      <3>2. work \in [Work -> States] /\ \A q \in Steers : work[q] = "accepted" <=> pc[q] = "accepted"
        BY <3>1, <2>a DEF States
      <3> HIDE DEF work
      <3>3. /\ \A q \in Steers : pc'[q] = "accepted" <=> pc[q] = "accepted"
            /\ \A w \in Vendors : vendor[w] \in Past => vendor'[w] \in Past
            /\ vendor'[VendorOf[s]] \in Past
        BY <3>1, <3>2, <2>a, EndLoopHandsNothingOver
      <3> QED BY <3>1, <3>3, <2>a DEF SteerInv
    <2>3. CASE ~ \E s \in Steers : VendorAccepts(s) \/ CommitFails(s)
      <3>1. NoneHandedOver
        BY <2>3, OthersHandNothingOver
      <3> QED BY <3>1, <2>a DEF NoneHandedOver, steering, SteerInv
    <2> QED BY <2>1, <2>2, <2>3
  <1>3. SteerInv => SteeredAsTold
    BY DEF SteerInv, SteeredAsTold, Past
  <1> QED
    BY <1>1, <1>2, <1>3, TypeCorrect, PTL DEF Spec
-------------------------------------------------------------------------------
(* The fence. *)

\* Where work is that has a place at the gate.
AtGate == {"gate"} \cup Held

\* Who is at the gate holds the lane already, and a writer at work has passed it.
Placed(x) ==
    /\ x \in gateIn => pc[x] \in AtGate /\ HasExec(x)
    /\ x \in Writers /\ pc[x] \in Held => Passed(x)

\* A backend that is being stopped has its fence up, or an approved call of its own
\* that holds the lane.
Fenced(v) == v \in gateIn \/ \E c \in CallsOf(v) : pc[c] = "run"

GateInv == (\A x \in Work : Placed(x)) /\ (\A v \in Vendors : Stopping(v) => Fenced(v))

\* Places at the gate are taken or given up, one by one or together.
LeaveGate(S) == gateIn' = gateIn \ S /\ gateAhead' = Without(gateAhead, S)
GateShape ==
    \/ UNCHANGED gate
    \/ \E y \in Clients : JoinGate(y)
    \/ \E S \in SUBSET Clients : LeaveGate(S)

\* While a backend is being stopped neither its fence nor its approved calls go.
Firm(v) ==
    /\ v \in gateIn => v \in gateIn'
    /\ \A c \in CallsOf(v) : pc[c] = "run" => pc'[c] = "run"

\* What every step does to the gate.
GateStep ==
    /\ \A x \in Work : Placed(x)'
    /\ GateShape
    /\ \A v \in Vendors : Stopping(v)' => IF Stopping(v) THEN Firm(v) ELSE Fenced(v)'

\* A step that leaves the place of x alone.
Undisturbed(x) ==
    /\ pc'[x] = pc[x] /\ (x \in gateIn' => x \in gateIn)
    /\ HasExec(x) => HasExec(x)'
    /\ Passed(x) => Passed(x)'

LEMMA UndisturbedKeeps == ASSUME NEW x \in Work, Placed(x), Undisturbed(x) PROVE Placed(x)'
  BY DEF Placed, Undisturbed

\* Leaving the gate lets others through and pushes nobody back.
LEMMA LeaveGateKeeps ==
  ASSUME GateType, NEW S \in SUBSET Clients, LeaveGate(S)
  PROVE  /\ \A y \in S : y \notin gateIn'
         /\ \A y \in Clients \ S : (y \in gateIn' <=> y \in gateIn) /\ (Passed(y) => Passed(y)')
  <1>1. gateIn' = gateIn \ S /\ \A y \in Clients \ S : gateAhead'[y] = gateAhead[y] \ S
    BY DEF LeaveGate, Without
  <1> QED BY <1>1 DEF Passed

\* So does joining it.
LEMMA JoinGateDisturbsNobody ==
  ASSUME GateType, NEW x \in Clients, JoinGate(x)
  PROVE  /\ gateAhead'[x] = gateIn /\ x \in gateIn'
         /\ \A y \in Clients \ {x} : /\ y \in gateIn' <=> y \in gateIn
                                     /\ gateAhead'[y] = gateAhead[y] /\ (Passed(y) => Passed(y)')
  <1>1. gateIn' = gateIn \cup {x} /\ gateAhead' = [gateAhead EXCEPT ![x] = gateIn]
    BY DEF JoinGate
  <1>2. gateAhead'[x] = gateIn /\ \A y \in Clients \ {x} : gateAhead'[y] = gateAhead[y]
    BY <1>1 DEF GateType
  <1> QED BY <1>1, <1>2 DEF Passed

\* A piece of work moves on alone, and keeps, takes or gives up its places.
LEMMA LoneStep ==
  ASSUME LaneInv, GateInv, NEW x \in Work, NEW next \in States,
         pc' = [pc EXCEPT ![x] = next], UNCHANGED vendor,
         \/ UNCHANGED <<exec, gate>> /\ (pc[x] \in AtGate => next \in AtGate)
            /\ (next \in Held /\ x \in Writers => Passed(x))
         \/ JoinExec(x) /\ UNCHANGED gate /\ pc[x] \notin AtGate /\ next \notin Held
         \/ JoinGate(x) /\ UNCHANGED exec /\ next = "gate" /\ HasExec(x)
         \/ Release({x}) /\ next \notin Held,
         x \in Calls /\ pc[x] = "run" /\ next # "run" => ~ Stopping(VendorOf[x])
  PROVE  GateStep
  <1>a. /\ ExecType /\ GateType /\ Ordered /\ pc \in [Work -> States] /\ x \in Clients /\ x \notin Vendors
        /\ {x} \in SUBSET Clients /\ Work \subseteq Clients /\ Vendors \subseteq Clients
        /\ Placed(x) /\ \A v \in Vendors : CallsOf(v) \subseteq Work
    BY LaneAssumption DEF LaneInv, TypeOK, ExecType, GateType, Clients, GateInv, CallsOf, Work
  <1>b. pc'[x] = next /\ \A y \in Work \ {x} : pc'[y] = pc[y]
    BY <1>a
  <1>c. \A v \in Vendors : (v \in gateIn' <=> v \in gateIn) => (Stopping(v)' => Stopping(v) /\ Firm(v))
    <2> SUFFICES ASSUME NEW v \in Vendors, v \in gateIn' <=> v \in gateIn, Stopping(v)'
                 PROVE  Stopping(v) /\ Firm(v)
      OBVIOUS
    <2>1. Stopping(v)
      BY DEF Stopping
    <2>2. ASSUME NEW c \in CallsOf(v), pc[c] = "run" PROVE pc'[c] = "run"
      BY <2>1, <2>2, <1>a, <1>b DEF CallsOf
    <2> QED BY <2>1, <2>2 DEF Firm
  <1>1. CASE /\ UNCHANGED <<exec, gate>> /\ (pc[x] \in AtGate => next \in AtGate)
             /\ (next \in Held /\ x \in Writers => Passed(x))
    <2>0. UNCHANGED execIn /\ UNCHANGED execAhead /\ UNCHANGED gateIn /\ UNCHANGED gateAhead
      BY <1>1 DEF exec, gate
    <2>1. \A y \in Work : (HasExec(y) => HasExec(y)') /\ (Passed(y) => Passed(y)')
      BY <2>0 DEF HasExec, Passed
    <2>2. \A y \in Work \ {x} : Placed(y)'
      BY <2>0, <2>1, <1>b, UndisturbedKeeps DEF Undisturbed, GateInv
    <2>3. Placed(x)'
      BY <2>0, <2>1, <1>1, <1>a, <1>b DEF Placed
    <2> QED BY <2>0, <2>2, <2>3, <1>c DEF GateStep, GateShape, gate
  <1>2. CASE JoinExec(x) /\ UNCHANGED gate /\ pc[x] \notin AtGate /\ next \notin Held
    <2>0. UNCHANGED gateIn /\ UNCHANGED gateAhead
      BY <1>2 DEF gate
    <2>1. \A y \in Work \ {x} : (HasExec(y) => HasExec(y)') /\ (Passed(y) => Passed(y)')
      BY <1>2, <2>0, <1>a, JoinExecKeeps DEF Passed
    <2>2. \A y \in Work \ {x} : Placed(y)'
      BY <2>0, <2>1, <1>b, UndisturbedKeeps DEF Undisturbed, GateInv
    <2>3. Placed(x)'
      BY <2>0, <1>2, <1>a, <1>b DEF Placed
    <2> QED BY <2>0, <2>2, <2>3, <1>c DEF GateStep, GateShape, gate
  <1>3. CASE JoinGate(x) /\ UNCHANGED exec /\ next = "gate" /\ HasExec(x)
    <2>0. UNCHANGED execIn /\ UNCHANGED execAhead
      BY <1>3 DEF exec
    <2>1. \A y \in Work : HasExec(y) => HasExec(y)'
      BY <2>0 DEF HasExec
    <2>2. \A y \in Clients \ {x} : (y \in gateIn' <=> y \in gateIn) /\ (Passed(y) => Passed(y)')
      BY <1>3, <1>a, JoinGateDisturbsNobody
    <2>3. \A y \in Work \ {x} : Placed(y)'
      BY <2>1, <2>2, <1>a, <1>b, UndisturbedKeeps DEF Undisturbed, GateInv
    <2>4. Placed(x)'
      BY <2>1, <1>3, <1>b DEF Placed, AtGate, Held
    <2> QED BY <2>2, <2>3, <2>4, <1>3, <1>a, <1>c DEF GateStep, GateShape
  <1>4. CASE Release({x}) /\ next \notin Held
    <2>0. LeaveGate({x})
      BY <1>4 DEF Release, LeaveGate
    <2>1. \A y \in Work \ {x} : HasExec(y) => HasExec(y)'
      BY <1>4, <1>a, ReleaseKeeps
    <2>2. x \notin gateIn' /\ \A y \in Clients \ {x} : (y \in gateIn' <=> y \in gateIn) /\ (Passed(y) => Passed(y)')
      BY <2>0, <1>a, LeaveGateKeeps
    <2>3. \A y \in Work \ {x} : Placed(y)'
      BY <2>1, <2>2, <1>a, <1>b, UndisturbedKeeps DEF Undisturbed, GateInv
    <2>4. Placed(x)'
      BY <2>2, <1>4, <1>b DEF Placed
    <2> QED BY <2>0, <2>2, <2>3, <2>4, <1>a, <1>c DEF GateStep, GateShape
  <1> QED BY <1>1, <1>2, <1>3, <1>4

\* An event loop ends: the messages it turns away leave the gate.
LEMMA EndLoopStep ==
  ASSUME LaneInv, GateInv, NEW v \in Vendors, NEW state \in {"denying", "ending"},
         NEW work \in [Work -> States], EndLoop(v, state, work),
         \A y \in Work : work[y] = pc[y] \/ (pc[y] \notin AtGate /\ work[y] \notin AtGate)
  PROVE  GateStep
  <1> DEFINE S == {s \in SteersOf(v) : pc[s] \in {"queued", "gate"}}
  <1>a. /\ ExecType /\ GateType /\ Ordered /\ Work \subseteq Clients /\ Vendors \subseteq Clients
        /\ \A w \in Vendors : CallsOf(w) \subseteq Work
    BY LaneAssumption DEF LaneInv, TypeOK, ExecType, GateType, Clients, CallsOf, Work
  <1>1. /\ S \in SUBSET Clients /\ S \cap Vendors = {} /\ S \cap Calls = {}
        /\ Release(S) /\ LeaveGate(S) /\ vendor' = [vendor EXCEPT ![v] = state]
        /\ pc' = [x \in Work |-> IF x \in S THEN "refused" ELSE work[x]]
    BY LaneAssumption DEF EndLoop, SteersOf, Clients, Work, Release, LeaveGate
  <1> HIDE DEF S
  <1>2. /\ \A y \in Work \cap S : pc'[y] = "refused"
        /\ \A y \in Work \ S : pc'[y] = work[y]
    BY <1>1
  <1>3. /\ \A y \in Work \ S : HasExec(y) => HasExec(y)'
        /\ \A y \in S : y \notin gateIn'
        /\ \A y \in Clients \ S : (y \in gateIn' <=> y \in gateIn) /\ (Passed(y) => Passed(y)')
    BY <1>1, <1>a, ReleaseKeeps, LeaveGateKeeps
  <1>4. ASSUME NEW y \in Work PROVE Placed(y)'
    <2>0. Placed(y) /\ y \in Clients
      BY <1>a DEF GateInv
    <2>1. CASE y \in S
      BY <2>1, <1>2, <1>3 DEF Placed, Held
    <2>2. CASE y \notin S /\ work[y] = pc[y]
      <3>1. Undisturbed(y)
        BY <2>0, <2>2, <1>2, <1>3 DEF Undisturbed
      <3> QED BY <2>0, <3>1, UndisturbedKeeps
    <2>3. CASE y \notin S /\ work[y] # pc[y]
      BY <2>0, <2>3, <1>2, <1>3 DEF Placed, AtGate
    <2> QED BY <2>1, <2>2, <2>3
  <1>5. ASSUME NEW w \in Vendors, Stopping(w)' PROVE Stopping(w) /\ Firm(w)
    <2>1. Stopping(w)
      BY <1>1, <1>5 DEF Stopping, LaneInv, TypeOK
    <2>2. w \in gateIn' <=> w \in gateIn
      BY <1>1, <1>3, <1>a
    <2>3. ASSUME NEW c \in CallsOf(w), pc[c] = "run" PROVE pc'[c] = "run"
      <3>1. c \in Work /\ c \notin S /\ "run" \in AtGate
        BY <1>1, <1>a DEF CallsOf, AtGate, Held
      <3> QED BY <2>3, <3>1, <1>2
    <2> QED BY <2>1, <2>2, <2>3 DEF Firm
  <1> QED BY <1>1, <1>4, <1>5 DEF GateStep, GateShape

\* Approved calls end with their backend: they, and its fence, leave the gate.
LEMMA BackendEndStep ==
  ASSUME LaneInv, GateInv, NEW v \in Vendors, NEW F \in {{}, {v}}, NEW G \in {{}, Granted(v)},
         NEW state \in {"closed", "adrift"}, vendor' = [vendor EXCEPT ![v] = state],
         Done(G), Release(G \cup F)
  PROVE  GateStep
  <1> DEFINE S == G \cup F
  <1>a. /\ ExecType /\ GateType /\ Ordered /\ Work \subseteq Clients /\ Vendors \subseteq Clients
        /\ \A w \in Vendors : CallsOf(w) \subseteq Work /\ CallsOf(w) \cap Vendors = {}
    BY LaneAssumption DEF LaneInv, TypeOK, ExecType, GateType, Clients, CallsOf, Work
  <1>1. /\ S \in SUBSET Clients /\ S \cap Work = G /\ S \cap Vendors \subseteq {v} /\ G \subseteq Granted(v)
        /\ Release(S) /\ LeaveGate(S)
    BY <1>a, LaneAssumption DEF Granted, Clients, Release, LeaveGate
  <1>2. pc' = [x \in Work |-> IF x \in G THEN "done" ELSE pc[x]]
    BY DEF Done
  <1> HIDE DEF S
  <1>3. \A y \in Work : pc'[y] = IF y \in S THEN "done" ELSE pc[y]
    BY <1>1, <1>2
  <1>4. /\ \A y \in Work \ S : HasExec(y) => HasExec(y)'
        /\ \A y \in S : y \notin gateIn'
        /\ \A y \in Clients \ S : (y \in gateIn' <=> y \in gateIn) /\ (Passed(y) => Passed(y)')
    BY <1>1, <1>a, ReleaseKeeps, LeaveGateKeeps
  <1>5. ASSUME NEW y \in Work PROVE Placed(y)'
    <2>0. Placed(y) /\ y \in Clients
      BY <1>a DEF GateInv
    <2>1. CASE y \in S
      BY <2>1, <1>3, <1>4 DEF Placed, Held
    <2>2. CASE y \notin S
      <3>1. Undisturbed(y)
        BY <2>0, <2>2, <1>3, <1>4 DEF Undisturbed
      <3> QED BY <2>0, <3>1, UndisturbedKeeps
    <2> QED BY <2>1, <2>2
  <1>6. ASSUME NEW w \in Vendors, Stopping(w)' PROVE Stopping(w) /\ Firm(w)
    <2>1. Stopping(w) /\ w # v
      BY <1>6 DEF Stopping, LaneInv, TypeOK
    <2>2. w \in gateIn' <=> w \in gateIn
      BY <1>1, <1>4, <1>a, <2>1
    <2>3. ASSUME NEW c \in CallsOf(w), pc[c] = "run" PROVE pc'[c] = "run"
      <3>1. c \in Work /\ c \notin G
        BY <1>a, <1>1, <2>1 DEF CallsOf, Granted
      <3> QED BY <2>3, <3>1, <1>1, <1>3
    <2> QED BY <2>1, <2>2, <2>3 DEF Firm
  <1> QED BY <1>1, <1>5, <1>6 DEF GateStep, GateShape

\* A vendor attempt moves on, and puts up its fence when it has to be stopped.
LEMMA AttemptStep ==
  ASSUME LaneInv, GateInv, NEW v \in Vendors, UNCHANGED <<pc, exec>>,
         \/ UNCHANGED gate /\ \A w \in Vendors : Stopping(w)' => Stopping(w) \/ Granted(w) # {}
         \/ JoinGate(v) /\ \A w \in Vendors : Stopping(w)' => Stopping(w) \/ w = v
  PROVE  GateStep
  <1>a. /\ GateType /\ Work \subseteq Clients /\ Vendors \subseteq Clients /\ v \notin Work
    BY LaneAssumption DEF LaneInv, TypeOK, GateType, Clients
  <1>0. UNCHANGED execIn /\ UNCHANGED execAhead /\ UNCHANGED pc
    BY DEF exec
  <1>1. \A y \in Work : HasExec(y) => HasExec(y)'
    BY <1>0 DEF HasExec
  <1>2. CASE UNCHANGED gate /\ \A w \in Vendors : Stopping(w)' => Stopping(w) \/ Granted(w) # {}
    <2>1. UNCHANGED gateIn /\ UNCHANGED gateAhead
      BY <1>2 DEF gate
    <2>2. \A y \in Work : Placed(y)'
      BY <2>1, <1>0, <1>1, UndisturbedKeeps DEF Undisturbed, Passed, GateInv
    <2>3. ASSUME NEW w \in Vendors, Stopping(w)' PROVE IF Stopping(w) THEN Firm(w) ELSE Fenced(w)'
      <3>1. Firm(w)
        BY <2>1, <1>0 DEF Firm
      <3>2. Granted(w) # {} => Fenced(w)'
        BY <1>0 DEF Granted, Fenced, CallsOf
      <3> QED BY <1>2, <2>3, <3>1, <3>2
    <2> QED BY <1>2, <2>2, <2>3 DEF GateStep, GateShape
  <1>3. CASE JoinGate(v) /\ \A w \in Vendors : Stopping(w)' => Stopping(w) \/ w = v
    <2>1. v \in gateIn' /\ \A y \in Clients \ {v} : (y \in gateIn' <=> y \in gateIn) /\ (Passed(y) => Passed(y)')
      BY <1>3, <1>a, JoinGateDisturbsNobody
    <2>2. \A y \in Work : Placed(y)'
      BY <2>1, <1>a, <1>0, <1>1, UndisturbedKeeps DEF Undisturbed, GateInv
    <2>3. ASSUME NEW w \in Vendors, Stopping(w)' PROVE IF Stopping(w) THEN Firm(w) ELSE Fenced(w)'
      <3>1. Firm(w)
        BY <2>1, <1>0, <1>a DEF Firm
      <3>2. w = v => Fenced(w)'
        BY <2>1 DEF Fenced
      <3> QED BY <1>3, <2>3, <3>1, <3>2
    <2> QED BY <1>3, <1>a, <2>2, <2>3 DEF GateStep, GateShape
  <1> QED BY <1>2, <1>3

\* Steps that leave work, attempts and locks alone.
LEMMA StillStep == ASSUME LaneInv, GateInv, UNCHANGED <<pc, vendor, exec, gate>> PROVE GateStep
  <1>1. /\ UNCHANGED execIn /\ UNCHANGED execAhead /\ UNCHANGED pc
        /\ UNCHANGED gateIn /\ UNCHANGED gateAhead /\ UNCHANGED vendor
    BY DEF exec, gate
  <1>2. \A y \in Work : Placed(y)'
    BY <1>1 DEF GateInv, Placed, HasExec, Passed
  <1>3. \A w \in Vendors : Stopping(w)' => Stopping(w) /\ Firm(w)
    BY <1>1 DEF Stopping, Firm
  <1> QED BY <1>1, <1>2, <1>3 DEF GateStep, GateShape, gate

\* Every step of the lane is one of these.
LEMMA GateSteps == ASSUME LaneInv, GateInv, [Next]_vars PROVE GateStep
  <1> USE LaneAssumption
  <1>a. /\ pc \in [Work -> States] /\ Asking \subseteq Work /\ Calls \subseteq Work
        /\ Tools \subseteq Work /\ Steers \subseteq Work /\ Tools \cap Calls = {} /\ Calls \cap Steers = {}
        /\ Asking \cap Readers = {} /\ Calls \cup Steers \subseteq Writers
        /\ \A x \in Calls \cup Steers : VendorOf[x] \in Vendors
        /\ vendor \in [Vendors -> {"off", "starting", "live"} \cup Past]
    BY DEF LaneInv, TypeOK, Work, Asking, Readers, Writers, Past
  <1>1. ASSUME NEW x \in Asking, Gate(x) \/ Decide(x) PROVE GateStep
    <2>1. /\ UNCHANGED vendor /\ UNCHANGED gate /\ pc[x] \in {"idle", "ask"}
          /\ \E next \in {"queued", "ask", "done"} : /\ pc' = [pc EXCEPT ![x] = next]
                                                     /\ UNCHANGED exec \/ JoinExec(x)
      BY <1>1 DEF Gate, Requests, Decide, Waited, To
    <2>2. PICK next \in {"queued", "ask", "done"} : pc' = [pc EXCEPT ![x] = next] /\ (UNCHANGED exec \/ JoinExec(x))
      BY <2>1
    <2>3. /\ next \in States /\ next \notin Held /\ x \in Work /\ pc[x] \notin AtGate /\ pc[x] # "run"
          /\ UNCHANGED <<exec, gate>> \/ (JoinExec(x) /\ UNCHANGED gate)
      BY <2>1, <2>2, <1>a DEF States, AtGate, Held
    <2> QED BY <2>1, <2>2, <2>3, LoneStep
  <1>2. ASSUME NEW x \in Asking, AskFails(x) \/ DecideFails(x) PROVE GateStep
    <2> DEFINE work == [pc EXCEPT ![x] = "done"]
    <2>1. /\ pc[x] \in {"idle", "ask"} /\ x \in Work
          /\ \/ x \in Calls /\ EndLoop(VendorOf[x], "denying", work)
             \/ pc' = work /\ UNCHANGED vendor /\ UNCHANGED <<exec, gate>>
      BY <1>2, <1>a DEF AskFails, Requests, DecideFails, Waited, To
    <2>2. /\ work \in [Work -> States] /\ "done" \in States /\ "done" \notin Held /\ pc[x] \notin AtGate /\ pc[x] # "run"
          /\ \A y \in Work : work[y] = pc[y] \/ (pc[y] \notin AtGate /\ work[y] \notin AtGate)
      BY <2>1, <1>a DEF States, AtGate, Held
    <2>3. CASE x \in Calls /\ EndLoop(VendorOf[x], "denying", work)
      <3> HIDE DEF work
      <3> QED BY <2>2, <2>3, <1>a, EndLoopStep
    <2>4. CASE pc' = work /\ UNCHANGED vendor /\ UNCHANGED <<exec, gate>>
      BY <2>1, <2>2, <2>4, LoneStep
    <2> QED BY <2>1, <2>3, <2>4
  <1>3. ASSUME NEW x \in Asking, \E d \in {"approve", "always", "deny"} : Resolve(x, d) PROVE GateStep
    BY <1>3, StillStep DEF Resolve
  <1>4. Approval => GateStep
    BY <1>1, <1>2, <1>3 DEF Approval
  <1>5. ASSUME NEW x \in Tools, StartTool(x) PROVE GateStep
    <2>1. /\ pc' = [pc EXCEPT ![x] = "run"] /\ UNCHANGED vendor /\ UNCHANGED <<exec, gate>>
          /\ x \in Writers => Passed(x)
      BY <1>5 DEF StartTool, HasPermit, To, Writers
    <2>2. "run" \in States /\ "run" \in AtGate /\ x \in Work /\ x \notin Calls
      BY <1>a DEF States, AtGate, Held
    <2> QED BY <2>1, <2>2, LoneStep
  <1>6. ASSUME NEW x \in Tools, FinishTool(x) PROVE GateStep
    <2>1. pc' = [pc EXCEPT ![x] = "done"] /\ UNCHANGED vendor /\ Release({x})
      BY <1>6 DEF FinishTool, To
    <2>2. "done" \in States /\ "done" \notin Held /\ x \in Work /\ x \notin Calls
      BY <1>a DEF States, Held
    <2> QED BY <2>1, <2>2, LoneStep
  <1>7. ASSUME NEW x \in Tools, ToolTimesOut(x) PROVE GateStep
    <2>1. pc' = [pc EXCEPT ![x] = "late"] /\ UNCHANGED vendor /\ UNCHANGED <<exec, gate>> /\ pc[x] = "run"
      BY <1>7 DEF ToolTimesOut, KeepPermit, To
    <2>2. "late" \in States /\ "late" \in AtGate /\ "run" \in Held /\ x \in Work /\ x \notin Calls
      BY <1>a DEF States, AtGate, Held
    <2>3. x \in Writers => Passed(x)
      BY <2>1, <2>2 DEF GateInv, Placed
    <2> QED BY <2>1, <2>2, <2>3, LoneStep
  <1>8. Native => GateStep
    BY <1>5, <1>6, <1>7 DEF Native
  <1>9. ASSUME NEW v \in Vendors, StartVendor(v) \/ Started(v) \/ CleanupTimesOut(v) PROVE GateStep
    <2>1. /\ UNCHANGED <<pc, exec>> /\ UNCHANGED gate
          /\ \E state \in {"starting", "live", "closed", "late"} :
                vendor' = [vendor EXCEPT ![v] = state] /\ (state = "late" => vendor[v] \in {"halting", "draining"})
      BY <1>9 DEF StartVendor, Started, CleanupTimesOut
    <2>2. \A w \in Vendors : Stopping(w)' => Stopping(w)
      BY <2>1, <1>a DEF Stopping
    <2> QED BY <2>1, <2>2, AttemptStep
  <1>10. ASSUME NEW v \in Vendors, StopStartup(v) \/ Fence(v) PROVE GateStep
    <2>1. /\ UNCHANGED <<pc, exec>> /\ \E state \in {"halting", "draining"} : vendor' = [vendor EXCEPT ![v] = state]
          /\ JoinGate(v) \/ (UNCHANGED gate /\ Granted(v) # {})
      BY <1>10 DEF StopStartup, Fence
    <2>2. \A w \in Vendors : Stopping(w)' => Stopping(w) \/ w = v
      BY <2>1, <1>a DEF Stopping
    <2> QED BY <2>1, <2>2, AttemptStep
  <1>11. ASSUME NEW v \in Vendors, Complete(v) \/ Break(v) PROVE GateStep
    BY <1>11, <1>a, EndLoopStep DEF Complete, Break
  <1>12. ASSUME NEW v \in Vendors, EndCompleted(v) \/ Abandon(v) \/ VendorCloses(v) \/ StartupReturns(v)
         PROVE  GateStep
    <2>1. \E state \in {"closed", "adrift"} : vendor' = [vendor EXCEPT ![v] = state]
      BY <1>12 DEF EndCompleted, Abandon, VendorCloses, StartupReturns
    <2>2. EndCompleted(v) \/ Abandon(v) => Done(Granted(v)) /\ Release(Granted(v) \cup {})
      BY DEF EndCompleted, Abandon
    <2>3. VendorCloses(v) => Done(Granted(v)) /\ Release(Granted(v) \cup {v})
      BY DEF VendorCloses
    <2>4. StartupReturns(v) => Done({}) /\ Release({} \cup {v})
      BY <1>a DEF StartupReturns, Done
    <2>5. \E F \in {{}, {v}}, G \in {{}, Granted(v)} : Done(G) /\ Release(G \cup F)
      BY <1>12, <2>2, <2>3, <2>4
    <2> QED BY <2>1, <2>5, BackendEndStep
  <1>13. ASSUME NEW c \in Calls, Approve(c) PROVE GateStep
    <2>1. /\ UNCHANGED vendor /\ pc[c] = "gate" /\ Passed(c) /\ c \in Work
          /\ \/ pc' = [pc EXCEPT ![c] = "run"] /\ UNCHANGED <<exec, gate>>
             \/ pc' = [pc EXCEPT ![c] = "done"] /\ Release({c})
      BY <1>13, <1>a DEF Approve, HasPermit, To
    <2>2. "run" \in States /\ "done" \in States /\ "done" \notin Held /\ "run" \in AtGate
      BY DEF States, AtGate, Held
    <2> QED BY <2>1, <2>2, LoneStep
  <1>14. ASSUME NEW c \in Calls, VendorFinishes(c) PROVE GateStep
    BY <1>14, StillStep DEF VendorFinishes
  <1>15. ASSUME NEW c \in Calls, ToolCompleted(c) PROVE GateStep
    <2>1. /\ UNCHANGED vendor /\ c \in Work /\ pc' = [pc EXCEPT ![c] = "done"] /\ Release({c})
          /\ ~ Stopping(VendorOf[c])
      BY <1>15, <1>a DEF ToolCompleted, Looping, Stopping, To
    <2>2. "done" \in States /\ "done" \notin Held
      BY DEF States, Held
    <2> QED BY <2>1, <2>2, LoneStep
  <1>16. Vendor => GateStep
    BY <1>9, <1>10, <1>11, <1>12, <1>13, <1>14, <1>15 DEF Vendor
  <1>17. ASSUME NEW s \in Steers, Steer(s) \/ TakeSteer(s) \/ VendorRefuses(s) \/ VendorAccepts(s)
         PROVE  GateStep
    <2>1. /\ UNCHANGED vendor /\ UNCHANGED gate /\ pc[s] \in {"idle", "sent", "offered"}
          /\ \E next \in {"sent", "refused", "queued", "offered", "accepted"} :
                pc' = [pc EXCEPT ![s] = next] /\ (UNCHANGED exec \/ JoinExec(s))
      BY <1>17 DEF Steer, TakeSteer, VendorRefuses, VendorAccepts, To
    <2>2. PICK next \in {"sent", "refused", "queued", "offered", "accepted"} :
             pc' = [pc EXCEPT ![s] = next] /\ (UNCHANGED exec \/ JoinExec(s))
      BY <2>1
    <2>3. /\ next \in States /\ next \notin Held /\ s \in Work /\ s \notin Calls /\ pc[s] \notin AtGate
          /\ UNCHANGED <<exec, gate>> \/ (JoinExec(s) /\ UNCHANGED gate)
      BY <2>1, <2>2, <1>a DEF States, AtGate, Held
    <2> QED BY <2>1, <2>2, <2>3, LoneStep
  <1>18. ASSUME NEW s \in Steers, Materialize(s) PROVE GateStep
    <2>1. UNCHANGED vendor /\ UNCHANGED <<exec, gate>> /\ pc' = [pc EXCEPT ![s] = "writing"] /\ Passed(s)
      BY <1>18 DEF Materialize, HasPermit, To
    <2>2. "writing" \in States /\ "writing" \in AtGate /\ s \in Work /\ s \notin Calls
      BY <1>a DEF States, AtGate, Held
    <2> QED BY <2>1, <2>2, LoneStep
  <1>19. ASSUME NEW s \in Steers, Materialized(s) \/ RejectSteer(s) PROVE GateStep
    <2>1. UNCHANGED vendor /\ Release({s}) /\ \E next \in {"offered", "refused"} : pc' = [pc EXCEPT ![s] = next]
      BY <1>19 DEF Materialized, RejectSteer, To
    <2>2. {"offered", "refused"} \subseteq States \ Held /\ s \in Work /\ s \notin Calls
      BY <1>a DEF States, Held
    <2> QED BY <2>1, <2>2, LoneStep
  <1>20. ASSUME NEW s \in Steers, CommitFails(s) PROVE GateStep
    <2> DEFINE work == [pc EXCEPT ![s] = "refused"]
    <2>1. EndLoop(VendorOf[s], "denying", work) /\ pc[s] = "offered"
      BY <1>20 DEF CommitFails, FailAttempt
    <2>2. /\ work \in [Work -> States]
          /\ \A y \in Work : work[y] = pc[y] \/ (pc[y] \notin AtGate /\ work[y] \notin AtGate)
      BY <2>1, <1>a DEF States, AtGate, Held
    <2> HIDE DEF work
    <2> QED BY <2>1, <2>2, <1>a, EndLoopStep
  <1>21. Steering => GateStep
    BY <1>17, <1>18, <1>19, <1>20 DEF Steering
  <1>22. ASSUME NEW x \in Readers, RequestRead(x) PROVE GateStep
    <2>1. /\ pc' = [pc EXCEPT ![x] = "queued"] /\ UNCHANGED vendor /\ UNCHANGED gate /\ JoinExec(x) /\ pc[x] = "idle"
      BY <1>22 DEF RequestRead, To
    <2>2. "queued" \in States /\ "queued" \notin Held /\ "idle" \notin AtGate /\ x \in Work /\ x \notin Calls
      BY <1>a DEF States, AtGate, Held, Readers
    <2> QED BY <2>1, <2>2, LoneStep
  <1>23. ASSUME NEW x \in Writers, EnterGate(x) PROVE GateStep
    <2>1. /\ pc' = [pc EXCEPT ![x] = "gate"] /\ UNCHANGED vendor /\ UNCHANGED exec /\ JoinGate(x)
          /\ pc[x] = "queued" /\ HasExec(x)
      BY <1>23 DEF EnterGate, ExecutionFirst, To
    <2>2. "gate" \in States /\ x \in Work
      BY DEF States, Writers
    <2> QED BY <2>1, <2>2, LoneStep
  <1>24. ASSUME NEW x \in Tools \cup Calls, GiveUp(x) PROVE GateStep
    <2>1. /\ pc' = [pc EXCEPT ![x] = "done"] /\ UNCHANGED vendor /\ Release({x}) /\ pc[x] # "run"
      BY <1>24 DEF GiveUp, To
    <2>2. "done" \in States /\ "done" \notin Held /\ x \in Work
      BY <1>a DEF States, Held
    <2> QED BY <2>1, <2>2, LoneStep
  <1>25. ASSUME NEW x \in Tools \cup Vendors, Cancel(x) PROVE GateStep
    BY <1>25, StillStep DEF Cancel
  <1>26. UNCHANGED vars => GateStep
    BY StillStep DEF vars
  <1> QED
    BY <1>4, <1>8, <1>16, <1>21, <1>22, <1>23, <1>24, <1>25, <1>26 DEF Next

\* The gate's part of the inductive invariant.
LEMMA GateInvariant == Spec => []GateInv
  <1>1. Init => GateInv
    BY DEF Init, GateInv, Placed, Held, Stopping
  <1>2. LaneInv /\ GateInv /\ [Next]_vars => GateInv'
    <2> SUFFICES ASSUME LaneInv, GateInv, [Next]_vars PROVE GateInv'
      OBVIOUS
    <2>1. GateStep
      BY GateSteps
    <2>2. ASSUME NEW v \in Vendors, Stopping(v)' PROVE Fenced(v)'
      <3>1. CASE Stopping(v)
        BY <3>1, <2>1, <2>2 DEF GateStep, GateInv, Firm, Fenced, CallsOf
      <3>2. CASE ~ Stopping(v)
        BY <3>2, <2>1, <2>2 DEF GateStep
      <3> QED BY <3>1, <3>2
    <2> QED BY <2>1, <2>2 DEF GateStep, GateInv
  <1> QED
    BY <1>1, <1>2, LaneInvariant, PTL DEF Spec

\* The step that admits a mutation takes another backend's fence away.
LEMMA AdmittedByLeaving ==
  ASSUME LaneInv, GateInv, LaneInv', GateStep, NEW x \in Writers, NEW v \in Vendors,
         Stopping(v), Stopping(v)', ~ HasPermit(x), HasPermit(x)'
  PROVE  \E w \in Vendors \ {v} : w \in gateIn \ gateIn'
  <1>a. /\ GateType /\ x \in Work /\ x \in Clients /\ Placed(x) /\ Firm(v) /\ Fenced(v)
        /\ Calls \subseteq Writers /\ Calls \subseteq Work
    BY LaneAssumption DEF LaneInv, TypeOK, GateType, Writers, Readers, Work, Clients, GateInv, GateStep
  <1>1. ~ Passed(x) /\ Passed(x)' /\ HasExec(x)'
    BY <1>a DEF HasPermit, Passed, Placed
  <1>2. v \in gateIn /\ v \in gateIn'
    <2>1. CASE v \in gateIn
      BY <2>1, <1>a DEF Firm
    <2>2. ASSUME NEW c \in CallsOf(v), pc[c] = "run" PROVE FALSE
      <3>1. pc'[c] = "run" /\ c \in Work /\ c \in Writers
        BY <2>2, <1>a DEF Firm, CallsOf
      <3>2. HasExec(c)'
        BY <3>1 DEF LaneInv, Holding, Held
      <3>3. Passed(c)
        BY <2>2, <3>1 DEF GateInv, Placed, Held
      <3>4. c # x
        BY <3>3, <1>1
      <3>5. c \in execAhead'[x] \/ x \in execAhead'[c]
        BY <3>2, <3>4, <1>1 DEF HasExec, LaneInv, Ordered
      <3> QED BY <3>1, <3>2, <3>5, <1>1 DEF HasExec, Writers
    <2> QED BY <2>1, <2>2, <1>a DEF Fenced
  <1>3. CASE UNCHANGED gate
    BY <1>1, <1>3 DEF Passed, gate
  <1>4. ASSUME NEW y \in Clients, JoinGate(y) PROVE FALSE
    <2>1. CASE y = x
      <3>1. gateAhead'[x] = gateIn
        BY <2>1, <1>4, <1>a, JoinGateDisturbsNobody
      <3> QED BY <3>1, <1>1, <1>2 DEF Passed
    <2>2. CASE y # x
      <3>1. (x \in gateIn' <=> x \in gateIn) /\ gateAhead'[x] = gateAhead[x]
        BY <2>2, <1>4, <1>a, JoinGateDisturbsNobody
      <3> QED BY <3>1, <1>1 DEF Passed
    <2> QED BY <2>1, <2>2
  <1>5. ASSUME NEW S \in SUBSET Clients, LeaveGate(S) PROVE \E w \in Vendors \ {v} : w \in gateIn \ gateIn'
    <2>1. gateIn' = gateIn \ S /\ gateAhead'[x] = IF x \in S THEN {} ELSE gateAhead[x] \ S
      BY <1>5, <1>a DEF LeaveGate, Without
    <2>2. x \in gateIn /\ x \notin S /\ gateAhead[x] \cap Vendors # {}
      BY <2>1, <1>1 DEF Passed
    <2>3. PICK w \in Vendors : w \in gateAhead[x]
      BY <2>2
    <2>4. w \in S /\ w \in gateIn
      BY <2>1, <2>2, <2>3, <1>1, <1>a DEF Passed, GateType
    <2> QED BY <2>1, <2>4, <1>2
  <1> QED
    BY <1>3, <1>4, <1>5, <1>1 DEF GateStep, GateShape

\* NoneAdmittedDuringCleanup: while a backend of an automatic route is being stopped
\* and waited for, the lane admits no mutation, except one that another backend's
\* fence held back before.
THEOREM FenceHolds == Spec => NoneAdmittedDuringCleanup
  <1> DEFINE Admits ==
         \A x \in Writers, v \in Automatic :
            Stopping(v) /\ Stopping(v)' /\ ~HasPermit(x) /\ HasPermit(x)'
            => \E w \in Vendors \ {v} : w \in gateIn \ gateIn'
  <1>1. LaneInv /\ GateInv /\ LaneInv' /\ [Next]_vars => [Admits]_vars
    <2> SUFFICES ASSUME LaneInv, GateInv, LaneInv', [Next]_vars PROVE Admits
      OBVIOUS
    <2>1. GateStep
      BY GateSteps
    <2> QED
      BY <2>1, AdmittedByLeaving DEF Automatic
  <1> QED
    BY <1>1, LaneInvariant, GateInvariant, PTL DEF Spec, NoneAdmittedDuringCleanup
===============================================================================
