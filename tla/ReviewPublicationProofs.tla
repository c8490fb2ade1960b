------------------------ MODULE ReviewPublicationProofs ------------------------
(***************************************************************************)
(* What the rows say about GitHub is true, and a job whose reviewers left   *)
(* something for the final editor publishes at most once: proved for any    *)
(* number of jobs, workers, restarts, retries and lost answers.             *)
(*                                                                          *)
(* The invariant is about one job at a time: its row, where its execution   *)
(* and its projection pass are, and what GitHub has of it.  A step is a     *)
(* step of one job and leaves the others alone, or does the same to all     *)
(* (polling, a draft, a restart).                                           *)
(***************************************************************************)
EXTENDS ReviewPublication, WellFoundedInduction, TLAPS

\* The phases before the publication is claimed.
Early == {"claimed", "review", "editing", "locking", "validate", "claim"}

\* How a row r goes with its execution e and token t, its pass p, a pass owed o, and
\* the POSTs in flight f, the answer a and the reviews n of GitHub.
Placed(r, e, t, p, o, f, a, n) ==
    /\ r.status = "absent" => r = NoRow /\ f = 0 /\ n = 0 /\ ~o /\ p = "idle"
    /\ e # "none" => r.status \in {"running", "stale"}
    /\ e \notin {"none", "claimed"} /\ r.status = "stale" => t
    /\ e \in Early => ~r.claimed /\ ~r.dispatched /\ ~r.accepted
    /\ r.status = "queued" => ~r.claimed
    /\ r.claimed => ~r.cancel /\ r.order # 0
    /\ a # "none" => e = "posting"

\* Whoever says that there is a review is right.
Truthful(r, e, p, a, n) ==
    (\/ r.accepted \/ r.published \/ r.status = "succeeded"
     \/ e \in {"record", "ok"} \/ p = "found" \/ a = "created")
    => n >= 1

\* A job with candidates: its editor has succeeded before it claims the publication,
\* so the claim is never taken back while a POST or a review of it exists.
Once(r, e, t, f, a, n) ==
    r.cand => /\ n + f <= 1
              /\ n + f >= 1 => r.claimed /\ r.dispatched
              /\ a = "rejected" => n + f = 0
              /\ r.claimed => r.editor = "succeeded" /\ r.status # "cancelled"
              /\ e = "editing" => r.editor = "running" \/ t
              /\ e = "locking" /\ ~t => r.editor = "succeeded"
              /\ e \in {"validate", "claim"} => r.editor = "succeeded"
              /\ r.published => r.accepted /\ r.claimed

JobOK(r, e, t, p, o, f, a, n) ==
    Placed(r, e, t, p, o, f, a, n) /\ Truthful(r, e, p, a, n) /\ Once(r, e, t, f, a, n)

\* How a row may change: it stays the row of its job, a published one keeps its place
\* in the publication order, and only the next place is ever given.
RowStep(r, s) ==
    /\ s.status = "absent" => r.status = "absent"
    /\ IF r.status = "absent" THEN s.status # "absent" => s.cand \in Candidates
       ELSE s.cand = r.cand /\ s.head = r.head
    /\ r.cand /\ r.published => s.published /\ s.order = r.order
    /\ s.order \in {r.order, 0} \/ (r.order = 0 /\ s.order = NextOrder)

Answers == {"none", "created", "rejected", "error"}

JobInv(j) == JobOK(job[j], exec[j], token[j], pass[j], j \in owed, flying[j], answer[j], reviews[j])

-------------------------------------------------------------------------------
(* Steps of one job. *)

JobsInv == \A j \in Jobs : JobInv(j)

\* Every job is as it should be after the step, its row has stayed its own, and at most
\* one was given a place in the publication order.
StepOK == /\ \A k \in Jobs : JobInv(k)' /\ RowStep(job[k], job'[k])
          /\ \E j \in Jobs : \A k \in Jobs \ {j} : job'[k].order \in {job[k].order, 0}

\* The types of what belongs to jobs.
JobTypes ==
    /\ job \in [Jobs -> Rows] /\ exec \in [Jobs -> Phases] /\ token \in [Jobs -> BOOLEAN]
    /\ pass \in [Jobs -> Passes] /\ owed \subseteq Jobs
    /\ flying \in [Jobs -> Nat] /\ reviews \in [Jobs -> Nat] /\ answer \in [Jobs -> Answers]

\* A function changed in at most one place.
Put(old, new, j, v) == new = [old EXCEPT ![j] = v] \/ (new = old /\ v = old[j])

\* A step of job j that leaves it with s, e, t, p, f, a and n.
Moves(j, s, e, t, p, f, a, n) ==
    /\ Put(job, job', j, s) /\ Put(exec, exec', j, e) /\ Put(pass, pass', j, p)
    /\ token' \in [Jobs -> BOOLEAN] /\ token'[j] = t /\ \A k \in Jobs \ {j} : token'[k] = token[k]
    /\ Put(flying, flying', j, f) /\ Put(answer, answer', j, a) /\ Put(reviews, reviews', j, n)
    /\ owed' \subseteq Jobs /\ owed' \ {j} = owed \ {j}

\* It leaves the others alone.
LEMMA Solo ==
  ASSUME JobTypes, JobsInv, NEW j \in Jobs,
         NEW s \in Rows, NEW e \in Phases, NEW t \in BOOLEAN, NEW p \in Passes,
         NEW f \in Nat, NEW a \in Answers, NEW n \in Nat,
         Moves(j, s, e, t, p, f, a, n),
         JobOK(s, e, t, p, j \in owed', f, a, n), RowStep(job[j], s)
  PROVE  JobTypes' /\ StepOK
  <1>1. job' \in [Jobs -> Rows] /\ job'[j] = s /\ \A k \in Jobs \ {j} : job'[k] = job[k]
    BY DEF Moves, Put, JobTypes
  <1>2. exec' \in [Jobs -> Phases] /\ exec'[j] = e /\ \A k \in Jobs \ {j} : exec'[k] = exec[k]
    BY DEF Moves, Put, JobTypes
  <1>3. token' \in [Jobs -> BOOLEAN] /\ token'[j] = t /\ \A k \in Jobs \ {j} : token'[k] = token[k]
    BY DEF Moves
  <1>4. pass' \in [Jobs -> Passes] /\ pass'[j] = p /\ \A k \in Jobs \ {j} : pass'[k] = pass[k]
    BY DEF Moves, Put, JobTypes
  <1>5. flying' \in [Jobs -> Nat] /\ flying'[j] = f /\ \A k \in Jobs \ {j} : flying'[k] = flying[k]
    BY DEF Moves, Put, JobTypes
  <1>6. answer' \in [Jobs -> Answers] /\ answer'[j] = a /\ \A k \in Jobs \ {j} : answer'[k] = answer[k]
    BY DEF Moves, Put, JobTypes
  <1>7. reviews' \in [Jobs -> Nat] /\ reviews'[j] = n /\ \A k \in Jobs \ {j} : reviews'[k] = reviews[k]
    BY DEF Moves, Put, JobTypes
  <1>8. owed' \subseteq Jobs /\ owed' \ {j} = owed \ {j}
    BY DEF Moves
  <1>9. JobTypes'
    BY <1>1, <1>2, <1>3, <1>4, <1>5, <1>6, <1>7, <1>8 DEF JobTypes
  <1>10. JobInv(j)' /\ RowStep(job[j], job'[j])
    BY <1>1, <1>2, <1>3, <1>4, <1>5, <1>6, <1>7 DEF JobInv
  <1>11. ASSUME NEW k \in Jobs, k # j PROVE JobInv(k)' /\ RowStep(job[k], job'[k])
    <2>1. /\ job'[k] = job[k] /\ exec'[k] = exec[k] /\ token'[k] = token[k] /\ pass'[k] = pass[k]
          /\ flying'[k] = flying[k] /\ answer'[k] = answer[k] /\ reviews'[k] = reviews[k]
      BY <1>11, <1>1, <1>2, <1>3, <1>4, <1>5, <1>6, <1>7
    <2>2. (k \in owed') = (k \in owed)
      BY <1>8, <1>11
    <2>3. JobInv(k)'
      BY <2>1, <2>2 DEF JobsInv, JobInv
    <2> QED BY <2>1, <2>3 DEF RowStep
  <1>12. \A k \in Jobs \ {j} : job'[k].order \in {job[k].order, 0}
    BY <1>1
  <1> QED BY <1>9, <1>10, <1>11, <1>12 DEF StepOK

\* What is known of a job before a step.
LEMMA Known ==
  ASSUME JobTypes, JobsInv, NEW j \in Jobs
  PROVE  /\ job[j] \in Rows /\ exec[j] \in Phases /\ token[j] \in BOOLEAN /\ pass[j] \in Passes
         /\ flying[j] \in Nat /\ answer[j] \in Answers /\ reviews[j] \in Nat
         /\ JobOK(job[j], exec[j], token[j], pass[j], j \in owed, flying[j], answer[j], reviews[j])
  BY DEF JobTypes, JobsInv, JobInv

\* An execution that is past its registration gives up.
LEMMA Leaves ==
  ASSUME JobTypes, JobsInv, NEW j \in Jobs, exec[j] \notin {"none", "claimed"},
         NEW e \in {"erred", "stale", "timedout"},
         Moves(j, job[j], e, token[j], pass[j], flying[j], "none", reviews[j]), UNCHANGED owed
  PROVE  JobTypes' /\ StepOK
  <1>1. e \in Phases /\ "none" \in Answers /\ RowStep(job[j], job[j])
        /\ JobOK(job[j], e, token[j], pass[j], j \in owed, flying[j], "none", reviews[j])
    BY Known DEF Phases, Answers, RowStep, JobOK, Placed, Truthful, Once, Early
  <1> QED BY <1>1, Known, Solo

-------------------------------------------------------------------------------
(* The execution of a job. *)

\* From the claim of the job to the publication lock.
LEMMA ReviewSteps ==
  ASSUME JobTypes, JobsInv, NEW j \in Jobs,
         \/ ClaimJob(j) \/ StartRun(j) \/ ReviewFails(j) \/ SkipEditor(j) \/ StartEditor(j)
         \/ EditorSucceeds(j) \/ EditorFails(j)
  PROVE  JobTypes' /\ StepOK
  <1> DEFINE r == job[j]
  <1>a. /\ r \in Rows /\ exec[j] \in Phases /\ token[j] \in BOOLEAN /\ pass[j] \in Passes
        /\ flying[j] \in Nat /\ answer[j] \in Answers /\ reviews[j] \in Nat
        /\ JobOK(r, exec[j], token[j], pass[j], j \in owed, flying[j], answer[j], reviews[j])
    BY Known
  <1>1. ASSUME ClaimJob(j) PROVE JobTypes' /\ StepOK
    <2> DEFINE s == [r EXCEPT !.status = "running", !.cancel = FALSE, !.claimed = FALSE,
                                !.dispatched = FALSE, !.accepted = FALSE]
    <2>1. /\ r.status = "queued" /\ exec[j] = "none" /\ UNCHANGED owed
          /\ Moves(j, s, "claimed", token[j], pass[j], flying[j], answer[j], reviews[j])
      BY <1>a, <1>1 DEF ClaimJob, Is, Goto, Moves, Put, JobTypes, rowVars, runVars, hubVars, syncVars
    <2>2. s \in Rows /\ RowStep(r, s)
      BY <1>a, <1>1, <2>1 DEF Rows, RowStep, JobOK, Placed, Once, Statuses
    <2>3. "claimed" \in Phases
      BY DEF Phases
    <2>4. Placed(s, "claimed", token[j], pass[j], j \in owed, flying[j], answer[j], reviews[j])
      BY <1>a, <1>1, <2>1 DEF Rows, JobOK, Placed, Early, Statuses
    <2>5. Truthful(s, "claimed", pass[j], answer[j], reviews[j])
      BY <1>a, <1>1, <2>1 DEF Rows, JobOK, Truthful, Statuses
    <2>6. Once(s, "claimed", token[j], flying[j], answer[j], reviews[j])
      BY <1>a, <1>1, <2>1 DEF Rows, JobOK, Once, Placed, Early, Statuses
    <2> QED BY <1>a, <2>1, <2>2, <2>3, <2>4, <2>5, <2>6, Solo DEF JobOK
  <1>2. ASSUME StartRun(j) PROVE JobTypes' /\ StepOK
    <2>1. /\ exec[j] = "claimed" /\ UNCHANGED owed
          /\ Moves(j, r, "review", r.status \notin {"running"}, pass[j], flying[j], answer[j], reviews[j])
      BY <1>a, <1>2 DEF StartRun, Is, Goto, Moves, Put, JobTypes, rowVars, runVars, hubVars, syncVars
    <2>2. RowStep(r, r)
      BY <1>a, <1>2, <2>1 DEF Rows, RowStep, JobOK, Placed, Once
    <2>3. "review" \in Phases /\ (r.status \notin {"running"}) \in BOOLEAN
      BY DEF Phases
    <2>4. Placed(r, "review", r.status \notin {"running"}, pass[j], j \in owed, flying[j], answer[j], reviews[j])
      BY <1>a, <1>2, <2>1 DEF Rows, JobOK, Placed, Early
    <2>5. Truthful(r, "review", pass[j], answer[j], reviews[j])
      BY <1>a, <1>2, <2>1 DEF Rows, JobOK, Truthful
    <2>6. Once(r, "review", r.status \notin {"running"}, flying[j], answer[j], reviews[j])
      BY <1>a, <1>2, <2>1 DEF Rows, JobOK, Once, Placed, Early
    <2> QED BY <1>a, <2>1, <2>2, <2>3, <2>4, <2>5, <2>6, Solo DEF JobOK
  <1>3. ASSUME ReviewFails(j) PROVE JobTypes' /\ StepOK
    <2> DEFINE e == IF token[j] THEN "stale" ELSE "erred"
    <2>1. exec[j] = "review" /\ Put(exec, exec', j, e) /\ answer[j] = "none"
      BY <1>3, <1>a DEF ReviewFails, Fails, Leave, Goto, Put, JobOK, Placed
    <2>2. Moves(j, r, e, token[j], pass[j], flying[j], "none", reviews[j]) /\ UNCHANGED owed
      BY <1>3, <2>1 DEF ReviewFails, Moves, Put, JobTypes, rowVars, hubVars, syncVars
    <2> QED BY <2>1, <2>2, Leaves
  <1>4. ASSUME SkipEditor(j) PROVE JobTypes' /\ StepOK
    <2> DEFINE s == [r EXCEPT !.editor = IF r.editor = "queued" THEN "skipped" ELSE r.editor]
    <2>1. /\ exec[j] = "review" /\ ~r.cand /\ UNCHANGED owed
          /\ Moves(j, s, "locking", token[j], pass[j], flying[j], answer[j], reviews[j])
      BY <1>a, <1>4 DEF SkipEditor, NothingToEdit, Goto, Moves, Put, JobTypes, rowVars, runVars, hubVars, syncVars
    <2>2. s \in Rows /\ RowStep(r, s)
      BY <1>a, <1>4, <2>1 DEF Rows, RowStep, JobOK, Placed, Once, Editors
    <2>3. "locking" \in Phases
      BY DEF Phases
    <2>4. Placed(s, "locking", token[j], pass[j], j \in owed, flying[j], answer[j], reviews[j])
      BY <1>a, <1>4, <2>1 DEF Rows, JobOK, Placed, Early, Editors
    <2>5. Truthful(s, "locking", pass[j], answer[j], reviews[j])
      BY <1>a, <1>4, <2>1 DEF Rows, JobOK, Truthful, Editors
    <2>6. Once(s, "locking", token[j], flying[j], answer[j], reviews[j])
      BY <1>a, <1>4, <2>1 DEF Rows, JobOK, Once, Placed, Early, Editors
    <2> QED BY <1>a, <2>1, <2>2, <2>3, <2>4, <2>5, <2>6, Solo DEF JobOK
  <1>5. ASSUME StartEditor(j) PROVE JobTypes' /\ StepOK
    <2> DEFINE s == [r EXCEPT !.editor = "running"]
    <2>1. /\ exec[j] = "review" /\ UNCHANGED owed
          /\ Moves(j, s, "editing", token[j], pass[j], flying[j], answer[j], reviews[j])
      BY <1>a, <1>5 DEF StartEditor, Goto, Moves, Put, JobTypes, rowVars, runVars, hubVars, syncVars
    <2>2. s \in Rows /\ RowStep(r, s)
      BY <1>a, <1>5, <2>1 DEF Rows, RowStep, JobOK, Placed, Once, Editors
    <2>3. "editing" \in Phases
      BY DEF Phases
    <2>4. Placed(s, "editing", token[j], pass[j], j \in owed, flying[j], answer[j], reviews[j])
      BY <1>a, <1>5, <2>1 DEF Rows, JobOK, Placed, Early, Editors
    <2>5. Truthful(s, "editing", pass[j], answer[j], reviews[j])
      BY <1>a, <1>5, <2>1 DEF Rows, JobOK, Truthful, Editors
    <2>6. Once(s, "editing", token[j], flying[j], answer[j], reviews[j])
      BY <1>a, <1>5, <2>1 DEF Rows, JobOK, Once, Placed, Early, Editors
    <2> QED BY <1>a, <2>1, <2>2, <2>3, <2>4, <2>5, <2>6, Solo DEF JobOK
  <1>6. ASSUME EditorSucceeds(j) PROVE JobTypes' /\ StepOK
    <2> DEFINE s == [r EXCEPT !.editor = Settled(r.editor, "succeeded")]
    <2>1. /\ exec[j] = "editing" /\ UNCHANGED owed
          /\ Moves(j, s, "locking", token[j], pass[j], flying[j], answer[j], reviews[j])
      BY <1>a, <1>6 DEF EditorSucceeds, Goto, Moves, Put, JobTypes, rowVars, runVars, hubVars, syncVars
    <2>2. s \in Rows /\ RowStep(r, s)
      BY <1>a, <1>6, <2>1 DEF Rows, RowStep, JobOK, Placed, Once, Editors, Settled
    <2>3. "locking" \in Phases
      BY DEF Phases
    <2>4. Placed(s, "locking", token[j], pass[j], j \in owed, flying[j], answer[j], reviews[j])
      BY <1>a, <1>6, <2>1 DEF Rows, JobOK, Placed, Early, Editors, Settled
    <2>5. Truthful(s, "locking", pass[j], answer[j], reviews[j])
      BY <1>a, <1>6, <2>1 DEF Rows, JobOK, Truthful, Editors, Settled
    <2>6. Once(s, "locking", token[j], flying[j], answer[j], reviews[j])
      BY <1>a, <1>6, <2>1 DEF Rows, JobOK, Once, Placed, Early, Editors, Settled
    <2> QED BY <1>a, <2>1, <2>2, <2>3, <2>4, <2>5, <2>6, Solo DEF JobOK
  <1>7. ASSUME EditorFails(j) PROVE JobTypes' /\ StepOK
    <2> DEFINE e == IF token[j] THEN "stale" ELSE "erred"
               s == [r EXCEPT !.editor = Settled(r.editor, IF token[j] THEN "cancelled" ELSE "failed")]
    <2>1. /\ exec[j] = "editing" /\ UNCHANGED owed
          /\ Moves(j, s, e, token[j], pass[j], flying[j], answer[j], reviews[j])
      BY <1>a, <1>7 DEF EditorFails, Fails, Leave, Goto, Moves, Put, JobTypes, rowVars, runVars, hubVars, syncVars
    <2>2. s \in Rows /\ RowStep(r, s)
      BY <1>a, <1>7, <2>1 DEF Rows, RowStep, JobOK, Placed, Once, Editors, Settled
    <2>3. e \in Phases
      BY DEF Phases
    <2>4. Placed(s, e, token[j], pass[j], j \in owed, flying[j], answer[j], reviews[j])
      BY <1>a, <1>7, <2>1 DEF Rows, JobOK, Placed, Early, Editors, Settled
    <2>5. Truthful(s, e, pass[j], answer[j], reviews[j])
      BY <1>a, <1>7, <2>1 DEF Rows, JobOK, Truthful, Editors, Settled
    <2>6. Once(s, e, token[j], flying[j], answer[j], reviews[j])
      BY <1>a, <1>7, <2>1 DEF Rows, JobOK, Once, Placed, Early, Editors, Settled
    <2> QED BY <1>a, <2>1, <2>2, <2>3, <2>4, <2>5, <2>6, Solo DEF JobOK
  <1> QED BY <1>1, <1>2, <1>3, <1>4, <1>5, <1>6, <1>7

\* The publication lock, the last checks, and the ways out.
LEMMA LockSteps ==
  ASSUME JobTypes, JobsInv, NEW j \in Jobs,
         \/ AcquireLock(j) \/ Validate(j) \/ PrepareVerdict(j) \/ DispatchRefused(j) \/ TryAgain(j)
         \/ Ambiguous(j) \/ Timeout(j)
  PROVE  JobTypes' /\ StepOK
  <1> DEFINE r == job[j]
  <1>a. /\ r \in Rows /\ exec[j] \in Phases /\ token[j] \in BOOLEAN /\ pass[j] \in Passes
        /\ flying[j] \in Nat /\ answer[j] \in Answers /\ reviews[j] \in Nat
        /\ JobOK(r, exec[j], token[j], pass[j], j \in owed, flying[j], answer[j], reviews[j])
    BY Known
  <1>b. ASSUME exec[j] \notin {"none", "claimed"}, UNCHANGED <<job, token, pass, owed, flying, reviews>>,
               Put(answer, answer', j, "none"), NEW e \in {"erred", "stale", "timedout"}, Put(exec, exec', j, e)
        PROVE  JobTypes' /\ StepOK
    <2>1. Moves(j, r, e, token[j], pass[j], flying[j], "none", reviews[j]) /\ UNCHANGED owed
      BY <1>b DEF Moves, Put, JobTypes
    <2> QED BY <1>b, <2>1, Leaves
  <1>c. ASSUME exec[j] \notin {"none", "claimed", "posting"}, UNCHANGED <<rowVars, token, syncVars, hubVars>>,
               NEW e \in {"erred", "stale"}, Leave(j, e)
        PROVE  JobTypes' /\ StepOK
    <2>1. answer[j] = "none"
      BY <1>a, <1>c DEF JobOK, Placed
    <2> QED BY <2>1, <1>b, <1>c DEF Leave, Goto, Put, rowVars, syncVars, hubVars
  <1>d. Fails(j) => \E e \in {"erred", "stale"} : Leave(j, e)
    BY DEF Fails
  <1>e. ASSUME UNCHANGED <<rowVars, token, syncVars, hubVars>>, NEW e \in Phases, Goto(j, e),
               JobOK(r, e, token[j], pass[j], j \in owed, flying[j], answer[j], reviews[j])
        PROVE  JobTypes' /\ StepOK
    <2>1. Moves(j, r, e, token[j], pass[j], flying[j], answer[j], reviews[j]) /\ UNCHANGED owed
      BY <1>e DEF Moves, Put, Goto, JobTypes, rowVars, syncVars, hubVars
    <2>2. RowStep(r, r)
      BY DEF RowStep
    <2> QED BY <1>a, <1>e, <2>1, <2>2, Solo
  <1>1. ASSUME AcquireLock(j) PROVE JobTypes' /\ StepOK
    <2>1. /\ exec[j] = "locking" /\ UNCHANGED <<rowVars, token, syncVars, hubVars>>
          /\ Fails(j) \/ (~token[j] /\ Goto(j, "validate"))
      BY <1>1 DEF AcquireLock
    <2>2. CASE ~token[j] /\ Goto(j, "validate")
      <3>1. /\ "validate" \in Phases
            /\ JobOK(r, "validate", token[j], pass[j], j \in owed, flying[j], answer[j], reviews[j])
        BY <1>a, <2>1, <2>2 DEF Phases, JobOK, Placed, Truthful, Once, Early
      <3> QED BY <2>1, <2>2, <3>1, <1>e
    <2> QED BY <2>1, <2>2, <1>c, <1>d
  <1>2. ASSUME Validate(j) PROVE JobTypes' /\ StepOK
    <2>1. /\ exec[j] = "validate" /\ UNCHANGED <<rowVars, token, syncVars, hubVars>>
          /\ Goto(j, "claim") \/ Leave(j, "stale") \/ Fails(j)
      BY <1>2 DEF Validate
    <2>2. CASE Goto(j, "claim")
      <3>1. /\ "claim" \in Phases
            /\ JobOK(r, "claim", token[j], pass[j], j \in owed, flying[j], answer[j], reviews[j])
        BY <1>a, <2>1, <2>2 DEF Phases, JobOK, Placed, Truthful, Once, Early
      <3> QED BY <2>1, <2>2, <3>1, <1>e
    <2> QED BY <2>1, <2>2, <1>c, <1>d
  <1>3. ASSUME PrepareVerdict(j) PROVE JobTypes' /\ StepOK
    <2>1. /\ exec[j] = "verdict" /\ UNCHANGED <<rowVars, token, syncVars, hubVars>>
          /\ Goto(j, "manifest") \/ Leave(j, "stale")
      BY <1>3 DEF PrepareVerdict
    <2>2. /\ "manifest" \in Phases
          /\ JobOK(r, "manifest", token[j], pass[j], j \in owed, flying[j], answer[j], reviews[j])
      BY <1>a, <2>1 DEF Phases, JobOK, Placed, Truthful, Once, Early
    <2> QED BY <2>1, <2>2, <1>c, <1>e
  <1>4. ASSUME DispatchRefused(j) PROVE JobTypes' /\ StepOK
    <2>1. exec[j] = "manifest" /\ UNCHANGED <<rowVars, token, syncVars, hubVars>> /\ Leave(j, "erred")
      BY <1>4 DEF DispatchRefused
    <2> QED BY <2>1, <1>c
  <1>5. ASSUME TryAgain(j) PROVE JobTypes' /\ StepOK
    <2>1. /\ exec[j] = "refused" /\ UNCHANGED <<rowVars, token, syncVars, hubVars>>
          /\ Goto(j, "manifest") \/ Leave(j, "erred")
      BY <1>5 DEF TryAgain
    <2>2. /\ "manifest" \in Phases
          /\ JobOK(r, "manifest", token[j], pass[j], j \in owed, flying[j], answer[j], reviews[j])
      BY <1>a, <2>1 DEF Phases, JobOK, Placed, Truthful, Once, Early
    <2> QED BY <2>1, <2>2, <1>c, <1>e
  <1>6. ASSUME Ambiguous(j) PROVE JobTypes' /\ StepOK
    BY <1>6, <1>b DEF Ambiguous, Read, Leave, Goto, Put, rowVars, syncVars
  <1>7. ASSUME Timeout(j) PROVE JobTypes' /\ StepOK
    <2>1. exec[j] \notin {"none", "claimed"}
      BY <1>7 DEF Timeout, Suspended
    <2> QED BY <1>7, <2>1, <1>b DEF Timeout, Leave, Goto, Put, rowVars, syncVars
  <1> QED BY <1>1, <1>2, <1>3, <1>4, <1>5, <1>6, <1>7

\* The publication itself, from its claim to its record.
LEMMA PublishSteps ==
  ASSUME JobTypes, JobsInv, NEW j \in Jobs,
         \/ ClaimPublication(j) /\ NextOrder \in Nat \ {0}
         \/ ClaimRefused(j) \/ Dispatch(j) \/ Accepted(j) \/ Rejected(j) \/ GiveUp(j) \/ RecordPublication(j)
  PROVE  JobTypes' /\ StepOK
  <1> DEFINE r == job[j]
  <1>a. /\ r \in Rows /\ exec[j] \in Phases /\ token[j] \in BOOLEAN /\ pass[j] \in Passes
        /\ flying[j] \in Nat /\ answer[j] \in Answers /\ reviews[j] \in Nat
        /\ JobOK(r, exec[j], token[j], pass[j], j \in owed, flying[j], answer[j], reviews[j])
    BY Known
  <1>1. ASSUME ClaimPublication(j), NextOrder \in Nat \ {0} PROVE JobTypes' /\ StepOK
    <2> DEFINE o == IF r.order # 0 THEN r.order ELSE NextOrder
               s == [r EXCEPT !.claimed = TRUE, !.dispatched = FALSE, !.order = o]
    <2>1. /\ exec[j] = "claim" /\ r.status = "running" /\ ~r.cancel /\ ~r.claimed /\ UNCHANGED owed
          /\ Moves(j, s, "verdict", token[j], pass[j], flying[j], answer[j], reviews[j])
      BY <1>a, <1>1 DEF ClaimPublication, Current, Is, Goto, Moves, Put, JobTypes, rowVars, runVars, hubVars, syncVars
    <2>2. s \in Rows /\ RowStep(r, s)
      BY <1>a, <1>1, <2>1 DEF Rows, RowStep, JobOK, Placed, Once
    <2>3. "verdict" \in Phases
      BY DEF Phases
    <2>4. Placed(s, "verdict", token[j], pass[j], j \in owed, flying[j], answer[j], reviews[j])
      BY <1>a, <1>1, <2>1 DEF Rows, JobOK, Placed, Early
    <2>5. Truthful(s, "verdict", pass[j], answer[j], reviews[j])
      BY <1>a, <1>1, <2>1 DEF Rows, JobOK, Truthful
    <2>6. Once(s, "verdict", token[j], flying[j], answer[j], reviews[j])
      BY <1>a, <1>1, <2>1 DEF Rows, JobOK, Once, Placed, Early
    <2> QED BY <1>a, <2>1, <2>2, <2>3, <2>4, <2>5, <2>6, Solo DEF JobOK
  <1>2. ASSUME ClaimRefused(j) PROVE JobTypes' /\ StepOK
    <2>1. CASE r.dispatched \/ r.accepted \/ r.published
      <3>1. /\ exec[j] = "claim" /\ UNCHANGED owed
            /\ Moves(j, r, "stale", token[j], pass[j], flying[j], answer[j], reviews[j])
        BY <1>a, <1>2, <2>1 DEF ClaimRefused, Leave, Goto, Moves, Put, JobTypes, rowVars, runVars, hubVars, syncVars
      <3>2. RowStep(r, r)
        BY <1>a, <1>2, <2>1, <3>1 DEF Rows, RowStep, JobOK, Placed, Once
      <3>3. "stale" \in Phases
        BY DEF Phases
      <3>4. Placed(r, "stale", token[j], pass[j], j \in owed, flying[j], answer[j], reviews[j])
        BY <1>a, <1>2, <2>1, <3>1 DEF Rows, JobOK, Placed, Early
      <3>5. Truthful(r, "stale", pass[j], answer[j], reviews[j])
        BY <1>a, <1>2, <2>1, <3>1 DEF Rows, JobOK, Truthful
      <3>6. Once(r, "stale", token[j], flying[j], answer[j], reviews[j])
        BY <1>a, <1>2, <2>1, <3>1 DEF Rows, JobOK, Once, Placed, Early
      <3> QED BY <1>a, <3>1, <3>2, <3>3, <3>4, <3>5, <3>6, Solo DEF JobOK
    <2>2. CASE ~(r.dispatched \/ r.accepted \/ r.published)
      <3>1. /\ exec[j] = "claim" /\ UNCHANGED owed
            /\ Moves(j, [r EXCEPT !.claimed = FALSE, !.order = 0], "stale", token[j], pass[j], flying[j], answer[j], reviews[j])
        BY <1>a, <1>2, <2>2 DEF ClaimRefused, Leave, Goto, Moves, Put, JobTypes, rowVars, runVars, hubVars, syncVars
      <3>2. [r EXCEPT !.claimed = FALSE, !.order = 0] \in Rows /\ RowStep(r, [r EXCEPT !.claimed = FALSE, !.order = 0])
        BY <1>a, <1>2, <2>2, <3>1 DEF Rows, RowStep, JobOK, Placed, Once
      <3>3. "stale" \in Phases
        BY DEF Phases
      <3>4. Placed([r EXCEPT !.claimed = FALSE, !.order = 0], "stale", token[j], pass[j], j \in owed, flying[j], answer[j], reviews[j])
        BY <1>a, <1>2, <2>2, <3>1 DEF Rows, JobOK, Placed, Early
      <3>5. Truthful([r EXCEPT !.claimed = FALSE, !.order = 0], "stale", pass[j], answer[j], reviews[j])
        BY <1>a, <1>2, <2>2, <3>1 DEF Rows, JobOK, Truthful
      <3>6. Once([r EXCEPT !.claimed = FALSE, !.order = 0], "stale", token[j], flying[j], answer[j], reviews[j])
        BY <1>a, <1>2, <2>2, <3>1 DEF Rows, JobOK, Once, Placed, Early
      <3> QED BY <1>a, <3>1, <3>2, <3>3, <3>4, <3>5, <3>6, Solo DEF JobOK
    <2> QED BY <1>2, <2>1, <2>2
  <1>3. ASSUME Dispatch(j) PROVE JobTypes' /\ StepOK
    <2> DEFINE s == [r EXCEPT !.dispatched = TRUE]
    <2>1. /\ exec[j] = "manifest" /\ r.claimed /\ ~r.dispatched /\ ~r.accepted /\ UNCHANGED owed
          /\ Moves(j, s, "posting", token[j], pass[j], flying[j] + 1, answer[j], reviews[j])
      BY <1>a, <1>3 DEF Dispatch, Goto, Moves, Put, JobTypes, rowVars, runVars, hubVars, syncVars
    <2>2. s \in Rows /\ RowStep(r, s)
      BY <1>a, <1>3, <2>1 DEF Rows, RowStep, JobOK, Placed, Once
    <2>3. "posting" \in Phases /\ flying[j] + 1 \in Nat
      BY <1>a, <1>3 DEF Phases
    <2>4. Placed(s, "posting", token[j], pass[j], j \in owed, flying[j] + 1, answer[j], reviews[j])
      BY <1>a, <1>3, <2>1 DEF Rows, JobOK, Placed, Early
    <2>5. Truthful(s, "posting", pass[j], answer[j], reviews[j])
      BY <1>a, <1>3, <2>1 DEF Rows, JobOK, Truthful
    <2>6. Once(s, "posting", token[j], flying[j] + 1, answer[j], reviews[j])
      BY <1>a, <1>3, <2>1 DEF Rows, JobOK, Once, Placed, Early
    <2> QED BY <1>a, <2>1, <2>2, <2>3, <2>4, <2>5, <2>6, Solo DEF JobOK
  <1>4. ASSUME Accepted(j) PROVE JobTypes' /\ StepOK
    <2>1. CASE r.claimed
      <3>1. /\ exec[j] = "posting" /\ answer[j] = "created" /\ UNCHANGED owed
            /\ Moves(j, [r EXCEPT !.dispatched = TRUE, !.accepted = TRUE], "record", token[j], pass[j], flying[j], "none", reviews[j])
        BY <1>a, <1>4, <2>1 DEF Accepted, Read, Goto, Moves, Put, JobTypes, rowVars, runVars, hubVars, syncVars
      <3>2. [r EXCEPT !.dispatched = TRUE, !.accepted = TRUE] \in Rows /\ RowStep(r, [r EXCEPT !.dispatched = TRUE, !.accepted = TRUE])
        BY <1>a, <1>4, <2>1, <3>1 DEF Rows, RowStep, JobOK, Placed, Once
      <3>3. "record" \in Phases /\ "none" \in Answers
        BY DEF Phases, Answers
      <3>4. Placed([r EXCEPT !.dispatched = TRUE, !.accepted = TRUE], "record", token[j], pass[j], j \in owed, flying[j], "none", reviews[j])
        BY <1>a, <1>4, <2>1, <3>1 DEF Rows, JobOK, Placed, Early
      <3>5. Truthful([r EXCEPT !.dispatched = TRUE, !.accepted = TRUE], "record", pass[j], "none", reviews[j])
        BY <1>a, <1>4, <2>1, <3>1 DEF Rows, JobOK, Truthful
      <3>6. Once([r EXCEPT !.dispatched = TRUE, !.accepted = TRUE], "record", token[j], flying[j], "none", reviews[j])
        BY <1>a, <1>4, <2>1, <3>1 DEF Rows, JobOK, Once, Placed, Early
      <3> QED BY <1>a, <3>1, <3>2, <3>3, <3>4, <3>5, <3>6, Solo DEF JobOK
    <2>2. CASE ~r.claimed
      <3>1. /\ exec[j] = "posting" /\ answer[j] = "created" /\ UNCHANGED owed
            /\ Moves(j, r, "record", token[j], pass[j], flying[j], "none", reviews[j])
        BY <1>a, <1>4, <2>2 DEF Accepted, Read, Goto, Moves, Put, JobTypes, rowVars, runVars, hubVars, syncVars
      <3>2. RowStep(r, r)
        BY <1>a, <1>4, <2>2, <3>1 DEF Rows, RowStep, JobOK, Placed, Once
      <3>3. "record" \in Phases /\ "none" \in Answers
        BY DEF Phases, Answers
      <3>4. Placed(r, "record", token[j], pass[j], j \in owed, flying[j], "none", reviews[j])
        BY <1>a, <1>4, <2>2, <3>1 DEF Rows, JobOK, Placed, Early
      <3>5. Truthful(r, "record", pass[j], "none", reviews[j])
        BY <1>a, <1>4, <2>2, <3>1 DEF Rows, JobOK, Truthful
      <3>6. Once(r, "record", token[j], flying[j], "none", reviews[j])
        BY <1>a, <1>4, <2>2, <3>1 DEF Rows, JobOK, Once, Placed, Early
      <3> QED BY <1>a, <3>1, <3>2, <3>3, <3>4, <3>5, <3>6, Solo DEF JobOK
    <2> QED BY <1>4, <2>1, <2>2
  <1>5. ASSUME Rejected(j) PROVE JobTypes' /\ StepOK
    <2>1. CASE r.claimed /\ r.dispatched /\ ~r.accepted
      <3>1. /\ exec[j] = "posting" /\ answer[j] = "rejected" /\ UNCHANGED owed
            /\ Moves(j, [r EXCEPT !.dispatched = FALSE], "refused", token[j], pass[j], flying[j], "none", reviews[j])
        BY <1>a, <1>5, <2>1 DEF Rejected, Read, Goto, Leave, Moves, Put, JobTypes, rowVars, runVars, hubVars, syncVars
      <3>2. [r EXCEPT !.dispatched = FALSE] \in Rows /\ RowStep(r, [r EXCEPT !.dispatched = FALSE])
        BY <1>a, <1>5, <2>1, <3>1 DEF Rows, RowStep, JobOK, Placed, Once
      <3>3. "refused" \in Phases /\ "none" \in Answers
        BY DEF Phases, Answers
      <3>4. Placed([r EXCEPT !.dispatched = FALSE], "refused", token[j], pass[j], j \in owed, flying[j], "none", reviews[j])
        BY <1>a, <1>5, <2>1, <3>1 DEF Rows, JobOK, Placed, Early
      <3>5. Truthful([r EXCEPT !.dispatched = FALSE], "refused", pass[j], "none", reviews[j])
        BY <1>a, <1>5, <2>1, <3>1 DEF Rows, JobOK, Truthful
      <3>6. Once([r EXCEPT !.dispatched = FALSE], "refused", token[j], flying[j], "none", reviews[j])
        BY <1>a, <1>5, <2>1, <3>1 DEF Rows, JobOK, Once, Placed, Early
      <3> QED BY <1>a, <3>1, <3>2, <3>3, <3>4, <3>5, <3>6, Solo DEF JobOK
    <2>2. CASE ~(r.claimed /\ r.dispatched /\ ~r.accepted)
      <3>1. /\ exec[j] = "posting" /\ answer[j] = "rejected" /\ UNCHANGED owed
            /\ Moves(j, r, "erred", token[j], pass[j], flying[j], "none", reviews[j])
        BY <1>a, <1>5, <2>2 DEF Rejected, Read, Goto, Leave, Moves, Put, JobTypes, rowVars, runVars, hubVars, syncVars
      <3>2. RowStep(r, r)
        BY <1>a, <1>5, <2>2, <3>1 DEF Rows, RowStep, JobOK, Placed, Once
      <3>3. "erred" \in Phases /\ "none" \in Answers
        BY DEF Phases, Answers
      <3>4. Placed(r, "erred", token[j], pass[j], j \in owed, flying[j], "none", reviews[j])
        BY <1>a, <1>5, <2>2, <3>1 DEF Rows, JobOK, Placed, Early
      <3>5. Truthful(r, "erred", pass[j], "none", reviews[j])
        BY <1>a, <1>5, <2>2, <3>1 DEF Rows, JobOK, Truthful
      <3>6. Once(r, "erred", token[j], flying[j], "none", reviews[j])
        BY <1>a, <1>5, <2>2, <3>1 DEF Rows, JobOK, Once, Placed, Early
      <3> QED BY <1>a, <3>1, <3>2, <3>3, <3>4, <3>5, <3>6, Solo DEF JobOK
    <2> QED BY <1>5, <2>1, <2>2
  <1>6. ASSUME GiveUp(j) PROVE JobTypes' /\ StepOK
    <2>1. CASE r.accepted \/ r.dispatched
      <3>1. /\ exec[j] = "refused" /\ UNCHANGED owed
            /\ Moves(j, r, "erred", token[j], pass[j], flying[j], answer[j], reviews[j])
        BY <1>a, <1>6, <2>1 DEF GiveUp, Leave, Goto, Released, Moves, Put, JobTypes, rowVars, runVars, hubVars, syncVars
      <3>2. RowStep(r, r)
        BY <1>a, <1>6, <2>1, <3>1 DEF Rows, RowStep, JobOK, Placed, Once
      <3>3. "erred" \in Phases
        BY DEF Phases
      <3>4. Placed(r, "erred", token[j], pass[j], j \in owed, flying[j], answer[j], reviews[j])
        BY <1>a, <1>6, <2>1, <3>1 DEF Rows, JobOK, Placed, Early
      <3>5. Truthful(r, "erred", pass[j], answer[j], reviews[j])
        BY <1>a, <1>6, <2>1, <3>1 DEF Rows, JobOK, Truthful
      <3>6. Once(r, "erred", token[j], flying[j], answer[j], reviews[j])
        BY <1>a, <1>6, <2>1, <3>1 DEF Rows, JobOK, Once, Placed, Early
      <3> QED BY <1>a, <3>1, <3>2, <3>3, <3>4, <3>5, <3>6, Solo DEF JobOK
    <2>2. CASE ~(r.accepted \/ r.dispatched)
      <3>1. /\ exec[j] = "refused" /\ UNCHANGED owed
            /\ Moves(j, [r EXCEPT !.claimed = FALSE, !.order = 0], "erred", token[j], pass[j], flying[j], answer[j], reviews[j])
        BY <1>a, <1>6, <2>2 DEF GiveUp, Leave, Goto, Released, Moves, Put, JobTypes, rowVars, runVars, hubVars, syncVars
      <3>2. [r EXCEPT !.claimed = FALSE, !.order = 0] \in Rows /\ RowStep(r, [r EXCEPT !.claimed = FALSE, !.order = 0])
        BY <1>a, <1>6, <2>2, <3>1 DEF Rows, RowStep, JobOK, Placed, Once
      <3>3. "erred" \in Phases
        BY DEF Phases
      <3>4. Placed([r EXCEPT !.claimed = FALSE, !.order = 0], "erred", token[j], pass[j], j \in owed, flying[j], answer[j], reviews[j])
        BY <1>a, <1>6, <2>2, <3>1 DEF Rows, JobOK, Placed, Early
      <3>5. Truthful([r EXCEPT !.claimed = FALSE, !.order = 0], "erred", pass[j], answer[j], reviews[j])
        BY <1>a, <1>6, <2>2, <3>1 DEF Rows, JobOK, Truthful
      <3>6. Once([r EXCEPT !.claimed = FALSE, !.order = 0], "erred", token[j], flying[j], answer[j], reviews[j])
        BY <1>a, <1>6, <2>2, <3>1 DEF Rows, JobOK, Once, Placed, Early
      <3> QED BY <1>a, <3>1, <3>2, <3>3, <3>4, <3>5, <3>6, Solo DEF JobOK
    <2> QED BY <1>6, <2>1, <2>2
  <1>7. ASSUME RecordPublication(j) PROVE JobTypes' /\ StepOK
    <2> DEFINE s == [r EXCEPT !.accepted = TRUE, !.published = TRUE]
    <2>1. exec[j] = "record" /\ r.claimed /\ \E e \in {"ok", "erred"} : Goto(j, e)
      BY <1>7 DEF RecordPublication, Leave
    <2>2. PICK e \in {"ok", "erred"} : Goto(j, e)
      BY <2>1
    <2>3. Moves(j, s, e, token[j], pass[j], flying[j], answer[j], reviews[j]) /\ UNCHANGED owed
      BY <1>7, <2>2 DEF RecordPublication, Goto, Moves, Put, JobTypes, hubVars, syncVars
    <2>4. s \in Rows /\ e \in Phases /\ RowStep(r, s)
      BY <2>1, <1>a DEF Rows, Phases, RowStep, JobOK, Placed
    <2>5. Placed(s, e, token[j], pass[j], j \in owed, flying[j], answer[j], reviews[j])
      BY <2>1, <1>a DEF Rows, JobOK, Placed, Early
    <2>6. Truthful(s, e, pass[j], answer[j], reviews[j])
      BY <2>1, <1>a DEF Rows, JobOK, Truthful
    <2>7. Once(s, e, token[j], flying[j], answer[j], reviews[j])
      BY <2>1, <1>a DEF Rows, JobOK, Once
    <2> QED BY <1>a, <2>3, <2>4, <2>5, <2>6, <2>7, Solo DEF JobOK
  <1> QED BY <1>1, <1>2, <1>3, <1>4, <1>5, <1>6, <1>7

\* The end of an execution.
LEMMA FinishStep ==
  ASSUME JobTypes, JobsInv, NEW j \in Jobs, Finish(j)
  PROVE  JobTypes' /\ StepOK
  <1> DEFINE r == job[j]
  <1>a. /\ r \in Rows /\ exec[j] \in Phases /\ token[j] \in BOOLEAN /\ pass[j] \in Passes
        /\ flying[j] \in Nat /\ answer[j] \in Answers /\ reviews[j] \in Nat
        /\ JobOK(r, exec[j], token[j], pass[j], j \in owed, flying[j], answer[j], reviews[j])
    BY Known
  <1>1. /\ exec[j] \in {"ok", "erred", "stale", "timedout"}
        /\ Outcome(j) \in {"succeeded", "failed", "cancelled", "stale"}
        /\ Outcome(j) = "succeeded" => exec[j] = "ok"
        /\ Outcome(j) = "cancelled" => r.cancel
        /\ Stopped(r.editor) \in Editors /\ (r.editor = "succeeded" => Stopped(r.editor) = "succeeded")
    BY <1>a DEF Rows, Editors, Stopped, Finish, Outcome
  <1>2. token' = [token EXCEPT ![j] = FALSE] /\ owed' = owed \cup {j}
    BY DEF Finish
  <1>3. ASSUME r.status # "running" PROVE JobTypes' /\ StepOK
    <2>1. /\ owed' = owed \cup {j}
          /\ Moves(j, r, "none", FALSE, pass[j], flying[j], answer[j], reviews[j])
      BY <1>a, <1>3, <1>1, <1>2 DEF Finish, Goto, Stopped, Moves, Put, JobTypes, rowVars, runVars, hubVars, syncVars
    <2>2. RowStep(r, r)
      BY <1>a, <1>3, <1>1, <1>2, <2>1 DEF Rows, RowStep, JobOK, Placed, Once
    <2>3. "none" \in Phases /\ (FALSE) \in BOOLEAN
      BY DEF Phases
    <2>4. Placed(r, "none", FALSE, pass[j], j \in owed', flying[j], answer[j], reviews[j])
      BY <1>a, <1>3, <1>1, <1>2, <2>1 DEF Rows, JobOK, Placed, Early
    <2>5. Truthful(r, "none", pass[j], answer[j], reviews[j])
      BY <1>a, <1>3, <1>1, <1>2, <2>1 DEF Rows, JobOK, Truthful
    <2>6. Once(r, "none", FALSE, flying[j], answer[j], reviews[j])
      BY <1>a, <1>3, <1>1, <1>2, <2>1 DEF Rows, JobOK, Once, Placed, Early
    <2> QED BY <1>a, <2>1, <2>2, <2>3, <2>4, <2>5, <2>6, Solo DEF JobOK
  <1> DEFINE st == IF r.accepted /\ r.published THEN "succeeded" ELSE Outcome(j)
             ed == Stopped(r.editor)
             s == [r EXCEPT !.status = st, !.editor = ed]
  <1>5. /\ st \in {"succeeded", "failed", "cancelled", "stale"} /\ ed \in Editors
        /\ st = "succeeded" => exec[j] = "ok" \/ r.accepted
        /\ st = "cancelled" => r.cancel
        /\ r.editor = "succeeded" => ed = "succeeded"
    BY <1>1
  <1>6. ASSUME r.status = "running" PROVE job' = [job EXCEPT ![j] = s]
    <2>1. job' = [job EXCEPT ![j] = IF r.status # "running" THEN r ELSE s]
      BY DEF Finish
    <2> QED BY <1>6, <2>1
  <1> HIDE DEF st, ed
  <1>4. ASSUME r.status = "running" PROVE JobTypes' /\ StepOK
    <2>1. /\ owed' = owed \cup {j}
          /\ Moves(j, s, "none", FALSE, pass[j], flying[j], answer[j], reviews[j])
      BY <1>a, <1>4, <1>1, <1>2, <1>5, <1>6 DEF Finish, Goto, Moves, Put, JobTypes, rowVars, runVars, hubVars, syncVars
    <2>2. s \in Rows /\ RowStep(r, s)
      BY <1>a, <1>4, <1>1, <1>2, <1>5, <1>6, <2>1 DEF Rows, RowStep, JobOK, Placed, Once, Statuses
    <2>3. "none" \in Phases /\ (FALSE) \in BOOLEAN
      BY DEF Phases
    <2>4. Placed(s, "none", FALSE, pass[j], j \in owed', flying[j], answer[j], reviews[j])
      BY <1>a, <1>4, <1>1, <1>2, <1>5, <1>6, <2>1 DEF Rows, JobOK, Placed, Early, Statuses
    <2>5. Truthful(s, "none", pass[j], answer[j], reviews[j])
      BY <1>a, <1>4, <1>1, <1>2, <1>5, <1>6, <2>1 DEF Rows, JobOK, Truthful, Statuses
    <2>6. Once(s, "none", FALSE, flying[j], answer[j], reviews[j])
      BY <1>a, <1>4, <1>1, <1>2, <1>5, <1>6, <2>1 DEF Rows, JobOK, Once, Placed, Early, Statuses
    <2> QED BY <1>a, <2>1, <2>2, <2>3, <2>4, <2>5, <2>6, Solo DEF JobOK
  <1> QED BY <1>3, <1>4

-------------------------------------------------------------------------------
(* GitHub and the projection pass. *)

\* A POST is handled, answered or given up.
LEMMA HubSteps ==
  ASSUME JobTypes, JobsInv, NEW j \in Jobs, Create(j) \/ Refuse(j) \/ Overdue(j)
  PROVE  JobTypes' /\ StepOK
  <1> DEFINE r == job[j]
  <1>a. /\ r \in Rows /\ exec[j] \in Phases /\ token[j] \in BOOLEAN /\ pass[j] \in Passes
        /\ flying[j] \in Nat /\ answer[j] \in Answers /\ reviews[j] \in Nat
        /\ JobOK(r, exec[j], token[j], pass[j], j \in owed, flying[j], answer[j], reviews[j])
    BY Known
  <1>b. ASSUME UNCHANGED <<rowVars, runVars, syncVars>>,
               NEW f \in Nat, Put(flying, flying', j, f), NEW n \in Nat, Put(reviews, reviews', j, n),
               NEW a \in Answers, Put(answer, answer', j, a),
               JobOK(r, exec[j], token[j], pass[j], j \in owed, f, a, n)
        PROVE  JobTypes' /\ StepOK
    <2>1. Moves(j, r, exec[j], token[j], pass[j], f, a, n) /\ UNCHANGED owed
      BY <1>b DEF Moves, Put, JobTypes, rowVars, runVars, syncVars
    <2>2. RowStep(r, r)
      BY DEF RowStep
    <2> QED BY <1>a, <1>b, <2>1, <2>2, Solo
  <1>c. ASSUME NEW b \in Answers, Answer(j, b)
        PROVE  \E a \in Answers : /\ Put(answer, answer', j, a)
                                  /\ a = answer[j] \/ (a = b /\ exec[j] = "posting")
    BY <1>a, <1>c DEF Answer, Put
  <1>1. ASSUME Create(j) PROVE JobTypes' /\ StepOK
    <2>1. /\ UNCHANGED <<rowVars, runVars, syncVars>> /\ flying[j] > 0
          /\ Put(flying, flying', j, flying[j] - 1) /\ Put(reviews, reviews', j, reviews[j] + 1)
      BY <1>1 DEF Create, Handled, Put
    <2>2. flying[j] - 1 \in Nat /\ reviews[j] + 1 \in Nat
      BY <1>a, <2>1
    <2>3. PICK b \in {"created", "error"} : Answer(j, b)
      BY <1>1 DEF Create
    <2>4. PICK a \in Answers : /\ Put(answer, answer', j, a)
                               /\ a = answer[j] \/ (a = b /\ exec[j] = "posting")
      BY <2>3, <1>c DEF Answers
    <2>5. Placed(r, exec[j], token[j], pass[j], j \in owed, flying[j] - 1, a, reviews[j] + 1)
      BY <1>a, <2>1, <2>4 DEF JobOK, Placed
    <2>6. Truthful(r, exec[j], pass[j], a, reviews[j] + 1)
      BY <1>a DEF Truthful
    <2>7. Once(r, exec[j], token[j], flying[j] - 1, a, reviews[j] + 1)
      BY <1>a, <2>1, <2>3, <2>4 DEF JobOK, Once
    <2> QED BY <2>1, <2>2, <2>4, <2>5, <2>6, <2>7, <1>b DEF JobOK
  <1>2. ASSUME Refuse(j) PROVE JobTypes' /\ StepOK
    <2>1. /\ UNCHANGED <<rowVars, runVars, syncVars>> /\ flying[j] > 0
          /\ Put(flying, flying', j, flying[j] - 1) /\ Put(reviews, reviews', j, reviews[j])
      BY <1>2 DEF Refuse, Handled, Put
    <2>2. flying[j] - 1 \in Nat
      BY <1>a, <2>1
    <2>3. PICK b \in {"rejected", "error"} : Answer(j, b)
      BY <1>2 DEF Refuse
    <2>4. PICK a \in Answers : /\ Put(answer, answer', j, a)
                               /\ a = answer[j] \/ (a = b /\ exec[j] = "posting")
      BY <2>3, <1>c DEF Answers
    <2>5. Placed(r, exec[j], token[j], pass[j], j \in owed, flying[j] - 1, a, reviews[j])
      BY <1>a, <2>1, <2>4 DEF JobOK, Placed
    <2>6. Truthful(r, exec[j], pass[j], a, reviews[j])
      BY <1>a, <2>3, <2>4 DEF JobOK, Truthful
    <2>7. Once(r, exec[j], token[j], flying[j] - 1, a, reviews[j])
      BY <1>a, <2>1, <2>3, <2>4 DEF JobOK, Once
    <2> QED BY <1>a, <2>1, <2>2, <2>4, <2>5, <2>6, <2>7, <1>b DEF JobOK
  <1>3. ASSUME Overdue(j) PROVE JobTypes' /\ StepOK
    <2>1. /\ UNCHANGED <<rowVars, runVars, syncVars>> /\ exec[j] = "posting" /\ answer[j] = "none"
          /\ Put(flying, flying', j, flying[j]) /\ Put(reviews, reviews', j, reviews[j])
          /\ Put(answer, answer', j, "error") /\ "error" \in Answers
      BY <1>3 DEF Overdue, Put, Answers
    <2>2. JobOK(r, exec[j], token[j], pass[j], j \in owed, flying[j], "error", reviews[j])
      BY <1>a, <2>1 DEF JobOK, Placed, Truthful, Once
    <2> QED BY <1>a, <2>1, <2>2, <1>b
  <1> QED BY <1>1, <1>2, <1>3

\* A pass over the job.
LEMMA PassSteps ==
  ASSUME JobTypes, JobsInv, NEW j \in Jobs,
         \/ PassNothing(j) \/ PassLookup(j) \/ Reconcile(j) \/ Absent(j) \/ PassEnds(j)
  PROVE  JobTypes' /\ StepOK
  <1> DEFINE r == job[j]
  <1>a. /\ r \in Rows /\ exec[j] \in Phases /\ token[j] \in BOOLEAN /\ pass[j] \in Passes
        /\ flying[j] \in Nat /\ answer[j] \in Answers /\ reviews[j] \in Nat
        /\ JobOK(r, exec[j], token[j], pass[j], j \in owed, flying[j], answer[j], reviews[j])
    BY Known
  <1>b. ASSUME NEW s \in Rows, Put(job, job', j, s), UNCHANGED <<runVars, hubVars>>,
               NEW p \in Passes, Put(pass, pass', j, p), owed' \in {owed, owed \ {j}},
               r.status # "absent", RowStep(r, s), s.status = r.status \/ exec[j] = "none",
               Placed(s, exec[j], token[j], p, j \in owed, flying[j], answer[j], reviews[j]),
               Truthful(s, exec[j], p, answer[j], reviews[j]),
               Once(s, exec[j], token[j], flying[j], answer[j], reviews[j])
        PROVE  JobTypes' /\ StepOK
    <2>1. Moves(j, s, exec[j], token[j], p, flying[j], answer[j], reviews[j])
      BY <1>b DEF Moves, Put, JobTypes, runVars, hubVars
    <2>2. s.status # "absent"
      BY <1>b DEF RowStep
    <2>3. Placed(s, exec[j], token[j], p, j \in owed', flying[j], answer[j], reviews[j])
      BY <1>b, <2>2 DEF Placed
    <2> QED BY <1>a, <1>b, <2>1, <2>3, Solo DEF JobOK
  <1>c. PassStarts(j) => r.status # "absent" /\ owed' \in {owed, owed \ {j}}
    BY <1>a DEF PassStarts, Registered, JobOK, Placed, NoRow
  <1>d. pass[j] # "idle" => r.status # "absent"
    BY <1>a DEF JobOK, Placed
  <1>1. ASSUME PassNothing(j) PROVE JobTypes' /\ StepOK
    <2> DEFINE kept == IF r.status \in Terminal /\ r.claimed THEN Released(r) ELSE r
    <2>1. /\ PassStarts(j) /\ UNCHANGED <<runVars, hubVars>> /\ Put(pass, pass', j, pass[j])
          /\ \E due \in Dues : job' = [job EXCEPT ![j] = [kept EXCEPT !.due = due]]
      BY <1>1 DEF PassNothing, Written, Dues, Is, Put
    <2>2. PICK due \in Dues : job' = [job EXCEPT ![j] = [kept EXCEPT !.due = due]]
      BY <2>1
    <2>3. CASE kept = r
      <3> DEFINE s == [r EXCEPT !.due = due]
      <3>1. s \in Rows /\ Put(job, job', j, s) /\ RowStep(r, s) /\ s.status = r.status
        BY <1>a, <2>2, <2>3 DEF Rows, RowStep, Put
      <3>2. Placed(s, exec[j], token[j], pass[j], j \in owed, flying[j], answer[j], reviews[j])
        BY <1>a, <1>c, <2>1 DEF Rows, JobOK, Placed
      <3>3. Truthful(s, exec[j], pass[j], answer[j], reviews[j])
        BY <1>a DEF Rows, JobOK, Truthful
      <3>4. Once(s, exec[j], token[j], flying[j], answer[j], reviews[j])
        BY <1>a DEF Rows, JobOK, Once
      <3> QED BY <1>a, <1>b, <1>c, <2>1, <3>1, <3>2, <3>3, <3>4
    <2>4. CASE kept # r
      <3> DEFINE s == [r EXCEPT !.claimed = FALSE, !.order = 0, !.due = due]
      <3>0. /\ kept = [r EXCEPT !.claimed = FALSE, !.order = 0]
            /\ r.status \in Terminal /\ r.claimed /\ ~r.accepted /\ ~r.dispatched
        BY <2>4 DEF Released
      <3>1. s \in Rows /\ RowStep(r, s) /\ s.status = r.status
        BY <1>a, <3>0 DEF Rows, RowStep, JobOK, Once
      <3>5. [kept EXCEPT !.due = due] = s
        BY <1>a, <3>0 DEF Rows
      <3>6. Put(job, job', j, s)
        BY <2>2, <3>5 DEF Put
      <3>2. Placed(s, exec[j], token[j], pass[j], j \in owed, flying[j], answer[j], reviews[j])
        BY <1>a, <1>c, <2>1, <3>0 DEF Rows, JobOK, Placed
      <3>3. Truthful(s, exec[j], pass[j], answer[j], reviews[j])
        BY <1>a DEF Rows, JobOK, Truthful
      <3>4. Once(s, exec[j], token[j], flying[j], answer[j], reviews[j])
        BY <1>a, <3>0 DEF Rows, JobOK, Once
      <3> QED BY <1>a, <1>b, <1>c, <2>1, <3>1, <3>6, <3>2, <3>3, <3>4
    <2> QED BY <2>3, <2>4
  <1>2. ASSUME PassLookup(j) PROVE JobTypes' /\ StepOK
    <2> DEFINE s == [r EXCEPT !.misses = 0]
    <2>1. PassStarts(j) /\ UNCHANGED <<runVars, hubVars>>
      BY <1>2 DEF PassLookup
    <2>2. \/ Put(pass, pass', j, "found") /\ reviews[j] > 0 /\ Put(job, job', j, s)
          \/ Put(pass, pass', j, "absent") /\ Put(job, job', j, r)
          \/ Put(pass, pass', j, "broken") /\ Put(job, job', j, s)
      BY <1>2 DEF PassLookup, Walk, Put
    <2>3. {"found", "absent", "broken"} \subseteq Passes
      BY DEF Passes
    <2>4. s \in Rows /\ RowStep(r, s) /\ s.status = r.status /\ RowStep(r, r)
      BY <1>a DEF Rows, RowStep
    <2>5. ASSUME NEW p \in Passes PROVE
             /\ Placed(s, exec[j], token[j], p, j \in owed, flying[j], answer[j], reviews[j])
             /\ Placed(r, exec[j], token[j], p, j \in owed, flying[j], answer[j], reviews[j])
      BY <1>a, <1>c, <2>1 DEF Rows, JobOK, Placed
    <2>6. ASSUME NEW p \in Passes, p = "found" => reviews[j] > 0 PROVE
             Truthful(s, exec[j], p, answer[j], reviews[j]) /\ Truthful(r, exec[j], p, answer[j], reviews[j])
      BY <1>a, <2>6 DEF Rows, JobOK, Truthful
    <2>7. Once(s, exec[j], token[j], flying[j], answer[j], reviews[j])
      BY <1>a DEF Rows, JobOK, Once
    <2>8. Once(r, exec[j], token[j], flying[j], answer[j], reviews[j])
      BY <1>a DEF JobOK
    <2> HIDE DEF s
    <2>9. CASE Put(pass, pass', j, "found") /\ reviews[j] > 0 /\ Put(job, job', j, s)
      BY <1>a, <1>b, <1>c, <2>1, <2>3, <2>4, <2>5, <2>6, <2>7, <2>9
    <2>10. CASE Put(pass, pass', j, "absent") /\ Put(job, job', j, r)
      BY <1>a, <1>b, <1>c, <2>1, <2>3, <2>4, <2>5, <2>6, <2>8, <2>10
    <2>11. CASE Put(pass, pass', j, "broken") /\ Put(job, job', j, s)
      BY <1>a, <1>b, <1>c, <2>1, <2>3, <2>4, <2>5, <2>6, <2>7, <2>11
    <2> QED BY <2>2, <2>9, <2>10, <2>11
  <1>3. ASSUME Reconcile(j) PROVE JobTypes' /\ StepOK
    <2>1. pass[j] = "found" /\ UNCHANGED <<runVars, hubVars, owed>> /\ {"done", "broken"} \subseteq Passes
      BY <1>3 DEF Reconcile, Passes
    <2>2. CASE r.claimed
      <3> DEFINE st == IF r.status = "failed" /\ ~r.accepted THEN "succeeded" ELSE r.status
                 s == [r EXCEPT !.status = st, !.dispatched = TRUE, !.accepted = TRUE, !.published = TRUE]
      <3>1. Put(pass, pass', j, "done") /\ Put(job, job', j, s)
        BY <1>3, <2>2 DEF Reconcile, Walk, Put, rowVars
      <3>2. /\ st \in Statuses /\ st # "absent"
            /\ st = "cancelled" => r.status = "cancelled"
            /\ st = r.status \/ (r.status = "failed" /\ st = "succeeded")
        BY <1>a, <1>d, <2>1 DEF Rows, Statuses
      <3> HIDE DEF st
      <3>3. s \in Rows /\ RowStep(r, s)
        BY <1>a, <1>d, <2>1, <3>2 DEF Rows, RowStep
      <3>4. s.status = r.status \/ exec[j] = "none"
        BY <1>a, <3>2 DEF Rows, JobOK, Placed
      <3>5. Placed(s, exec[j], token[j], "done", j \in owed, flying[j], answer[j], reviews[j])
        BY <1>a, <2>2, <3>2 DEF Rows, JobOK, Placed, Early
      <3>6. Truthful(s, exec[j], "done", answer[j], reviews[j])
        BY <1>a, <2>1 DEF JobOK, Truthful
      <3>7. Once(s, exec[j], token[j], flying[j], answer[j], reviews[j])
        BY <1>a, <2>2, <3>2 DEF Rows, JobOK, Once
      <3> QED BY <1>a, <1>b, <1>d, <2>1, <3>1, <3>3, <3>4, <3>5, <3>6, <3>7
    <2>3. CASE ~r.claimed
      <3>1. Put(pass, pass', j, "broken") /\ Put(job, job', j, r) /\ RowStep(r, r)
        BY <1>3, <2>3 DEF Reconcile, Walk, Put, rowVars, RowStep
      <3>2. Placed(r, exec[j], token[j], "broken", j \in owed, flying[j], answer[j], reviews[j])
        BY <1>a, <1>d, <2>1 DEF JobOK, Placed
      <3>3. Truthful(r, exec[j], "broken", answer[j], reviews[j])
        BY <1>a DEF JobOK, Truthful
      <3> QED BY <1>a, <1>b, <1>d, <2>1, <3>1, <3>2, <3>3 DEF JobOK
    <2> QED BY <2>2, <2>3
  <1>e. ASSUME NEW m \in Nat, NEW due \in Dues, NEW p \in {"idle", "done", "broken"},
               Put(job, job', j, [r EXCEPT !.misses = m, !.due = due]), Put(pass, pass', j, p),
               UNCHANGED <<runVars, hubVars, owed>>, pass[j] # "idle"
        PROVE  JobTypes' /\ StepOK
    <2> DEFINE s == [r EXCEPT !.misses = m, !.due = due]
    <2>1. s \in Rows /\ RowStep(r, s) /\ s.status = r.status /\ p \in Passes
      BY <1>a DEF Rows, RowStep, Passes
    <2>2. Placed(s, exec[j], token[j], p, j \in owed, flying[j], answer[j], reviews[j])
      BY <1>a, <1>d, <1>e DEF Rows, JobOK, Placed
    <2>3. Truthful(s, exec[j], p, answer[j], reviews[j])
      BY <1>a DEF Rows, JobOK, Truthful
    <2>4. Once(s, exec[j], token[j], flying[j], answer[j], reviews[j])
      BY <1>a DEF Rows, JobOK, Once
    <2> QED BY <1>a, <1>b, <1>d, <1>e, <2>1, <2>2, <2>3, <2>4
  <1>f. /\ r.misses \in Nat /\ r.due \in Dues /\ 0 \in Nat /\ "none" \in Dues /\ "retry" \in Dues /\ "final" \in Dues
        /\ r = [r EXCEPT !.misses = r.misses, !.due = r.due]
        /\ \A m \in Nat : [r EXCEPT !.misses = m] = [r EXCEPT !.misses = m, !.due = r.due]
        /\ \A due \in Dues : [r EXCEPT !.due = due] = [r EXCEPT !.misses = r.misses, !.due = due]
    BY <1>a DEF Rows, Dues
  <1>4. ASSUME Absent(j) PROVE JobTypes' /\ StepOK
    <2> DEFINE more == IF r.misses < Confirmations THEN r.misses + 1 ELSE Confirmations
    <2>1. more \in Nat
      <3>1. r.misses \in Nat /\ Confirmations \in Nat
        BY <1>f, NumbersAssumption
      <3> QED BY <3>1
    <2>2. pass[j] # "idle" /\ UNCHANGED <<runVars, hubVars, owed>>
      BY <1>4 DEF Absent
    <2> HIDE DEF more
    <2>3. \/ Put(pass, pass', j, "done") /\ Put(job, job', j, r)
          \/ Put(pass, pass', j, "done") /\ Put(job, job', j, [r EXCEPT !.misses = 0, !.due = "final"])
          \/ Put(pass, pass', j, "broken") /\ Put(job, job', j, [r EXCEPT !.misses = 0])
          \/ Put(pass, pass', j, "done") /\ Put(job, job', j, [r EXCEPT !.misses = more, !.due = "retry"])
          \/ Put(pass, pass', j, "broken") /\ Put(job, job', j, [r EXCEPT !.misses = more])
      BY <1>4 DEF Absent, Walk, Put, more
    <2>4. CASE Put(pass, pass', j, "done") /\ Put(job, job', j, r)
      <3>1. Put(job, job', j, [r EXCEPT !.misses = r.misses, !.due = r.due])
        BY <1>f, <2>4
      <3> QED BY <1>e, <1>f, <2>2, <2>4, <3>1
    <2>5. CASE Put(pass, pass', j, "done") /\ Put(job, job', j, [r EXCEPT !.misses = 0, !.due = "final"])
      BY <1>e, <1>f, <2>2, <2>5
    <2>6. CASE Put(pass, pass', j, "broken") /\ Put(job, job', j, [r EXCEPT !.misses = 0])
      BY <1>e, <1>f, <2>2, <2>6
    <2>7. CASE Put(pass, pass', j, "done") /\ Put(job, job', j, [r EXCEPT !.misses = more, !.due = "retry"])
      BY <1>e, <1>f, <2>1, <2>2, <2>7
    <2>8. CASE Put(pass, pass', j, "broken") /\ Put(job, job', j, [r EXCEPT !.misses = more])
      BY <1>e, <1>f, <2>1, <2>2, <2>8
    <2> QED BY <2>3, <2>4, <2>5, <2>6, <2>7, <2>8
  <1>5. ASSUME PassEnds(j) PROVE JobTypes' /\ StepOK
    <2>1. /\ pass[j] # "idle" /\ UNCHANGED <<runVars, hubVars, owed>> /\ Put(pass, pass', j, "idle")
          /\ \E due \in Dues : job' = [job EXCEPT ![j].due = due]
      BY <1>5 DEF PassEnds, Written, Dues, Walk, Put
    <2>2. PICK due \in Dues : job' = [job EXCEPT ![j].due = due]
      BY <2>1
    <2>3. Put(job, job', j, [r EXCEPT !.misses = r.misses, !.due = due])
      BY <2>2, <1>f DEF Put
    <2> QED BY <1>e, <1>f, <2>1, <2>3
  <1> QED BY <1>1, <1>2, <1>3, <1>4, <1>5

-------------------------------------------------------------------------------
(* Commands, polling and restart. *)

\* A job that did not exist is queued.
LEMMA Queued ==
  ASSUME JobTypes, JobsInv, NEW i \in Jobs, job[i].status = "absent", NEW h \in Heads,
         NEW x \in BOOLEAN, NEW y \in BOOLEAN, NEW c \in Candidates, NEW s, s = FreshRow(h, x, y, c)
  PROVE  /\ s \in Rows /\ RowStep(job[i], s) /\ s.order = 0
         /\ JobOK(s, exec[i], token[i], pass[i], i \in owed, flying[i], answer[i], reviews[i])
         /\ JobOK(s, exec[i], token'[i], pass[i], i \in owed, flying[i], answer[i], reviews[i])
  <1>0. JobOK(job[i], exec[i], token[i], pass[i], i \in owed, flying[i], answer[i], reviews[i])
    BY Known
  <1>1. /\ job[i] = NoRow /\ flying[i] = 0 /\ reviews[i] = 0 /\ i \notin owed /\ pass[i] = "idle"
        /\ exec[i] = "none" /\ answer[i] = "none"
    BY <1>0 DEF JobOK, Placed, NoRow
  <1>2. c \in BOOLEAN
    BY CandidatesAssumption
  <1>3. /\ s.status = "queued" /\ s.cand = c /\ s.order = 0 /\ s.editor = "none"
        /\ ~s.claimed /\ ~s.dispatched /\ ~s.accepted /\ ~s.published /\ ~s.cancel
    BY <1>2 DEF FreshRow, NoRow
  <1>4. s \in Rows
    BY <1>2 DEF FreshRow, NoRow, Rows, Statuses, Editors, Dues
  <1>5. RowStep(job[i], s)
    BY <1>1, <1>3 DEF RowStep, NoRow
  <1>6. JobOK(s, exec[i], token[i], pass[i], i \in owed, flying[i], answer[i], reviews[i])
    BY <1>1, <1>3 DEF JobOK, Placed, Truthful, Once, Early
  <1>7. JobOK(s, exec[i], token'[i], pass[i], i \in owed, flying[i], answer[i], reviews[i])
    BY <1>1, <1>3 DEF JobOK, Placed, Truthful, Once, Early
  <1> QED BY <1>3, <1>4, <1>5, <1>6, <1>7

\* A queued or running job is superseded, and its token is tripped once it is there.
LEMMA Halted ==
  ASSUME JobTypes, JobsInv, NEW i \in Jobs, job[i].status \in Active, NEW ed \in Editors,
         job[i].editor = "succeeded" => ed = "succeeded",
         job'[i] = [job[i] EXCEPT !.status = "stale", !.editor = ed],
         token'[i] \in BOOLEAN, exec[i] \notin {"none", "claimed"} => token'[i]
  PROVE  /\ job'[i] \in Rows /\ RowStep(job[i], job'[i]) /\ job'[i].order = job[i].order
         /\ JobOK(job'[i], exec[i], token'[i], pass[i], i \in owed, flying[i], answer[i], reviews[i])
  <1> DEFINE r == job[i]
             s == [r EXCEPT !.status = "stale", !.editor = ed]
  <1>a. /\ r \in Rows /\ exec[i] \in Phases /\ token[i] \in BOOLEAN /\ pass[i] \in Passes
        /\ flying[i] \in Nat /\ answer[i] \in Answers /\ reviews[i] \in Nat
        /\ JobOK(r, exec[i], token[i], pass[i], i \in owed, flying[i], answer[i], reviews[i])
    BY Known
  <1>1. s \in Rows /\ RowStep(r, s) /\ s.order = r.order
    BY <1>a DEF Rows, Statuses, RowStep, Active
  <1>2. Placed(s, exec[i], token'[i], pass[i], i \in owed, flying[i], answer[i], reviews[i])
    BY <1>a DEF Rows, JobOK, Placed, Active
  <1>3. Truthful(s, exec[i], pass[i], answer[i], reviews[i])
    BY <1>a DEF Rows, JobOK, Truthful
  <1>4. Once(s, exec[i], token'[i], flying[i], answer[i], reviews[i])
    BY <1>a DEF Rows, JobOK, Once
  <1>5. job'[i] = s
    OBVIOUS
  <1> HIDE DEF s
  <1> QED BY <1>1, <1>2, <1>3, <1>4, <1>5 DEF JobOK

\* A token that is tripped changes nothing else.
LEMMA Warned ==
  ASSUME NEW r, NEW e, NEW t, NEW p, NEW o, NEW f, NEW a, NEW n, NEW u,
         t => u, JobOK(r, e, t, p, o, f, a, n)
  PROVE  JobOK(r, e, u, p, o, f, a, n) /\ RowStep(r, r)
  BY DEF JobOK, Placed, Truthful, Once, RowStep

LEMMA Tokens ==
  ASSUME JobTypes, NEW which, token' = Tripped(which)
  PROVE  /\ token' \in [Jobs -> BOOLEAN]
         /\ \A i \in Jobs : /\ token[i] => token'[i]
                            /\ i \in which /\ exec[i] \notin {"none", "claimed"} => token'[i]
                            /\ i \notin which => token'[i] = token[i]
  BY DEF JobTypes, Tripped, Registered

\* What a job is told from outside.
LEMMA CommandSteps ==
  ASSUME JobTypes, JobsInv, headNow \in Heads, NEW j \in Jobs, Request(j) \/ Cancel(j) \/ RetryEditor(j)
  PROVE  JobTypes' /\ StepOK
  <1> DEFINE r == job[j]
  <1>a. /\ r \in Rows /\ exec[j] \in Phases /\ token[j] \in BOOLEAN /\ pass[j] \in Passes
        /\ flying[j] \in Nat /\ answer[j] \in Answers /\ reviews[j] \in Nat
        /\ JobOK(r, exec[j], token[j], pass[j], j \in owed, flying[j], answer[j], reviews[j])
    BY Known
  <1>1. ASSUME Request(j) PROVE JobTypes' /\ StepOK
    <2>1. PICK c \in Candidates : Vacant(j) /\ job' = [job EXCEPT ![j] = FreshRow(headNow, FALSE, FALSE, c)]
      BY <1>1 DEF Request
    <2> DEFINE s == FreshRow(headNow, FALSE, FALSE, c)
    <2>2. r.status = "absent"
      BY <2>1 DEF Vacant, Is
    <2>3. /\ s \in Rows /\ RowStep(r, s)
          /\ JobOK(s, exec[j], token[j], pass[j], j \in owed, flying[j], answer[j], reviews[j])
      BY <1>a, <2>2, Queued
    <2> HIDE DEF s
    <2>4. Moves(j, s, exec[j], token[j], pass[j], flying[j], answer[j], reviews[j]) /\ UNCHANGED owed
      BY <1>1, <2>1 DEF Request, Moves, Put, JobTypes, runVars, hubVars, syncVars, s
    <2> QED BY <1>a, <2>3, <2>4, Solo
  <1>2. ASSUME Cancel(j) PROVE JobTypes' /\ StepOK
    <2>1. token' = Tripped({j}) /\ UNCHANGED <<exec, syncVars, hubVars>>
      BY <1>2 DEF Cancel
    <2>2. /\ token' \in [Jobs -> BOOLEAN] /\ \A k \in Jobs \ {j} : token'[k] = token[k]
          /\ token'[j] \in BOOLEAN /\ (token[j] => token'[j])
      BY <2>1, Tokens
    <2>3. CASE r.status = "queued"
      <3> DEFINE ed == Stopped(r.editor)
                 s == [r EXCEPT !.status = "cancelled", !.cancel = TRUE, !.editor = ed]
      <3>1. ed \in Editors /\ job' = [job EXCEPT ![j] = s]
        BY <1>2, <1>a, <2>3 DEF Cancel, Is, Stopped, Rows, Editors
      <3> HIDE DEF ed
      <3>2. s \in Rows /\ RowStep(r, s)
        BY <1>a, <2>3, <3>1 DEF Rows, Statuses, RowStep
      <3>3. Placed(s, exec[j], token'[j], pass[j], j \in owed, flying[j], answer[j], reviews[j])
        BY <1>a, <2>3 DEF Rows, JobOK, Placed
      <3>4. Truthful(s, exec[j], pass[j], answer[j], reviews[j])
        BY <1>a, <2>3 DEF Rows, JobOK, Truthful
      <3>5. Once(s, exec[j], token'[j], flying[j], answer[j], reviews[j])
        BY <1>a, <2>3 DEF Rows, JobOK, Once, Placed
      <3> HIDE DEF s
      <3>6. Moves(j, s, exec[j], token'[j], pass[j], flying[j], answer[j], reviews[j]) /\ UNCHANGED owed
        BY <2>1, <2>2, <3>1 DEF Moves, Put, JobTypes, hubVars, syncVars
      <3> QED BY <1>a, <2>2, <3>2, <3>3, <3>4, <3>5, <3>6, Solo DEF JobOK
    <2>4. CASE r.status # "queued"
      <3> DEFINE s == [r EXCEPT !.cancel = TRUE]
      <3>1. r.status = "running" /\ ~r.claimed /\ job' = [job EXCEPT ![j] = s]
        BY <1>2, <2>4 DEF Cancel, Is
      <3>2. s \in Rows /\ RowStep(r, s)
        BY <1>a DEF Rows, RowStep
      <3>3. Placed(s, exec[j], token'[j], pass[j], j \in owed, flying[j], answer[j], reviews[j])
        BY <1>a, <2>2, <3>1 DEF Rows, JobOK, Placed
      <3>4. Truthful(s, exec[j], pass[j], answer[j], reviews[j])
        BY <1>a DEF Rows, JobOK, Truthful
      <3>5. Once(s, exec[j], token'[j], flying[j], answer[j], reviews[j])
        BY <1>a, <2>2, <3>1 DEF Rows, JobOK, Once
      <3> HIDE DEF s
      <3>6. Moves(j, s, exec[j], token'[j], pass[j], flying[j], answer[j], reviews[j]) /\ UNCHANGED owed
        BY <2>1, <2>2, <3>1 DEF Moves, Put, JobTypes, hubVars, syncVars
      <3> QED BY <1>a, <2>2, <3>2, <3>3, <3>4, <3>5, <3>6, Solo DEF JobOK
    <2> QED BY <2>3, <2>4
  <1>3. ASSUME RetryEditor(j) PROVE JobTypes' /\ StepOK
    <2> DEFINE s == [r EXCEPT !.status = "queued", !.editor = "queued", !.cancel = FALSE, !.claimed = FALSE]
    <2>1. r.status \in {"failed", "cancelled"} /\ r.editor \in {"failed", "cancelled"}
      BY <1>3 DEF RetryEditor, Is
    <2>2. s \in Rows /\ RowStep(r, s)
      BY <1>a, <2>1 DEF Rows, Statuses, Editors, RowStep
    <2>3. Placed(s, exec[j], token[j], pass[j], j \in owed, flying[j], answer[j], reviews[j])
      BY <1>a, <2>1 DEF Rows, JobOK, Placed
    <2>4. Truthful(s, exec[j], pass[j], answer[j], reviews[j])
      BY <1>a DEF Rows, JobOK, Truthful
    <2>5. Once(s, exec[j], token[j], flying[j], answer[j], reviews[j])
      BY <1>a, <2>1 DEF Rows, JobOK, Once, Placed
    <2>6. Moves(j, s, exec[j], token[j], pass[j], flying[j], answer[j], reviews[j]) /\ UNCHANGED owed
      BY <1>3 DEF RetryEditor, Moves, Put, JobTypes, runVars, hubVars, syncVars
    <2> QED BY <1>a, <2>2, <2>3, <2>4, <2>5, <2>6, Solo DEF JobOK
  <1> QED BY <1>1, <1>2, <1>3

\* A step after which every job, looked at by itself, is as it should be.
LEMMA Each ==
  ASSUME JobTypes, UNCHANGED <<flying, reviews>>, job' = [i \in Jobs |-> job'[i]],
         exec' \in [Jobs -> Phases], token' \in [Jobs -> BOOLEAN], pass' \in [Jobs -> Passes],
         owed' \subseteq Jobs, answer' \in [Jobs -> Answers],
         \A i \in Jobs : /\ job'[i] \in Rows /\ RowStep(job[i], job'[i])
                         /\ JobOK(job'[i], exec'[i], token'[i], pass'[i], i \in owed', flying[i], answer'[i],
                                  reviews[i])
                         /\ job'[i].order \in {job[i].order, 0}
  PROVE  JobTypes' /\ StepOK
  <1>1. JobTypes'
    BY DEF JobTypes
  <1>2. ASSUME NEW i \in Jobs PROVE JobInv(i)' /\ RowStep(job[i], job'[i])
    BY <1>2 DEF JobInv
  <1>3. 1 \in Jobs
    BY NumbersAssumption DEF Jobs
  <1> QED BY <1>1, <1>2, <1>3 DEF StepOK

\* A restart: whoever was at work is gone, the rows are recovered.
LEMMA CrashStep ==
  ASSUME JobTypes, JobsInv, Crash
  PROVE  JobTypes' /\ StepOK
  <1>1. /\ UNCHANGED <<flying, reviews>> /\ job' = [i \in Jobs |-> Recovered(job[i])]
        /\ exec' = [i \in Jobs |-> "none"] /\ token' = [i \in Jobs |-> FALSE]
        /\ pass' = [i \in Jobs |-> "idle"] /\ owed' = {} /\ answer' = [i \in Jobs |-> "none"]
    BY DEF Crash
  <1>2. /\ exec' \in [Jobs -> Phases] /\ token' \in [Jobs -> BOOLEAN] /\ pass' \in [Jobs -> Passes]
        /\ owed' \subseteq Jobs /\ answer' \in [Jobs -> Answers]
    BY <1>1 DEF Phases, Passes, Answers
  <1>3. ASSUME NEW i \in Jobs
        PROVE  /\ job'[i] \in Rows /\ RowStep(job[i], job'[i])
               /\ JobOK(job'[i], exec'[i], token'[i], pass'[i], i \in owed', flying[i], answer'[i], reviews[i])
               /\ job'[i].order \in {job[i].order, 0}
    <2> DEFINE r == job[i]
               f == flying[i]
               n == reviews[i]
               task == IF r.editor \in {"queued", "running"} THEN "failed" ELSE r.editor
    <2>a. r \in Rows /\ f \in Nat /\ n \in Nat
          /\ JobOK(r, exec[i], token[i], pass[i], i \in owed, f, answer[i], n)
      BY Known
    <2>b. task \in Editors /\ (r.editor = "succeeded" => task = "succeeded")
      BY <2>a DEF Rows, Editors
    <2>c. /\ job'[i] = Recovered(r) /\ exec'[i] = "none" /\ token'[i] = FALSE /\ pass'[i] = "idle"
          /\ i \notin owed' /\ answer'[i] = "none"
      BY <1>1
    <2>1. CASE r.status # "running"
      <3>1. Recovered(r) = r
        BY <2>1 DEF Recovered
      <3>2. JobOK(r, exec'[i], token'[i], pass'[i], i \in owed', f, answer'[i], n)
        BY <2>a, <2>c DEF JobOK, Placed, Truthful, Once, Early
      <3> QED BY <2>a, <2>c, <3>1, <3>2 DEF RowStep
    <2>2. CASE r.status = "running" /\ r.claimed
      <3> DEFINE st == IF r.accepted THEN "succeeded" ELSE "failed"
                 due == IF r.accepted \/ r.dispatched THEN "retry" ELSE "none"
                 s == [r EXCEPT !.editor = task, !.status = st, !.claimed = r.accepted \/ r.dispatched, !.due = due]
      <3>1. Recovered(r) = s
        BY <2>2 DEF Recovered
      <3>2. st \in {"succeeded", "failed"} /\ (st = "succeeded" => r.accepted) /\ due \in Dues
        BY DEF Dues
      <3> HIDE DEF st, due, task
      <3>3. s \in Rows /\ RowStep(r, s)
        BY <2>a, <2>b, <2>2, <3>2 DEF Rows, Statuses, RowStep, JobOK, Once
      <3>4. Placed(s, exec'[i], token'[i], pass'[i], i \in owed', f, answer'[i], n)
        BY <2>c, <2>a, <2>2, <3>2 DEF Rows, JobOK, Placed, Early
      <3>5. Truthful(s, exec'[i], pass'[i], answer'[i], n)
        BY <2>c, <2>a, <3>2 DEF Rows, JobOK, Truthful
      <3>6. Once(s, exec'[i], token'[i], f, answer'[i], n)
        BY <2>c, <2>a, <2>b, <2>2, <3>2 DEF Rows, JobOK, Once
      <3>7. s.order = r.order
        BY <2>a DEF Rows
      <3> QED BY <2>c, <3>1, <3>3, <3>4, <3>5, <3>6, <3>7 DEF JobOK
    <2>3. CASE r.status = "running" /\ ~r.claimed
      <3> DEFINE s == [r EXCEPT !.editor = task, !.status = "queued", !.cancel = FALSE]
      <3>1. Recovered(r) = s
        BY <2>3 DEF Recovered
      <3> HIDE DEF task
      <3>3. s \in Rows /\ RowStep(r, s)
        BY <2>a, <2>b, <2>3 DEF Rows, Statuses, RowStep
      <3>4. Placed(s, exec'[i], token'[i], pass'[i], i \in owed', f, answer'[i], n)
        BY <2>c, <2>a, <2>3 DEF Rows, JobOK, Placed, Early
      <3>5. Truthful(s, exec'[i], pass'[i], answer'[i], n)
        BY <2>c, <2>a DEF Rows, JobOK, Truthful
      <3>6. Once(s, exec'[i], token'[i], f, answer'[i], n)
        BY <2>c, <2>a, <2>b, <2>3 DEF Rows, JobOK, Once
      <3>7. s.order = r.order
        BY <2>a DEF Rows
      <3> QED BY <2>c, <3>1, <3>3, <3>4, <3>5, <3>6, <3>7 DEF JobOK
    <2> QED BY <2>1, <2>2, <2>3
  <1>4. job' = [i \in Jobs |-> job'[i]]
    BY <1>1
  <1> QED BY <1>1, <1>2, <1>3, <1>4, Each

\* A pull request that turns out to be a draft, under the execution j.
LEMMA DraftStep ==
  ASSUME JobTypes, JobsInv, NEW j \in Jobs, ValidateDraft(j)
  PROVE  JobTypes' /\ StepOK
  <1> DEFINE hit == {k \in Jobs : ByDraft(k)}
  <1>1. /\ exec[j] = "validate" /\ UNCHANGED <<flying, reviews, pass, owed, answer>>
        /\ job' = [k \in Jobs |-> IF ByDraft(k) THEN [job[k] EXCEPT !.status = "stale"] ELSE job[k]]
        /\ exec' = [exec EXCEPT ![j] = "stale"] /\ token' = Tripped(hit)
    BY DEF ValidateDraft, Leave, Goto, syncVars, hubVars
  <1>2. /\ token' \in [Jobs -> BOOLEAN]
        /\ \A i \in Jobs : /\ token[i] => token'[i]
                           /\ i \in hit /\ exec[i] \notin {"none", "claimed"} => token'[i]
    BY <1>1, Tokens
  <1>3. ASSUME NEW i \in Jobs
        PROVE  /\ job'[i] \in Rows /\ RowStep(job[i], job'[i])
               /\ JobOK(job'[i], exec'[i], token'[i], pass'[i], i \in owed', flying[i], answer'[i], reviews[i])
               /\ job'[i].order \in {job[i].order, 0}
    <2> DEFINE r == job[i]
    <2>a. /\ r \in Rows /\ exec[i] \in Phases /\ token[i] \in BOOLEAN /\ pass[i] \in Passes
          /\ flying[i] \in Nat /\ answer[i] \in Answers /\ reviews[i] \in Nat
          /\ JobOK(r, exec[i], token[i], pass[i], i \in owed, flying[i], answer[i], reviews[i])
      BY Known
    <2>b. token'[i] \in BOOLEAN
      BY <1>2
    <2>1. /\ job'[i] \in Rows /\ RowStep(r, job'[i]) /\ job'[i].order \in {r.order, 0}
          /\ JobOK(job'[i], exec[i], token'[i], pass[i], i \in owed, flying[i], answer[i], reviews[i])
      <3>1. CASE ByDraft(i)
        <4>1. /\ r.status \in Active /\ (exec[i] \notin {"none", "claimed"} => token'[i])
              /\ job'[i] = [r EXCEPT !.status = "stale"]
          BY <1>1, <1>2, <3>1 DEF ByDraft, Is
        <4>2. job'[i] = [r EXCEPT !.status = "stale", !.editor = r.editor] /\ r.editor \in Editors
          BY <2>a, <4>1 DEF Rows
        <4> QED BY <2>b, <4>1, <4>2, Halted
      <3>2. CASE ~ByDraft(i)
        <4>1. job'[i] = r
          BY <1>1, <3>2
        <4> QED BY <1>2, <2>a, <4>1, Warned
      <3> QED BY <3>1, <3>2
    <2>2. exec'[i] = exec[i] \/ (exec[i] = "validate" /\ exec'[i] = "stale")
      <3>1. CASE i = j
        BY <1>1, <3>1 DEF JobTypes
      <3>2. CASE i # j
        BY <1>1, <3>2 DEF JobTypes
      <3> QED BY <3>1, <3>2
    <2>3. JobOK(job'[i], exec'[i], token'[i], pass[i], i \in owed, flying[i], answer[i], reviews[i])
      <3>1. CASE exec'[i] = exec[i]
        BY <2>1, <3>1
      <3>2. CASE exec[i] = "validate" /\ exec'[i] = "stale"
        BY <2>1, <3>2 DEF JobOK, Placed, Truthful, Once, Early
      <3> QED BY <2>2, <3>1, <3>2
    <2> QED BY <1>1, <2>1, <2>3
  <1>4. job' = [i \in Jobs |-> job'[i]] /\ exec' \in [Jobs -> Phases]
    BY <1>1 DEF JobTypes, Phases
  <1>5. pass' \in [Jobs -> Passes] /\ owed' \subseteq Jobs /\ answer' \in [Jobs -> Answers]
    BY <1>1 DEF JobTypes
  <1> QED BY <1>1, <1>2, <1>3, <1>4, <1>5, Each

\* The poller supersedes what an older listing asked for and may queue a new round.
LEMMA PollStep ==
  ASSUME JobTypes, JobsInv, seen \in Heads \cup {None}, PollApply
  PROVE  JobTypes' /\ StepOK
  <1>0. PICK draft \in BOOLEAN :
          /\ seen # None /\ token' = Tripped({i \in Jobs : (draft /\ ByDraft(i)) \/ ByRevision(i)})
          /\ \/ job' = Superseded(draft)
             \/ \E k \in Jobs, c \in Candidates :
                   Vacant(k) /\ job' = [Superseded(draft) EXCEPT ![k] = FreshRow(seen, TRUE, FALSE, c)]
    BY DEF PollApply
  <1> DEFINE hit == {i \in Jobs : (draft /\ ByDraft(i)) \/ ByRevision(i)}
             after == Superseded(draft)
  <1>1. UNCHANGED <<flying, reviews, exec, pass, owed, answer>> /\ seen \in Heads
    BY <1>0 DEF PollApply, syncVars, hubVars
  <1>2. /\ token' \in [Jobs -> BOOLEAN]
        /\ \A i \in Jobs : /\ token[i] => token'[i]
                           /\ i \in hit /\ exec[i] \notin {"none", "claimed"} => token'[i]
    BY <1>0, Tokens
  <1>3. \A i \in Jobs : after[i] = IF draft /\ ByDraft(i) THEN [job[i] EXCEPT !.status = "stale"]
                                   ELSE IF ByRevision(i)
                                        THEN [job[i] EXCEPT !.status = "stale", !.editor = Stopped(job[i].editor)]
                                        ELSE job[i]
    BY DEF Superseded
  <1>4. after = [i \in Jobs |-> after[i]]
    BY DEF Superseded
  <1> HIDE DEF after
  <1>5. ASSUME NEW i \in Jobs, job'[i] = after[i]
        PROVE  /\ job'[i] \in Rows /\ RowStep(job[i], job'[i])
               /\ JobOK(job'[i], exec[i], token'[i], pass[i], i \in owed, flying[i], answer[i], reviews[i])
               /\ job'[i].order \in {job[i].order, 0}
    <2> DEFINE r == job[i]
    <2>a. /\ r \in Rows /\ exec[i] \in Phases /\ token[i] \in BOOLEAN /\ pass[i] \in Passes
          /\ flying[i] \in Nat /\ answer[i] \in Answers /\ reviews[i] \in Nat
          /\ JobOK(r, exec[i], token[i], pass[i], i \in owed, flying[i], answer[i], reviews[i])
      BY Known
    <2>b. token'[i] \in BOOLEAN /\ (i \in hit /\ exec[i] \notin {"none", "claimed"} => token'[i])
      BY <1>2
    <2>1. CASE draft /\ ByDraft(i)
      <3>1. r.status \in Active /\ i \in hit /\ job'[i] = [r EXCEPT !.status = "stale"]
        BY <1>3, <1>5, <2>1 DEF ByDraft, Is
      <3>2. job'[i] = [r EXCEPT !.status = "stale", !.editor = r.editor] /\ r.editor \in Editors
        BY <2>a, <3>1 DEF Rows
      <3> QED BY <2>b, <3>1, <3>2, Halted
    <2>2. CASE ~(draft /\ ByDraft(i)) /\ ByRevision(i)
      <3>1. /\ r.status \in Active /\ i \in hit
            /\ job'[i] = [r EXCEPT !.status = "stale", !.editor = Stopped(r.editor)]
        BY <1>3, <1>5, <2>2 DEF ByRevision, Is
      <3>2. Stopped(r.editor) \in Editors /\ (r.editor = "succeeded" => Stopped(r.editor) = "succeeded")
        BY <2>a DEF Rows, Editors, Stopped
      <3> QED BY <2>b, <3>1, <3>2, Halted
    <2>3. CASE ~(draft /\ ByDraft(i)) /\ ~ByRevision(i)
      <3>1. job'[i] = r
        BY <1>3, <1>5, <2>3
      <3> QED BY <1>2, <2>a, <3>1, Warned
    <2> QED BY <2>1, <2>2, <2>3
  <1>6. /\ exec' \in [Jobs -> Phases] /\ pass' \in [Jobs -> Passes] /\ owed' \subseteq Jobs
        /\ answer' \in [Jobs -> Answers]
    BY <1>1 DEF JobTypes
  <1>7. CASE job' = after
    <2>1. job' = [i \in Jobs |-> job'[i]] /\ \A i \in Jobs : job'[i] = after[i]
      BY <1>4, <1>7
    <2> QED BY <1>1, <1>2, <1>5, <1>6, <2>1, Each
  <1>8. ASSUME NEW k \in Jobs, NEW c \in Candidates, Vacant(k),
               job' = [after EXCEPT ![k] = FreshRow(seen, TRUE, FALSE, c)]
        PROVE  JobTypes' /\ StepOK
    <2> DEFINE new == FreshRow(seen, TRUE, FALSE, c)
    <2> HIDE DEF new
    <2>1. /\ job' = [i \in Jobs |-> job'[i]] /\ job'[k] = new
          /\ \A i \in Jobs : i # k => job'[i] = after[i]
      BY <1>4, <1>8 DEF new
    <2>2. /\ job[k] \in Rows /\ exec[k] \in Phases /\ flying[k] \in Nat /\ reviews[k] \in Nat
          /\ JobOK(job[k], exec[k], token[k], pass[k], k \in owed, flying[k], answer[k], reviews[k])
          /\ job[k].status = "absent"
      BY <1>8, Known DEF Vacant, Is
    <2>3. /\ new \in Rows /\ RowStep(job[k], new) /\ new.order = 0
          /\ JobOK(new, exec[k], token'[k], pass[k], k \in owed, flying[k], answer[k], reviews[k])
      BY <1>1, <2>2, Queued DEF new
    <2>4. ASSUME NEW i \in Jobs
          PROVE  /\ job'[i] \in Rows /\ RowStep(job[i], job'[i])
                 /\ JobOK(job'[i], exec[i], token'[i], pass[i], i \in owed, flying[i], answer[i], reviews[i])
                 /\ job'[i].order \in {job[i].order, 0}
      <3>1. CASE i = k
        BY <2>1, <2>3, <3>1
      <3>2. CASE i # k
        BY <1>5, <2>1, <3>2
      <3> QED BY <3>1, <3>2
    <2> QED BY <1>1, <1>2, <1>6, <2>1, <2>4, Each
  <1> QED BY <1>0, <1>7, <1>8 DEF after

\* A retry as a new job: the old one is told to stop, its replacement is queued.
LEMMA RetryStep ==
  ASSUME JobTypes, JobsInv, headNow \in Heads, NEW j \in Jobs, NEW k \in Jobs, RetryJob(j, k)
  PROVE  JobTypes' /\ StepOK
  <1> DEFINE r == job[j]
             cn == r.cancel \/ r.status \in Active
             st == IF r.status = "queued" THEN "cancelled" ELSE r.status
             ed == IF r.status = "queued" THEN Stopped(r.editor) ELSE r.editor
             s == [r EXCEPT !.cancel = cn, !.status = st, !.editor = ed, !.retried = TRUE]
  <1>a. /\ r \in Rows /\ exec[j] \in Phases /\ token[j] \in BOOLEAN /\ pass[j] \in Passes
        /\ flying[j] \in Nat /\ answer[j] \in Answers /\ reviews[j] \in Nat
        /\ JobOK(r, exec[j], token[j], pass[j], j \in owed, flying[j], answer[j], reviews[j])
    BY Known
  <1>0. PICK c \in Candidates :
          job' = [job EXCEPT ![j].cancel = @ \/ Is(j, Active),
                             ![j].status = IF @ = "queued" THEN "cancelled" ELSE @,
                             ![j].editor = IF Is(j, {"queued"}) THEN Stopped(@) ELSE @,
                             ![j].retried = TRUE,
                             ![k] = FreshRow(headNow, job[j].auto, TRUE, c)]
    BY DEF RetryJob
  <1> DEFINE new == FreshRow(headNow, r.auto, TRUE, c)
  <1>1. /\ job[k].status = "absent" /\ r.status # "absent" /\ j # k /\ ~(r.claimed /\ r.status \in Active)
        /\ token' = Tripped({j}) /\ UNCHANGED <<flying, reviews, exec, pass, owed, answer>>
    BY DEF RetryJob, Vacant, Is, syncVars, hubVars
  <1>2. /\ token' \in [Jobs -> BOOLEAN]
        /\ \A i \in Jobs : token[i] => token'[i]
    BY <1>1, Tokens
  <1>3. job' = [i \in Jobs |-> job'[i]] /\ job'[k] = new /\ \A i \in Jobs \ {j, k} : job'[i] = job[i]
    BY <1>0 DEF JobTypes
  <1>4. job'[j] = s
    BY <1>0, <1>1, <1>a DEF JobTypes, Is, Rows
  <1>5. /\ cn \in BOOLEAN /\ st \in Statuses \ {"absent"} /\ ed \in Editors
        /\ r.editor = "succeeded" => ed = "succeeded"
        /\ r.status # "queued" => st = r.status /\ ed = r.editor
        /\ r.status = "queued" => st = "cancelled"
        /\ cn => r.cancel \/ r.status \in Active
    BY <1>1, <1>a DEF Rows, Statuses, Editors, Stopped
  <1> HIDE DEF cn, st, ed
  <1>6. s \in Rows /\ RowStep(r, s) /\ s.order = r.order
    BY <1>a, <1>5 DEF Rows, RowStep
  <1>7. Placed(s, exec[j], token'[j], pass[j], j \in owed, flying[j], answer[j], reviews[j])
    BY <1>a, <1>1, <1>2, <1>5 DEF Rows, JobOK, Placed, Active
  <1>8. Truthful(s, exec[j], pass[j], answer[j], reviews[j])
    BY <1>a, <1>5 DEF Rows, JobOK, Truthful
  <1>9. Once(s, exec[j], token'[j], flying[j], answer[j], reviews[j])
    BY <1>a, <1>1, <1>2, <1>5 DEF Rows, JobOK, Once, Active, Placed
  <1> HIDE DEF new, s
  <1>10. r.auto \in BOOLEAN
    BY <1>a DEF Rows
  <1>11. /\ new \in Rows /\ RowStep(job[k], new) /\ new.order = 0
         /\ JobOK(new, exec[k], token'[k], pass[k], k \in owed, flying[k], answer[k], reviews[k])
    <2> DEFINE x == r.auto
               y == TRUE
    <2>1. new = FreshRow(headNow, x, y, c) /\ x \in BOOLEAN /\ y \in BOOLEAN
      BY <1>10 DEF new
    <2>2. job[k].status = "absent"
      BY <1>1
    <2> HIDE DEF x, y
    <2> QED BY <2>1, <2>2, Queued
  <1>12. ASSUME NEW i \in Jobs
         PROVE  /\ job'[i] \in Rows /\ RowStep(job[i], job'[i])
                /\ JobOK(job'[i], exec[i], token'[i], pass[i], i \in owed, flying[i], answer[i], reviews[i])
                /\ job'[i].order \in {job[i].order, 0}
    <2>1. CASE i = k
      BY <1>3, <1>11, <2>1
    <2>2. CASE i = j
      BY <1>4, <1>6, <1>7, <1>8, <1>9, <2>2 DEF JobOK
    <2>3. CASE i \notin {j, k}
      <3>1. job'[i] = job[i]
        BY <1>3, <2>3
      <3> QED BY <1>2, <3>1, Known, Warned
    <2> QED BY <2>1, <2>2, <2>3
  <1>13. /\ exec' \in [Jobs -> Phases] /\ pass' \in [Jobs -> Passes] /\ owed' \subseteq Jobs
         /\ answer' \in [Jobs -> Answers]
    BY <1>1 DEF JobTypes
  <1> QED BY <1>1, <1>2, <1>3, <1>12, <1>13, Each

-------------------------------------------------------------------------------
(* All steps together. *)

\* The rest of the state, which belongs to no job.
RestTypes ==
    /\ last \in [order : Nat, head : Heads \cup {None}] /\ carried \in BOOLEAN
    /\ lock \in Jobs \cup {None} /\ headNow \in Heads /\ seen \in Heads \cup {None}
    /\ left \in [{"push", "poll", "crash", "dismiss", "command", "fault"} -> Nat]

\* The places in the publication order have an end, and no two jobs share one.
Bounded == \E b \in Nat : \A k \in Jobs : job[k].order <= b
Distinct == \A j, k \in Jobs : job[j].order = job[k].order /\ job[j].order # 0 => j = k

\* What the reviewers leave is what they may leave.
Reviewed == \A j \in Jobs : job[j].status # "absent" => job[j].cand \in Candidates

PubInv == JobTypes /\ RestTypes /\ JobsInv /\ Bounded /\ Distinct /\ Reviewed

\* A bounded set of numbers has a largest one.
LEMMA Largest ==
  ASSUME NEW S \in SUBSET Nat, S # {}, NEW b \in Nat, \A s \in S : s <= b
  PROVE  \E m \in S : \A s \in S : s <= m
  <1> DEFINE U == {u \in Nat : \A s \in S : s <= u}
  <1>1. IsWellFoundedOn(OpToRel(<, Nat), Nat)
    BY NatLessThanWellFounded
  <1>2. U \subseteq Nat /\ U # {}
    OBVIOUS
  <1> HIDE DEF U
  <1>3. PICK u \in U : \A y \in U : ~ (<<y, u>> \in OpToRel(<, Nat))
    BY <1>1, <1>2, WFMin
  <1>4. u \in Nat /\ \A s \in S : s <= u
    BY DEF U
  <1>5. ASSUME u \notin S PROVE FALSE
    <2>1. \A s \in S : s <= u - 1
      BY <1>4, <1>5
    <2>2. u - 1 \in Nat /\ u - 1 < u
      <3> PICK s \in S : TRUE
        OBVIOUS
      <3> QED BY <2>1, <1>4
    <2>3. u - 1 \in U
      BY <2>1, <2>2 DEF U
    <2>4. <<u - 1, u>> \in OpToRel(<, Nat)
      BY <2>2, <1>4 DEF OpToRel
    <2> QED BY <2>3, <2>4, <1>3
  <1> QED BY <1>4, <1>5

\* The next place is after every place that was given.
LEMMA NextPlace ==
  ASSUME JobTypes, Bounded
  PROVE  NextOrder \in Nat \ {0} /\ \A k \in Jobs : job[k].order < NextOrder
  <1> DEFINE S == {job[k].order : k \in Jobs}
  <1>1. \A k \in Jobs : job[k].order \in Nat
    BY DEF JobTypes, Rows
  <1>2. S \in SUBSET Nat
    BY <1>1
  <1>3. S # {}
    <2>1. 1 \in Jobs
      BY NumbersAssumption DEF Jobs
    <2> QED BY <2>1
  <1>4. PICK b \in Nat : \A k \in Jobs : job[k].order <= b
    BY DEF Bounded
  <1>5. \A s \in S : s <= b
    BY <1>4
  <1> HIDE DEF S
  <1>6. \E m \in S : \A s \in S : s <= m
    BY <1>2, <1>3, <1>5, Largest
  <1> DEFINE top == CHOOSE n \in S : \A o \in S : o <= n
  <1>7. top \in S /\ \A s \in S : s <= top
    BY <1>6
  <1>8. NextOrder = 1 + top
    BY DEF NextOrder, S
  <1> HIDE DEF top
  <1>9. top \in Nat
    BY <1>2, <1>7
  <1>10. ASSUME NEW k \in Jobs PROVE job[k].order < 1 + top
    <2>1. job[k].order \in S
      BY DEF S
    <2> QED BY <1>1, <1>7, <1>9, <2>1
  <1> QED BY <1>8, <1>9, <1>10

LEMMA OrdersStep ==
  ASSUME JobTypes, JobTypes', StepOK, Bounded, Distinct, Reviewed
  PROVE  Bounded' /\ Distinct' /\ Reviewed'
  <1>1. \A k \in Jobs : job[k].order \in Nat /\ job'[k].order \in Nat
    BY DEF JobTypes, Rows
  <1>2. NextOrder \in Nat \ {0} /\ \A k \in Jobs : job[k].order < NextOrder
    BY NextPlace
  <1>3. \A k \in Jobs : \/ job'[k].order \in {job[k].order, 0}
                        \/ job[k].order = 0 /\ job'[k].order = NextOrder
    BY DEF StepOK, RowStep
  <1>4. PICK j \in Jobs : \A k \in Jobs \ {j} : job'[k].order \in {job[k].order, 0}
    BY DEF StepOK
  <1>5. \A k \in Jobs : job'[k].order <= NextOrder
    BY <1>1, <1>2, <1>3
  <1>6. Bounded'
    <2>1. \E b \in Nat : \A k \in Jobs : job'[k].order <= b
      BY <1>2, <1>5
    <2> QED BY <2>1 DEF Bounded
  <1>7. ASSUME NEW i \in Jobs, NEW k \in Jobs, job'[i].order = job'[k].order, job'[i].order # 0, i # k
        PROVE  FALSE
    <2>1. CASE i # j /\ k # j
      BY <1>4, <1>7, <2>1 DEF Distinct
    <2>2. CASE i = j
      <3>1. job'[k].order = job[k].order /\ job[k].order # 0
        BY <1>4, <1>7, <2>2
      <3>2. job'[i].order = job[i].order
        BY <1>1, <1>2, <1>3, <1>7, <3>1
      <3> QED BY <1>7, <3>1, <3>2 DEF Distinct
    <2>3. CASE k = j
      <3>1. job'[i].order = job[i].order /\ job[i].order # 0
        BY <1>4, <1>7, <2>3
      <3>2. job'[k].order = job[k].order
        <4>1. job'[k].order # 0 /\ job'[k].order < NextOrder
          BY <1>2, <1>7, <3>1
        <4> QED BY <1>1, <1>2, <1>3, <4>1
      <3> QED BY <1>7, <3>1, <3>2 DEF Distinct
    <2> QED BY <2>1, <2>2, <2>3
  <1>8. Distinct'
    BY <1>7 DEF Distinct
  <1>9. Reviewed'
    <2>1. ASSUME NEW k \in Jobs, job'[k].status # "absent" PROVE job'[k].cand \in Candidates
      <3>1. RowStep(job[k], job'[k])
        BY DEF StepOK
      <3> QED BY <2>1, <3>1 DEF RowStep, Reviewed
    <2> QED BY <2>1 DEF Reviewed
  <1> QED BY <1>6, <1>8, <1>9

\* Steps that touch no job.
LEMMA Still ==
  ASSUME JobTypes, JobsInv, UNCHANGED <<job, exec, token, pass, owed, flying, answer, reviews>>
  PROVE  JobTypes' /\ StepOK
  <1>1. JobTypes'
    BY DEF JobTypes
  <1>2. ASSUME NEW k \in Jobs PROVE JobInv(k)' /\ RowStep(job[k], job'[k])
    BY <1>2 DEF JobsInv, JobInv, RowStep
  <1>3. 1 \in Jobs
    BY NumbersAssumption DEF Jobs
  <1> QED BY <1>1, <1>2, <1>3 DEF StepOK

LEMMA JobsStep ==
  ASSUME JobTypes, RestTypes, JobsInv, Bounded, [Next]_vars
  PROVE  JobTypes' /\ StepOK
  <1>0. headNow \in Heads /\ seen \in Heads \cup {None} /\ NextOrder \in Nat \ {0}
    BY NextPlace DEF RestTypes
  <1>1. CASE UNCHANGED vars
    BY <1>1, Still DEF vars, rowVars, runVars, syncVars, hubVars
  <1>2. CASE Push
    BY <1>2, Still DEF Push, rowVars, runVars, syncVars, hubVars
  <1>3. CASE Dismiss
    BY <1>3, Still DEF Dismiss, rowVars, runVars, syncVars, hubVars
  <1>4. CASE PollRead
    BY <1>4, Still DEF PollRead, rowVars, runVars, syncVars, hubVars
  <1>5. CASE PollApply
    BY <1>0, <1>5, PollStep
  <1>6. CASE Crash
    BY <1>6, CrashStep
  <1>7. ASSUME NEW j \in Jobs, Command(j) PROVE JobTypes' /\ StepOK
    BY <1>0, <1>7, CommandSteps, RetryStep DEF Command
  <1>8. ASSUME NEW j \in Jobs, ClaimJob(j) \/ Finish(j) PROVE JobTypes' /\ StepOK
    BY <1>8, ReviewSteps, FinishStep
  <1>9. ASSUME NEW j \in Jobs, Publish(j) PROVE JobTypes' /\ StepOK
    BY <1>0, <1>9, LockSteps, PublishSteps, DraftStep DEF Publish
  <1>10. ASSUME NEW j \in Jobs, Execute(j) PROVE JobTypes' /\ StepOK
    BY <1>9, <1>10, ReviewSteps, LockSteps DEF Execute
  <1>11. ASSUME NEW j \in Jobs, GitHub(j) PROVE JobTypes' /\ StepOK
    BY <1>11, HubSteps DEF GitHub
  <1>12. ASSUME NEW j \in Jobs, Project(j) PROVE JobTypes' /\ StepOK
    BY <1>12, PassSteps DEF Project
  <1> QED BY <1>1, <1>2, <1>3, <1>4, <1>5, <1>6, <1>7, <1>8, <1>10, <1>11, <1>12 DEF Next

-------------------------------------------------------------------------------
(* The last reviewed round, and the types of the rest. *)

\* The last reviewed round moves only to a round that is recorded as published, and
\* not back.
Recorded(j) == /\ last.order <= job[j].order
               /\ last' = [order |-> job[j].order, head |-> job[j].head]
               /\ job'[j].published /\ job'[j].order = job[j].order /\ job'[j].head = job[j].head

LEMMA Budget ==
  ASSUME RestTypes, NEW kind \in {"push", "poll", "crash", "dismiss", "command", "fault"}, Spend(kind)
  PROVE  left' \in [{"push", "poll", "crash", "dismiss", "command", "fault"} -> Nat]
  <1>1. left[kind] \in Nat /\ left[kind] > 0 /\ left' = [left EXCEPT ![kind] = left[kind] - 1]
    BY DEF RestTypes, Spend
  <1>2. left[kind] - 1 \in Nat
    BY <1>1
  <1> QED BY <1>1, <1>2 DEF RestTypes

LEMMA Guarded ==
  ASSUME RestTypes, NEW j \in Jobs, NEW e, Leave(j, e)
  PROVE  lock' \in Jobs \cup {None}
  BY DEF RestTypes, Leave

\* Executions, up to their publication.
LEMMA RunRest ==
  ASSUME JobTypes, RestTypes, NEW j \in Jobs, ClaimJob(j) \/ StartRun(j) \/ ReviewFails(j) \/ SkipEditor(j) \/ StartEditor(j) \/ EditorSucceeds(j) \/ EditorFails(j) \/ Timeout(j) \/ Finish(j)
  PROVE  RestTypes' /\ last' = last
  <1>1. CASE ClaimJob(j)
    BY <1>1 DEF ClaimJob, RestTypes, rowVars, runVars, hubVars, syncVars
  <1>2. CASE StartRun(j)
    BY <1>2 DEF StartRun, RestTypes, rowVars, runVars, hubVars, syncVars
  <1>3. CASE ReviewFails(j)
    BY <1>3, Guarded DEF ReviewFails, RestTypes, Fails, rowVars, runVars, hubVars, syncVars
  <1>4. CASE SkipEditor(j)
    BY <1>4 DEF SkipEditor, RestTypes, rowVars, runVars, hubVars, syncVars
  <1>5. CASE StartEditor(j)
    BY <1>5 DEF StartEditor, RestTypes, rowVars, runVars, hubVars, syncVars
  <1>6. CASE EditorSucceeds(j)
    BY <1>6 DEF EditorSucceeds, RestTypes, rowVars, runVars, hubVars, syncVars
  <1>7. CASE EditorFails(j)
    BY <1>7, Guarded DEF EditorFails, RestTypes, Fails, rowVars, runVars, hubVars, syncVars
  <1>8. CASE Timeout(j)
    BY <1>8, Guarded DEF Timeout, RestTypes, rowVars, runVars, hubVars, syncVars
  <1>9. CASE Finish(j)
    BY <1>9 DEF Finish, RestTypes, rowVars, runVars, hubVars, syncVars
  <1> QED BY <1>1, <1>2, <1>3, <1>4, <1>5, <1>6, <1>7, <1>8, <1>9

\* The publication, up to its record.
LEMMA PublishRest ==
  ASSUME JobTypes, RestTypes, NEW j \in Jobs, AcquireLock(j) \/ Validate(j) \/ ValidateDraft(j) \/ ClaimPublication(j) \/ ClaimRefused(j) \/ PrepareVerdict(j) \/ Dispatch(j) \/ DispatchRefused(j) \/ Accepted(j) \/ Rejected(j) \/ Ambiguous(j) \/ TryAgain(j) \/ GiveUp(j)
  PROVE  RestTypes' /\ last' = last
  <1>1. CASE AcquireLock(j)
    BY <1>1, Guarded DEF AcquireLock, RestTypes, Fails, rowVars, runVars, hubVars, syncVars
  <1>2. CASE Validate(j)
    BY <1>2, Guarded DEF Validate, RestTypes, Fails, rowVars, runVars, hubVars, syncVars
  <1>3. CASE ValidateDraft(j)
    BY <1>3, Guarded DEF ValidateDraft, RestTypes, rowVars, runVars, hubVars, syncVars
  <1>4. CASE ClaimPublication(j)
    BY <1>4 DEF ClaimPublication, RestTypes, rowVars, runVars, hubVars, syncVars
  <1>5. CASE ClaimRefused(j)
    BY <1>5, Guarded DEF ClaimRefused, RestTypes, rowVars, runVars, hubVars, syncVars
  <1>6. CASE PrepareVerdict(j)
    BY <1>6, Guarded DEF PrepareVerdict, RestTypes, rowVars, runVars, hubVars, syncVars
  <1>7. CASE Dispatch(j)
    BY <1>7 DEF Dispatch, RestTypes, rowVars, runVars, hubVars, syncVars
  <1>8. CASE DispatchRefused(j)
    BY <1>8, Guarded DEF DispatchRefused, RestTypes, rowVars, runVars, hubVars, syncVars
  <1>9. CASE Accepted(j)
    BY <1>9 DEF Accepted, RestTypes, Read, rowVars, runVars, hubVars, syncVars
  <1>10. CASE Rejected(j)
    BY <1>10, Guarded DEF Rejected, RestTypes, Read, rowVars, runVars, hubVars, syncVars
  <1>11. CASE Ambiguous(j)
    BY <1>11, Guarded DEF Ambiguous, RestTypes, Read, rowVars, runVars, hubVars, syncVars
  <1>12. CASE TryAgain(j)
    BY <1>12, Guarded DEF TryAgain, RestTypes, rowVars, runVars, hubVars, syncVars
  <1>13. CASE GiveUp(j)
    BY <1>13, Guarded DEF GiveUp, RestTypes, rowVars, runVars, hubVars, syncVars
  <1> QED BY <1>1, <1>2, <1>3, <1>4, <1>5, <1>6, <1>7, <1>8, <1>9, <1>10, <1>11, <1>12, <1>13

\* GitHub, passes and commands.
LEMMA HubRest ==
  ASSUME JobTypes, RestTypes, NEW j \in Jobs, Create(j) \/ Refuse(j) \/ Overdue(j) \/ PassNothing(j) \/ PassLookup(j) \/ Absent(j) \/ PassEnds(j) \/ Request(j) \/ Cancel(j) \/ RetryEditor(j)
  PROVE  RestTypes' /\ last' = last
  <1>1. CASE Create(j)
    BY <1>1 DEF Create, RestTypes, Handled, rowVars, runVars, hubVars, syncVars
  <1>2. CASE Refuse(j)
    BY <1>2 DEF Refuse, RestTypes, Handled, rowVars, runVars, hubVars, syncVars
  <1>3. CASE Overdue(j)
    BY <1>3 DEF Overdue, RestTypes, rowVars, runVars, hubVars, syncVars
  <1>4. CASE PassNothing(j)
    BY <1>4, Budget DEF PassNothing, RestTypes, Written, rowVars, runVars, hubVars, syncVars
  <1>5. CASE PassLookup(j)
    BY <1>5, Budget DEF PassLookup, RestTypes, rowVars, runVars, hubVars, syncVars
  <1>6. CASE Absent(j)
    BY <1>6 DEF Absent, RestTypes, rowVars, runVars, hubVars, syncVars
  <1>7. CASE PassEnds(j)
    BY <1>7, Budget DEF PassEnds, RestTypes, Written, rowVars, runVars, hubVars, syncVars
  <1>8. CASE Request(j)
    BY <1>8 DEF Request, RestTypes, rowVars, runVars, hubVars, syncVars
  <1>9. CASE Cancel(j)
    BY <1>9, Budget DEF Cancel, RestTypes, rowVars, runVars, hubVars, syncVars
  <1>10. CASE RetryEditor(j)
    BY <1>10, Budget DEF RetryEditor, RestTypes, rowVars, runVars, hubVars, syncVars
  <1> QED BY <1>1, <1>2, <1>3, <1>4, <1>5, <1>6, <1>7, <1>8, <1>9, <1>10

\* A record of a publication.
LEMMA RecordRest ==
  ASSUME JobTypes, RestTypes, NEW j \in Jobs, RecordPublication(j) \/ Reconcile(j)
  PROVE  RestTypes' /\ (last' = last \/ Recorded(j))
  <1>0. job[j].order \in Nat /\ job[j].head \in Heads \cup {None}
    BY DEF JobTypes, Rows
  <1>1. CASE RecordPublication(j)
    <2>1. PICK current \in BOOLEAN : Advance(j, current)
      BY <1>1 DEF RecordPublication
    <2>2. job' = [job EXCEPT ![j].accepted = TRUE, ![j].published = TRUE]
      BY <1>1 DEF RecordPublication
    <2>3. job'[j].published /\ job'[j].order = job[j].order /\ job'[j].head = job[j].head
      BY <2>2 DEF JobTypes, Rows
    <2>4. last' = last \/ Recorded(j)
      BY <2>1, <2>3 DEF Advance, Recorded
    <2>5. last' \in [order : Nat, head : Heads \cup {None}]
      BY <1>0, <2>4 DEF RestTypes, Recorded
    <2>6. carried' \in BOOLEAN
      BY <1>1 DEF RecordPublication, RestTypes
    <2>7. lock' \in Jobs \cup {None}
      BY <1>1, Guarded DEF RecordPublication
    <2>8. UNCHANGED <<headNow, seen, left>>
      BY <1>1 DEF RecordPublication, hubVars
    <2> QED BY <2>4, <2>5, <2>6, <2>7, <2>8 DEF RestTypes
  <1>2. CASE Reconcile(j) /\ job[j].claimed
    <2>1. PICK current \in BOOLEAN : Advance(j, current) /\ carried' \in IF current THEN BOOLEAN ELSE {carried, TRUE}
      BY <1>2 DEF Reconcile
    <2>2. job' = [job EXCEPT ![j].status = IF @ = "failed" /\ ~job[j].accepted
                                           THEN "succeeded" ELSE @,
                             ![j].dispatched = TRUE, ![j].accepted = TRUE,
                             ![j].published = TRUE]
      BY <1>2 DEF Reconcile
    <2>3. job'[j].published /\ job'[j].order = job[j].order /\ job'[j].head = job[j].head
      BY <2>2 DEF JobTypes, Rows
    <2>4. last' = last \/ Recorded(j)
      BY <2>1, <2>3 DEF Advance, Recorded
    <2>5. last' \in [order : Nat, head : Heads \cup {None}]
      BY <1>0, <2>4 DEF RestTypes, Recorded
    <2>6. carried' \in BOOLEAN
      BY <2>1 DEF RestTypes
    <2>7. UNCHANGED <<lock, headNow, seen, left>>
      BY <1>2 DEF Reconcile, runVars, hubVars
    <2> QED BY <2>4, <2>5, <2>6, <2>7 DEF RestTypes
  <1>3. CASE Reconcile(j) /\ ~job[j].claimed
    BY <1>3 DEF Reconcile, RestTypes, rowVars, runVars, hubVars
  <1> QED BY <1>1, <1>2, <1>3

\* Steps that are not a job's, or two jobs'.
LEMMA OtherRest ==
  ASSUME JobTypes, RestTypes,
         \/ Push \/ Dismiss \/ PollRead \/ PollApply \/ Crash \/ UNCHANGED vars
         \/ \E j, k \in Jobs : RetryJob(j, k)
  PROVE  RestTypes' /\ last' = last
  <1>1. CASE Push
    BY <1>1, Budget DEF Push, RestTypes, rowVars, runVars, hubVars, syncVars
  <1>2. CASE Dismiss
    BY <1>2, Budget DEF Dismiss, RestTypes, rowVars, runVars, hubVars, syncVars
  <1>3. CASE PollRead
    BY <1>3, Budget DEF PollRead, RestTypes, rowVars, runVars, hubVars, syncVars
  <1>4. CASE PollApply
    BY <1>4 DEF PollApply, RestTypes, rowVars, runVars, hubVars, syncVars
  <1>5. CASE Crash
    BY <1>5, Budget DEF Crash, RestTypes, rowVars, runVars, hubVars, syncVars
  <1>6. CASE UNCHANGED vars
    BY <1>6 DEF vars, RestTypes, rowVars, runVars, hubVars, syncVars
  <1>7. ASSUME NEW j \in Jobs, NEW k \in Jobs, RetryJob(j, k) PROVE RestTypes' /\ last' = last
    BY <1>7, Budget DEF RetryJob, RestTypes, rowVars, runVars, hubVars, syncVars
  <1> QED BY <1>1, <1>2, <1>3, <1>4, <1>5, <1>6, <1>7

LEMMA RestStep ==
  ASSUME JobTypes, RestTypes, [Next]_vars
  PROVE  RestTypes' /\ (last' = last \/ \E j \in Jobs : Recorded(j))
  <1>1. CASE Push \/ Dismiss \/ PollRead \/ PollApply \/ Crash \/ UNCHANGED vars
    BY <1>1, OtherRest
  <1>2. ASSUME NEW j \in Jobs, Command(j) PROVE RestTypes' /\ last' = last
    BY <1>2, HubRest, OtherRest DEF Command
  <1>3. ASSUME NEW j \in Jobs, ClaimJob(j) \/ Finish(j) \/ GitHub(j) PROVE RestTypes' /\ last' = last
    BY <1>3, RunRest, HubRest DEF GitHub
  <1>4. ASSUME NEW j \in Jobs, Execute(j) PROVE RestTypes' /\ (last' = last \/ Recorded(j))
    BY <1>4, RunRest, PublishRest, RecordRest DEF Execute, Publish
  <1>5. ASSUME NEW j \in Jobs, Project(j) PROVE RestTypes' /\ (last' = last \/ Recorded(j))
    BY <1>5, HubRest, RecordRest DEF Project
  <1> QED BY <1>1, <1>2, <1>3, <1>4, <1>5 DEF Next

-------------------------------------------------------------------------------
(* The theorems. *)

LEMMA Begins ==
  ASSUME Init
  PROVE  PubInv
  <1>1. NoRow \in Rows
    BY DEF NoRow, Rows, Statuses, Editors, Dues
  <1>2. JobTypes
    BY <1>1 DEF Init, JobTypes, Phases, Passes, Answers
  <1>3. RestTypes
    BY NumbersAssumption DEF Init, RestTypes
  <1>4. JobsInv
    <2>1. ASSUME NEW j \in Jobs PROVE JobInv(j)
      <3>1. /\ job[j] = NoRow /\ exec[j] = "none" /\ token[j] = FALSE /\ pass[j] = "idle" /\ j \notin owed
            /\ flying[j] = 0 /\ answer[j] = "none" /\ reviews[j] = 0
        BY DEF Init
      <3> QED BY <3>1 DEF JobInv, JobOK, Placed, Truthful, Once, Early, NoRow
    <2> QED BY <2>1 DEF JobsInv
  <1>5. Bounded /\ Distinct /\ Reviewed
    <2>1. \A k \in Jobs : job[k].order = 0 /\ job[k].status = "absent"
      BY DEF Init, NoRow
    <2>2. \E b \in Nat : \A k \in Jobs : job[k].order <= b
      BY <2>1
    <2> QED BY <2>1, <2>2 DEF Bounded, Distinct, Reviewed
  <1> QED BY <1>2, <1>3, <1>4, <1>5 DEF PubInv

LEMMA Keeps ==
  ASSUME PubInv, [Next]_vars
  PROVE  PubInv'
  <1>1. JobTypes' /\ StepOK
    BY JobsStep DEF PubInv
  <1>2. JobsInv'
    BY <1>1 DEF StepOK, JobsInv
  <1>3. Bounded' /\ Distinct' /\ Reviewed'
    BY <1>1, OrdersStep DEF PubInv
  <1>4. RestTypes'
    BY RestStep DEF PubInv
  <1> QED BY <1>1, <1>2, <1>3, <1>4 DEF PubInv

LEMMA Always == Spec => []PubInv
  <1>1. Init => PubInv
    BY Begins
  <1>2. PubInv /\ [Next]_vars => PubInv'
    BY Keeps
  <1> QED BY <1>1, <1>2, PTL DEF Spec

\* The rows, the executions, the passes and what GitHub holds keep their types.
THEOREM TypeCorrect == Spec => []TypeOK
  <1>1. PubInv => TypeOK
    BY DEF PubInv, JobTypes, RestTypes, TypeOK, Answers
  <1> QED BY <1>1, Always, PTL

\* Whatever crashes, is retried, cancelled, superseded, answered late or not at all,
\* a row that says accepted, published or succeeded has a review on the pull request.
THEOREM RowsTellTheTruth == Spec => []ClaimsOfPublicationAreTrue
  <1>1. PubInv => ClaimsOfPublicationAreTrue
    BY DEF PubInv, JobsInv, JobInv, JobOK, Truthful, ClaimsOfPublicationAreTrue, Is
  <1> QED BY <1>1, Always, PTL

\* Late reconciliations never move the last reviewed round back.
THEOREM LastReviewedOnlyAdvances == Spec => LastReviewedAdvances
  <1>1. PubInv /\ [Next]_vars => [last'.order >= last.order]_vars
    <2> SUFFICES ASSUME PubInv, [Next]_vars PROVE last'.order >= last.order
      OBVIOUS
    <2>1. last.order \in Nat /\ (last' = last \/ \E j \in Jobs : Recorded(j))
      BY RestStep DEF PubInv, RestTypes
    <2>2. CASE last' = last
      BY <2>1, <2>2
    <2>3. ASSUME NEW j \in Jobs, Recorded(j) PROVE last'.order >= last.order
      <3>1. job[j].order \in Nat
        BY DEF PubInv, JobTypes, Rows
      <3> QED BY <2>1, <2>3, <3>1 DEF Recorded
    <2> QED BY <2>1, <2>2, <2>3
  <1> QED BY <1>1, Always, PTL DEF Spec, LastReviewedAdvances

\* A job whose reviewers leave something for the final editor never puts a second
\* review on the pull request, nor sends a POST while another may still land.
THEOREM OneReviewPerEditedJob ==
    Spec => [](\A j \in Jobs : job[j].cand => reviews[j] + flying[j] <= 1)
  <1>1. PubInv => \A j \in Jobs : job[j].cand => reviews[j] + flying[j] <= 1
    <2> SUFFICES ASSUME PubInv, NEW j \in Jobs, job[j].cand PROVE reviews[j] + flying[j] <= 1
      OBVIOUS
    <2> QED BY DEF PubInv, JobTypes, JobsInv, JobInv, JobOK, Once
  <1> QED BY <1>1, Always, PTL

\* When the reviewers of every round leave something for the editor, no job ever puts
\* a second review on the pull request.
THEOREM OneReviewPerJob == Candidates = {TRUE} => (Spec => []NoSecondReview)
  <1> SUFFICES ASSUME Candidates = {TRUE} PROVE Spec => []NoSecondReview
    OBVIOUS
  <1>1. PubInv => NoSecondReview
    <2> SUFFICES ASSUME PubInv, NEW j \in Jobs PROVE reviews[j] + flying[j] <= 1
      BY DEF NoSecondReview
    <2>1. flying[j] \in Nat /\ reviews[j] \in Nat /\ JobInv(j)
      BY DEF PubInv, JobTypes, JobsInv
    <2>2. CASE job[j].status = "absent"
      BY <2>1, <2>2 DEF JobInv, JobOK, Placed
    <2>3. CASE job[j].status # "absent"
      BY <2>1, <2>3 DEF PubInv, Reviewed, JobInv, JobOK, Once
    <2> QED BY <2>2, <2>3
  <1> QED BY <1>1, Always, PTL

\* Under the same condition a job that says it was cancelled has no review on the
\* pull request and none on its way.
THEOREM CancelledMeansUnpublished == Candidates = {TRUE} => (Spec => []CancelledIsUnpublished)
  <1> SUFFICES ASSUME Candidates = {TRUE} PROVE Spec => []CancelledIsUnpublished
    OBVIOUS
  <1>1. PubInv => CancelledIsUnpublished
    <2> SUFFICES ASSUME PubInv, NEW j \in Jobs, job[j].status = "cancelled"
                 PROVE  reviews[j] = 0 /\ flying[j] = 0
      BY DEF CancelledIsUnpublished, Is
    <2>1. flying[j] \in Nat /\ reviews[j] \in Nat /\ JobInv(j) /\ job[j].cand
      BY DEF PubInv, JobTypes, JobsInv, Reviewed
    <2>2. ~(reviews[j] + flying[j] >= 1)
      BY <2>1 DEF JobInv, JobOK, Once
    <2> QED BY <2>1, <2>2
  <1> QED BY <1>1, Always, PTL

\* And the last reviewed round is one that was published, at a place of the order no
\* other round has.
THEOREM LastReviewedRoundExists == Candidates = {TRUE} => (Spec => []LastReviewedIsReal)
  <1> SUFFICES ASSUME Candidates = {TRUE} PROVE Spec => []LastReviewedIsReal
    OBVIOUS
  <1> DEFINE Holds == last.order # 0 => \E j \in Jobs : /\ job[j].order = last.order
                                                        /\ job[j].head = last.head /\ job[j].published
  <1>1. Init => Holds
    BY DEF Init
  <1>2. PubInv /\ Holds /\ [Next]_vars => Holds'
    <2> SUFFICES ASSUME PubInv, Holds, [Next]_vars, last'.order # 0
                 PROVE  \E j \in Jobs : /\ job'[j].order = last'.order /\ job'[j].head = last'.head
                                        /\ job'[j].published
      OBVIOUS
    <2>1. StepOK /\ (last' = last \/ \E j \in Jobs : Recorded(j))
      BY JobsStep, RestStep DEF PubInv
    <2>2. CASE last' = last
      <3>1. PICK j \in Jobs : job[j].order = last.order /\ job[j].head = last.head /\ job[j].published
        BY <2>2
      <3>2. JobInv(j) /\ RowStep(job[j], job'[j])
        BY <2>1 DEF PubInv, JobsInv, StepOK
      <3>3. job[j].status # "absent"
        BY <3>1, <3>2 DEF JobInv, JobOK, Placed, NoRow
      <3>4. job[j].cand
        BY <3>3 DEF PubInv, Reviewed
      <3>5. job'[j].published /\ job'[j].order = job[j].order /\ job'[j].head = job[j].head
        BY <3>1, <3>2, <3>3, <3>4 DEF RowStep
      <3> QED BY <2>2, <3>1, <3>5
    <2>3. ASSUME NEW j \in Jobs, Recorded(j)
          PROVE  job'[j].order = last'.order /\ job'[j].head = last'.head /\ job'[j].published
      BY <2>3 DEF Recorded
    <2> QED BY <2>1, <2>2, <2>3
  <1>3. PubInv /\ Holds => LastReviewedIsReal
    <2> SUFFICES ASSUME PubInv, Holds, last.order # 0
                 PROVE  \E j \in Jobs : /\ job[j].order = last.order /\ job[j].head = last.head
                                        /\ job[j].published /\ reviews[j] >= 1
                                        /\ \A k \in Jobs \ {j} : job[k].order # last.order
      BY DEF LastReviewedIsReal
    <2>1. PICK j \in Jobs : job[j].order = last.order /\ job[j].head = last.head /\ job[j].published
      OBVIOUS
    <2>2. reviews[j] >= 1
      BY <2>1 DEF PubInv, JobsInv, JobInv, JobOK, Truthful
    <2>3. \A k \in Jobs \ {j} : job[k].order # last.order
      BY <2>1 DEF PubInv, Distinct
    <2> QED BY <2>1, <2>2, <2>3
  <1> QED BY <1>1, <1>2, <1>3, Always, PTL DEF Spec

===============================================================================
