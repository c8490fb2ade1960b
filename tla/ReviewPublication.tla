--------------------------- MODULE ReviewPublication ---------------------------
(***************************************************************************)
(* Code-review jobs of one pull request and the publication of their       *)
(* reviews on GitHub (trouve-core review.rs and store.rs): the queue, one  *)
(* execution per claimed job, the publication claim / dispatch / accept    *)
(* flags, the projection pass that reconciles an ambiguous publication by  *)
(* its marker, retries, cancellation, supersession and restart.            *)
(*                                                                         *)
(* A job is its rowid.  Generations are assigned MAX + 1 per head at       *)
(* insertion, so "a newer generation of the same head" is a larger rowid   *)
(* with that head.  Every store call is one transaction and one action;    *)
(* everything between two store calls or two requests interleaves.         *)
(***************************************************************************)
EXTENDS Integers, FiniteSets

CONSTANTS
    MaxJobs,        \* bound: rows of code_review_jobs for the pull request
    Heads,          \* head revisions the author pushes
    Workers,        \* effective_code_review_job_concurrency
    Confirmations,  \* REVIEW_PUBLICATION_ABSENCE_CONFIRMATIONS
    Candidates,     \* what the reviewers may leave for the final editor: something or not
    MaxPushes,      \* bound: pushes
    MaxPolls,       \* bound: listings of the poller
    MaxCrashes,     \* bound: restarts of the server
    MaxDismissals,  \* bound: dismissals of carried findings
    MaxFaults,      \* bound: requests of projection passes that fail
    MaxCommands     \* bound: cancellations and retries

ASSUME NumbersAssumption ==
    /\ MaxJobs \in Nat \ {0} /\ Workers \in Nat \ {0} /\ Confirmations \in Nat \ {0}
    /\ MaxPushes \in Nat /\ MaxPolls \in Nat /\ MaxCrashes \in Nat
    /\ MaxDismissals \in Nat /\ MaxCommands \in Nat /\ MaxFaults \in Nat
ASSUME HeadsAssumption == Heads # {} /\ 0 \notin Heads
ASSUME CandidatesAssumption == Candidates \subseteq BOOLEAN /\ Candidates # {}

VARIABLES
    job,       \* the rows of code_review_jobs, with their latest coordinator task
    last,      \* code_review_pr_state: last reviewed order and head
    carried,   \* the pull has open findings of earlier rounds
    exec,      \* where the execution of each job is
    token,     \* its cancellation token, while registered in `running`
    lock,      \* holder of the pull's publication lock, or 0
    pass,      \* where the projection pass over each job is
    owed,      \* jobs whose finished execution has yet to project them
    headNow,   \* GitHub: the head of the pull request
    seen,      \* the head in the listing the poller is working through, or 0
    flying,    \* GitHub: review POSTs sent and not yet handled
    answer,    \* the response the execution is waiting for
    reviews,   \* GitHub: reviews that carry the job's marker
    left       \* what is left of each bound

rowVars == <<job, last, carried>>
runVars == <<exec, token, lock>>
hubVars == <<headNow, flying, answer, reviews>>
syncVars == <<pass, owed>>
vars == <<rowVars, runVars, syncVars, seen, hubVars, left>>

Jobs == 1 .. MaxJobs
None == 0
Statuses == {"absent", "queued", "running", "succeeded", "failed", "cancelled", "stale"}
Active == {"queued", "running"}
Terminal == {"succeeded", "failed", "cancelled", "stale"}
Editors == {"none", "queued", "running", "succeeded", "failed", "cancelled", "skipped"}
Dues == {"none", "retry", "final"}
Rows == [status : Statuses, head : Heads \cup {None}, auto : BOOLEAN, again : BOOLEAN,
         cand : BOOLEAN, cancel : BOOLEAN, claimed : BOOLEAN, dispatched : BOOLEAN,
         accepted : BOOLEAN, published : BOOLEAN, order : Nat, editor : Editors,
         misses : Nat, due : Dues, retried : BOOLEAN]
Phases == {"none", "claimed", "review", "editing", "locking", "validate", "claim",
           "verdict", "manifest", "posting", "refused", "record", "ok", "erred", "stale",
           "timedout"}
Passes == {"idle", "found", "absent", "broken", "done"}

NoRow == [status |-> "absent", head |-> None, auto |-> FALSE, again |-> FALSE,
          cand |-> FALSE, cancel |-> FALSE, claimed |-> FALSE, dispatched |-> FALSE,
          accepted |-> FALSE, published |-> FALSE, order |-> 0, editor |-> "none",
          misses |-> 0, due |-> "none", retried |-> FALSE]

Spend(kind) == left[kind] > 0 /\ left' = [left EXCEPT ![kind] = @ - 1]

-------------------------------------------------------------------------------
(* What the queries select. *)

Is(j, statuses) == job[j].status \in statuses

\* A later round of the same head that is queued, running or succeeded.
Overtaken(j) == \E k \in Jobs : /\ k > j /\ job[k].head = job[j].head
                                /\ Is(k, {"queued", "running", "succeeded"})

\* CURRENT_CODE_REVIEW_JOB_PREDICATE
Current(j) == /\ Is(j, {"running"}) /\ ~job[j].cancel /\ ~job[j].claimed
              /\ ~Overtaken(j)

\* The condition prepare_code_review_publication_verdict updates under.
Publishable(j) == /\ job[j].claimed /\ Is(j, {"running"}) /\ ~job[j].cancel
                  /\ ~job[j].published /\ ~Overtaken(j)

\* newer_code_review_publication_predicate
LaterPublication(k, j) == \/ job[k].order > job[j].order
                          \/ job[k].order = job[j].order /\ k > j

Outranked(j) == \E k \in Jobs \ {j} : /\ LaterPublication(k, j)
                                      /\ job[k].accepted \/ job[k].published
RivalPending(j) == \E k \in Jobs \ {j} : /\ LaterPublication(k, j)
                                         /\ ~job[k].accepted /\ ~job[k].published
                                         /\ job[k].claimed \/ job[k].dispatched

NextOrder == LET orders == {job[k].order : k \in Jobs} IN
             1 + CHOOSE n \in orders : \A o \in orders : o <= n

\* cancel_active_code_review_tasks, for the coordinator's latest task.
Stopped(editor) == IF editor \in {"queued", "running"} THEN "cancelled" ELSE editor

-------------------------------------------------------------------------------
Init ==
    /\ job = [j \in Jobs |-> NoRow]
    /\ last = [order |-> 0, head |-> None]
    /\ carried \in BOOLEAN
    /\ exec = [j \in Jobs |-> "none"] /\ token = [j \in Jobs |-> FALSE] /\ lock = None
    /\ pass = [j \in Jobs |-> "idle"] /\ owed = {}
    /\ headNow \in Heads /\ seen = None
    /\ flying = [j \in Jobs |-> 0] /\ answer = [j \in Jobs |-> "none"]
    /\ reviews = [j \in Jobs |-> 0]
    /\ left = [push |-> MaxPushes, poll |-> MaxPolls, crash |-> MaxCrashes, dismiss |-> MaxDismissals,
               command |-> MaxCommands, fault |-> MaxFaults]

-------------------------------------------------------------------------------
(* Requests, polling and the people around the pull request. *)

Push == \E h \in Heads \ {headNow} :
    /\ Spend("push") /\ headNow' = h
    /\ UNCHANGED <<rowVars, runVars, syncVars, seen, flying, answer, reviews>>

\* Somebody dismisses or resolves the last open finding of the earlier rounds.
Dismiss ==
    /\ carried /\ Spend("dismiss") /\ carried' = FALSE
    /\ UNCHANGED <<job, last, runVars, syncVars, seen, hubVars>>

FreshRow(h, isAuto, isRetry, hasCandidates) ==
    [NoRow EXCEPT !.status = "queued", !.head = h, !.auto = isAuto, !.again = isRetry,
                  !.cand = hasCandidates]

Vacant(k) == Is(k, {"absent"}) /\ \A i \in Jobs : i < k => ~Is(i, {"absent"})

\* request_code_review: a new job for the head it reads.
Request(k) == \E c \in Candidates :
    /\ Vacant(k)
    /\ job' = [job EXCEPT ![k] = FreshRow(headNow, FALSE, FALSE, c)]
    /\ UNCHANGED <<last, carried, runVars, syncVars, seen, hubVars, left>>

\* The listing of open pull requests, read some time before it is worked through.
PollRead == /\ seen = None /\ Spend("poll") /\ seen' = headNow
            /\ UNCHANGED <<rowVars, runVars, syncVars, hubVars>>

ByDraft(j) == Is(j, Active) /\ job[j].auto /\ ~job[j].again /\ ~job[j].claimed
ByRevision(j) == Is(j, Active) /\ job[j].head # seen

\* supersede_automatic_code_review_jobs_for_draft leaves tasks alone,
\* supersede_code_review_jobs stops them; both trip the tokens of running jobs.
Superseded(draft) ==
    [j \in Jobs |->
        IF draft /\ ByDraft(j) THEN [job[j] EXCEPT !.status = "stale"]
        ELSE IF ByRevision(j)
             THEN [job[j] EXCEPT !.status = "stale", !.editor = Stopped(@)]
             ELSE job[j]]

RevisionTried == \E j \in Jobs : /\ job[j].head = seen /\ job[j].auto
                                 /\ Is(j, {"queued", "running", "succeeded", "failed"})

Registered(j) == exec[j] \notin {"none", "claimed"}
Tripped(which) == [j \in Jobs |-> token[j] \/ (j \in which /\ Registered(j))]

\* poll_code_review_repository over this pull request: supersede, then an automatic
\* job for a revision nobody tried.  One action; a base ref that changes by itself is
\* left out.
PollApply == \E draft \in BOOLEAN :
    LET after == Superseded(draft)
        hit == {j \in Jobs : (draft /\ ByDraft(j)) \/ ByRevision(j)}
    IN
    /\ seen # None /\ seen' = None
    /\ \/ /\ draft \/ RevisionTried \/ \A k \in Jobs : ~Vacant(k)
          /\ job' = after
       \/ \E k \in Jobs, c \in Candidates :
             /\ ~draft /\ ~RevisionTried /\ Vacant(k)
             /\ job' = [after EXCEPT ![k] = FreshRow(seen, TRUE, FALSE, c)]
    /\ token' = Tripped(hit)
    /\ UNCHANGED <<last, carried, exec, lock, syncVars, hubVars, left>>

\* Mutant: a publication does not stand in the way of a cancellation.
CancelWhilePublishing(j) ==
    /\ Spend("command") /\ Is(j, Active)
    /\ job' = [job EXCEPT ![j].status = IF @ = "queued" THEN "cancelled" ELSE @,
                          ![j].cancel = TRUE]
    /\ token' = Tripped({j})
    /\ UNCHANGED <<last, carried, exec, lock, syncVars, seen, hubVars>>

\* request_code_review_job_cancel and the token it trips.  A claimed publication
\* refuses the cancellation.
Cancel(j) ==
    /\ Spend("command")
    /\ \/ /\ Is(j, {"queued"})
          /\ job' = [job EXCEPT ![j].status = "cancelled", ![j].cancel = TRUE,
                                ![j].editor = Stopped(@)]
       \/ /\ Is(j, {"running"}) /\ ~job[j].claimed
          /\ job' = [job EXCEPT ![j].cancel = TRUE]
    /\ token' = Tripped({j})
    /\ UNCHANGED <<last, carried, exec, lock, syncVars, seen, hubVars>>

\* retry_code_review_job: stop the predecessor and queue its one replacement, unless
\* it is publishing.
RetryJob(j, k) == \E c \in Candidates :
    /\ Spend("command") /\ Vacant(k) /\ ~Is(j, {"absent"}) /\ ~job[j].retried
    /\ ~(job[j].claimed /\ Is(j, Active))
    /\ job' = [job EXCEPT ![j].cancel = @ \/ Is(j, Active),
                          ![j].status = IF @ = "queued" THEN "cancelled" ELSE @,
                          ![j].editor = IF Is(j, {"queued"}) THEN Stopped(@) ELSE @,
                          ![j].retried = TRUE,
                          ![k] = FreshRow(headNow, job[j].auto, TRUE, c)]
    /\ token' = Tripped({j})
    /\ UNCHANGED <<last, carried, exec, lock, syncVars, seen, hubVars>>

\* retry_code_review_final_editor: the same job again, from its failed coordinator.
RetryEditor(j) ==
    /\ Spend("command")
    /\ Is(j, {"failed", "cancelled"}) /\ job[j].editor \in {"failed", "cancelled"}
    /\ job' = [job EXCEPT ![j].status = "queued", ![j].editor = "queued",
                          ![j].cancel = FALSE, ![j].claimed = FALSE]
    /\ UNCHANGED <<last, carried, runVars, syncVars, seen, hubVars>>

-------------------------------------------------------------------------------
(* The execution of a job: run_code_review_job and execute_code_review. *)

Goto(j, e) == exec' = [exec EXCEPT ![j] = e]

\* Leaving execute_code_review drops the publication guard.
Leave(j, e) == Goto(j, e) /\ lock' = IF lock = j THEN None ELSE lock

\* Where an error ends: one that came of a tripped token is marked stale.
Fails(j) == Leave(j, IF token[j] THEN "stale" ELSE "erred")

\* claim_code_review_job: the oldest queued row, with a clean publication record.
ClaimJob(j) ==
    /\ Is(j, {"queued"}) /\ \A k \in Jobs : k < j => ~Is(k, {"queued"})
    /\ exec[j] = "none" /\ Cardinality({k \in Jobs : exec[k] # "none"}) < Workers
    /\ job' = [job EXCEPT ![j].status = "running", ![j].cancel = FALSE,
                          ![j].claimed = FALSE, ![j].dispatched = FALSE,
                          ![j].accepted = FALSE]
    /\ Goto(j, "claimed")
    /\ UNCHANGED <<last, carried, token, lock, syncVars, seen, hubVars, left>>

\* The task registers its token, then looks whether the job was taken meanwhile.
StartRun(j) ==
    /\ exec[j] = "claimed" /\ Goto(j, "review")
    /\ token' = [token EXCEPT ![j] = ~Is(j, {"running"})]
    /\ UNCHANGED <<rowVars, lock, syncVars, seen, hubVars, left>>

\* Reviewers fail, or the job turns out stale or duplicate before the final editor.
ReviewFails(j) ==
    /\ exec[j] = "review" /\ Fails(j)
    /\ UNCHANGED <<rowVars, token, syncVars, seen, hubVars, left>>

NothingToEdit(j) == ~job[j].cand /\ ~carried

\* No candidate and no open finding: a coordinator queued by a retry is skipped.
SkipEditor(j) ==
    /\ exec[j] = "review" /\ NothingToEdit(j)
    /\ job' = [job EXCEPT ![j].editor = IF @ = "queued" THEN "skipped" ELSE @]
    /\ Goto(j, "locking")
    /\ UNCHANGED <<last, carried, token, lock, syncVars, seen, hubVars, left>>

\* Start the queued coordinator task, or create one, which needs a running job.
StartEditor(j) ==
    /\ exec[j] = "review" /\ ~NothingToEdit(j)
    /\ job[j].editor = "queued" \/ Is(j, {"running"})
    /\ job' = [job EXCEPT ![j].editor = "running"] /\ Goto(j, "editing")
    /\ UNCHANGED <<last, carried, token, lock, syncVars, seen, hubVars, left>>

\* Mutant: the outcome of the turn is written as it is reported.
SettledAsOk(editor, status) == IF status = "succeeded" THEN "ok" ELSE status

\* finish_code_review_task only moves a task that is still active.
Settled(editor, status) == IF editor \in {"queued", "running"} THEN status ELSE editor

EditorSucceeds(j) ==
    /\ exec[j] = "editing"
    /\ job' = [job EXCEPT ![j].editor = Settled(@, "succeeded")] /\ Goto(j, "locking")
    /\ UNCHANGED <<last, carried, token, lock, syncVars, seen, hubVars, left>>

\* The turn fails, is cancelled, or leaves candidates without a decision.
EditorFails(j) ==
    /\ exec[j] = "editing"
    /\ job' = [job EXCEPT ![j].editor = Settled(@, IF token[j] THEN "cancelled"
                                                   ELSE "failed")]
    /\ Fails(j)
    /\ UNCHANGED <<last, carried, token, syncVars, seen, hubVars, left>>

\* acquire_review_publication_lock
AcquireLock(j) ==
    /\ exec[j] = "locking"
    /\ \/ token[j] /\ Fails(j)
       \/ ~token[j] /\ lock = None /\ lock' = j /\ Goto(j, "validate")
    /\ UNCHANGED <<rowVars, token, syncVars, seen, hubVars, left>>

\* Credentials, revalidate_code_review_publication, saving the result and
\* revalidate_staged_code_review_result.  A failed save sees what the claim sees; the
\* discard after a failed staged revalidation is left out.
Validate(j) ==
    /\ exec[j] = "validate"
    /\ \/ ~token[j] /\ headNow = job[j].head /\ Goto(j, "claim") /\ UNCHANGED lock
       \/ headNow # job[j].head /\ Leave(j, "stale")
       \/ Fails(j)
    /\ UNCHANGED <<rowVars, token, syncVars, seen, hubVars, left>>

\* The pull request became a draft under an automatic review.
ValidateDraft(j) ==
    /\ exec[j] = "validate" /\ job[j].auto /\ ~job[j].again
    /\ job' = [k \in Jobs |-> IF ByDraft(k) THEN [job[k] EXCEPT !.status = "stale"]
                              ELSE job[k]]
    /\ token' = Tripped({k \in Jobs : ByDraft(k)})
    /\ Leave(j, "stale")
    /\ UNCHANGED <<last, carried, syncVars, seen, hubVars, left>>

\* Mutant: a round takes the place after the newest published one.
ClaimAfterPublished(j) ==
    /\ exec[j] = "claim" /\ Current(j)
    /\ job' = [job EXCEPT ![j].claimed = TRUE, ![j].dispatched = FALSE,
                          ![j].order = IF @ # 0 THEN @ ELSE last.order + 1]
    /\ Goto(j, "verdict")
    /\ UNCHANGED <<last, carried, token, lock, syncVars, seen, hubVars, left>>

\* claim_code_review_publication
ClaimPublication(j) ==
    /\ exec[j] = "claim" /\ Current(j)
    /\ job' = [job EXCEPT ![j].claimed = TRUE, ![j].dispatched = FALSE,
                          ![j].order = IF @ # 0 THEN @ ELSE NextOrder]
    /\ Goto(j, "verdict")
    /\ UNCHANGED <<last, carried, token, lock, syncVars, seen, hubVars, left>>

\* A refused claim discards the staged result (discard_unaccepted_code_review_result).
ClaimRefused(j) ==
    /\ exec[j] = "claim" /\ ~Current(j)
    /\ job' = [job EXCEPT ![j] =
                 IF @.dispatched \/ @.accepted \/ @.published THEN @
                 ELSE [@ EXCEPT !.claimed = FALSE, !.order = 0]]
    /\ Leave(j, "stale")
    /\ UNCHANGED <<last, carried, token, syncVars, seen, hubVars, left>>

\* prepare_code_review_publication_verdict
PrepareVerdict(j) ==
    /\ exec[j] = "verdict"
    /\ IF Publishable(j) THEN Goto(j, "manifest") /\ UNCHANGED lock ELSE Leave(j, "stale")
    /\ UNCHANGED <<rowVars, token, syncVars, seen, hubVars, left>>

\* prepare_code_review_publication_manifest, mark_code_review_publication_dispatched
\* and the POST.  The claim may have been released meanwhile.
Dispatch(j) ==
    /\ exec[j] = "manifest"
    /\ job[j].claimed /\ ~job[j].dispatched /\ ~job[j].accepted
    /\ job' = [job EXCEPT ![j].dispatched = TRUE]
    /\ Goto(j, "posting") /\ flying' = [flying EXCEPT ![j] = @ + 1]
    /\ UNCHANGED <<last, carried, token, lock, syncVars, seen, headNow, answer, reviews, left>>

DispatchRefused(j) ==
    /\ exec[j] = "manifest"
    /\ ~job[j].claimed \/ job[j].dispatched \/ job[j].accepted
    /\ Leave(j, "erred")
    /\ UNCHANGED <<rowVars, token, syncVars, seen, hubVars, left>>

\* The response ends the request.
Read(j, a) == /\ exec[j] = "posting" /\ answer[j] = a
              /\ answer' = [answer EXCEPT ![j] = "none"]
              /\ UNCHANGED <<headNow, flying, reviews>>

\* A 2xx: mark_code_review_publication_accepted.
Accepted(j) ==
    /\ Read(j, "created")
    /\ job' = [job EXCEPT ![j] = IF @.claimed THEN [@ EXCEPT !.dispatched = TRUE,
                                                             !.accepted = TRUE]
                                 ELSE @]
    /\ Goto(j, "record")
    /\ UNCHANGED <<last, carried, token, lock, syncVars, seen, left>>

\* A 4xx proves that nothing was created: reset_code_review_publication_dispatch.
Rejected(j) ==
    /\ Read(j, "rejected")
    /\ IF job[j].claimed /\ job[j].dispatched /\ ~job[j].accepted
       THEN /\ job' = [job EXCEPT ![j].dispatched = FALSE]
            /\ Goto(j, "refused") /\ UNCHANGED lock
       ELSE Leave(j, "erred") /\ UNCHANGED job
    /\ UNCHANGED <<last, carried, token, syncVars, seen, left>>

\* A 5xx, a broken connection or the request's deadline: the outcome is not known.
Ambiguous(j) ==
    /\ Read(j, "error")
    /\ Leave(j, "erred")
    /\ UNCHANGED <<rowVars, token, syncVars, seen, left>>

\* Another representation (without comments, or as COMMENT) is worth a try.
TryAgain(j) ==
    /\ exec[j] = "refused"
    /\ \/ Goto(j, "manifest") /\ UNCHANGED lock
       \/ ~Publishable(j) /\ Leave(j, "erred")
    /\ UNCHANGED <<rowVars, token, syncVars, seen, hubVars, left>>

Released(r) == IF r.accepted \/ r.dispatched THEN r
               ELSE [r EXCEPT !.claimed = FALSE, !.order = 0]

\* release_code_review_publication_claim after a final rejection.
GiveUp(j) ==
    /\ exec[j] = "refused"
    /\ job' = [job EXCEPT ![j] = Released(@)] /\ Leave(j, "erred")
    /\ UNCHANGED <<last, carried, token, syncVars, seen, hubVars, left>>

\* Mutant: whichever round is recorded last is the last reviewed one.
AdvanceAlways(j, current) ==
    last' = IF current THEN [order |-> job[j].order, head |-> job[j].head] ELSE last

\* code_review_pr_state moves to this round unless a later one is there already.
Advance(j, current) ==
    last' = IF current /\ last.order <= job[j].order
            THEN [order |-> job[j].order, head |-> job[j].head] ELSE last

\* record_code_review_publication_with_continuation.  The round's findings join the
\* pull's open ones; only a current round may also close earlier ones.  While it is
\* recorded the claim cannot be cleared, so the refusal of an unclaimed row is left out.
RecordPublication(j) ==
    LET current == Is(j, {"running"}) /\ ~job[j].cancel /\ ~Overtaken(j) IN
    /\ exec[j] = "record" /\ job[j].claimed
    /\ job' = [job EXCEPT ![j].accepted = TRUE, ![j].published = TRUE]
    /\ Advance(j, current)
    /\ carried' \in IF current THEN BOOLEAN ELSE {carried, TRUE}
    /\ \E e \in {"ok", "erred"} : Leave(j, e)
    /\ UNCHANGED <<token, syncVars, seen, hubVars, left>>

\* The phases execute_code_review may be suspended in when its time is up.
Suspended == {"review", "editing", "locking", "validate", "posting", "refused", "record"}

Timeout(j) ==
    /\ exec[j] \in Suspended /\ Leave(j, "timedout")
    /\ answer' = [answer EXCEPT ![j] = "none"]
    /\ UNCHANGED <<rowVars, token, syncVars, seen, headNow, flying, reviews, left>>

Outcome(j) == IF exec[j] = "ok" THEN "succeeded"
              ELSE IF exec[j] = "timedout" THEN "failed"
              ELSE IF job[j].cancel THEN "cancelled"
              ELSE IF exec[j] = "stale" THEN "stale" ELSE "failed"

\* Mutant: an execution that found itself stale leaves the row to its successor.
FinishUnlessStale(j) ==
    /\ exec[j] \in {"ok", "erred", "stale", "timedout"}
    /\ job' = [job EXCEPT ![j].status = IF @ # "running" \/ exec[j] = "stale" THEN @
                                        ELSE Outcome(j)]
    /\ Goto(j, "none") /\ token' = [token EXCEPT ![j] = FALSE] /\ owed' = owed \cup {j}
    /\ UNCHANGED <<last, carried, lock, pass, seen, hubVars, left>>

\* finish_code_review_job_with_continuation: only a running job finishes, and a
\* published one succeeded whatever happened after.
Finish(j) ==
    /\ exec[j] \in {"ok", "erred", "stale", "timedout"}
    /\ job' = [job EXCEPT ![j] =
                 IF @.status # "running" THEN @
                 ELSE [@ EXCEPT !.status = IF job[j].accepted /\ job[j].published
                                           THEN "succeeded" ELSE Outcome(j),
                                !.editor = Stopped(job[j].editor)]]
    /\ Goto(j, "none") /\ token' = [token EXCEPT ![j] = FALSE] /\ owed' = owed \cup {j}
    /\ UNCHANGED <<last, carried, lock, pass, seen, hubVars, left>>

-------------------------------------------------------------------------------
(* GitHub: a POST is handled whether or not anybody still waits for it. *)

Answer(j, a) == answer' = IF exec[j] = "posting" /\ answer[j] = "none"
                          THEN [answer EXCEPT ![j] = a] ELSE answer

Handled(j) == flying[j] > 0 /\ flying' = [flying EXCEPT ![j] = @ - 1]

\* The review is created; the client may still see a 5xx or nothing at all.
Create(j) ==
    /\ Handled(j) /\ reviews' = [reviews EXCEPT ![j] = @ + 1]
    /\ \E a \in {"created", "error"} : Answer(j, a)
    /\ UNCHANGED <<rowVars, runVars, syncVars, seen, headNow, left>>

\* The request is rejected (4xx) or lost.
Refuse(j) ==
    /\ Handled(j) /\ \E a \in {"rejected", "error"} : Answer(j, a)
    /\ UNCHANGED <<rowVars, runVars, syncVars, seen, headNow, reviews, left>>

\* The request's deadline passes while GitHub is still at it.
Overdue(j) ==
    /\ exec[j] = "posting" /\ answer[j] = "none" /\ answer' = [answer EXCEPT ![j] = "error"]
    /\ UNCHANGED <<rowVars, runVars, syncVars, seen, headNow, flying, reviews, left>>

-------------------------------------------------------------------------------
(* The projection pass: sync_code_review_projection. *)

Walk(j, p) == pass' = [pass EXCEPT ![j] = p]

\* A publication in doubt.  That a published round which is not wholly reconciled is
\* looked up again is left out.
Lookup(j) == /\ job[j].claimed /\ ~(job[j].accepted /\ job[j].published)
             /\ job[j].accepted \/ (job[j].dispatched /\ Is(j, Terminal))

\* A pass is started by the end of an execution, by its progress, or by the poller
\* for a job whose last pass left an error that may be retried.
PassStarts(j) == /\ pass[j] = "idle"
                 /\ j \in owed \/ Registered(j) \/ job[j].due = "retry"
                 /\ owed' = owed \ {j}

\* How a pass leaves the row: the check run is written and its error cleared
\* (set_code_review_job_check_run); a failed request is recorded instead
\* (record_code_review_projection_failure), to be retried or not by its message.
Written(rows) == \/ job' = rows["none"] /\ UNCHANGED left
                 \/ Spend("fault") /\ \E due \in {"retry", "final"} : job' = rows[due]

\* Nothing was dispatched: a claim its job no longer needs is released.
PassNothing(j) ==
    LET kept == IF Is(j, Terminal) /\ job[j].claimed THEN Released(job[j]) ELSE job[j]
        rows == [due \in Dues |-> [job EXCEPT ![j] = [kept EXCEPT !.due = due]]]
    IN
    /\ PassStarts(j) /\ ~Lookup(j) /\ Written(rows)
    /\ UNCHANGED <<pass, last, carried, runVars, seen, hubVars>>

\* find_published_review: the listing may lag behind, and the request may fail.
PassLookup(j) ==
    /\ PassStarts(j) /\ Lookup(j)
    /\ \/ /\ reviews[j] > 0 /\ Walk(j, "found")
          /\ job' = [job EXCEPT ![j].misses = 0] /\ UNCHANGED left
       \/ Walk(j, "absent") /\ UNCHANGED <<job, left>>
       \/ /\ Spend("fault") /\ Walk(j, "broken")
          /\ job' = [job EXCEPT ![j].misses = 0]
    /\ UNCHANGED <<last, carried, runVars, seen, hubVars>>

\* reconcile_code_review_publication
Reconcile(j) ==
    LET current == /\ Is(j, {"running", "failed", "succeeded"}) /\ ~job[j].cancel
                   /\ ~Overtaken(j)
    IN
    /\ pass[j] = "found"
    /\ \/ /\ job[j].claimed /\ Walk(j, "done")
          /\ job' = [job EXCEPT ![j].status = IF @ = "failed" /\ ~job[j].accepted
                                              THEN "succeeded" ELSE @,
                                ![j].dispatched = TRUE, ![j].accepted = TRUE,
                                ![j].published = TRUE]
          /\ Advance(j, current)
          /\ carried' \in IF current THEN BOOLEAN ELSE {carried, TRUE}
       \/ ~job[j].claimed /\ Walk(j, "broken") /\ UNCHANGED rowVars
    /\ UNCHANGED <<runVars, owed, seen, hubVars, left>>

\* resolve_code_review_publication_absence.  An outranked or quarantined round has
\* its own entry in check_sync_error; the others make the pass fail.  The count of
\* misses is only compared with the threshold and is kept up to it.
Absent(j) ==
    LET more == IF job[j].misses < Confirmations THEN job[j].misses + 1
                ELSE Confirmations
        quarantined == more >= Confirmations /\ job[j].dispatched
    IN
    /\ pass[j] = "absent"
    /\ \/ job[j].published /\ Walk(j, "done") /\ UNCHANGED job
       \/ /\ ~job[j].published /\ Outranked(j) /\ Walk(j, "done")
          /\ job' = [job EXCEPT ![j].misses = 0, ![j].due = "final"]
       \/ /\ ~job[j].published /\ ~Outranked(j)
          /\ job[j].accepted \/ RivalPending(j)
          /\ job' = [job EXCEPT ![j].misses = 0] /\ Walk(j, "broken")
       \/ /\ ~job[j].published /\ ~Outranked(j) /\ ~job[j].accepted /\ ~RivalPending(j)
          /\ IF quarantined
             THEN /\ job' = [job EXCEPT ![j].misses = more, ![j].due = "retry"]
                  /\ Walk(j, "done")
             ELSE /\ job' = [job EXCEPT ![j].misses = more] /\ Walk(j, "broken")
    /\ UNCHANGED <<last, carried, runVars, owed, seen, hubVars, left>>

\* The rest of the pass.
PassEnds(j) ==
    LET rows == [due \in Dues |-> [job EXCEPT ![j].due = due]] IN
    /\ \/ pass[j] = "done" /\ Written(rows)
       \/ pass[j] = "broken" /\ job' = rows["retry"] /\ UNCHANGED left
    /\ Walk(j, "idle")
    /\ UNCHANGED <<last, carried, runVars, owed, seen, hubVars>>

-------------------------------------------------------------------------------
(* Restart: recover_code_review_jobs. *)

\* Mutant: every interrupted job is queued again.
RequeueAll(r) == IF r.status # "running" THEN r
                 ELSE [r EXCEPT !.status = "queued", !.cancel = FALSE, !.claimed = FALSE,
                                !.editor = IF @ \in {"queued", "running"} THEN "failed"
                                           ELSE @]

\* Mutant: a dispatched publication is taken for a review.
RecoverAsPublished(r) ==
    IF r.status # "running" THEN r
    ELSE IF r.claimed
    THEN [r EXCEPT !.status = IF r.dispatched THEN "succeeded" ELSE "failed"]
    ELSE [r EXCEPT !.status = "queued", !.cancel = FALSE]

Recovered(r) ==
    LET inFlight == r.accepted \/ r.dispatched
        task == IF r.editor \in {"queued", "running"} THEN "failed" ELSE r.editor
    IN
    IF r.status # "running" THEN r
    ELSE IF r.claimed
    THEN [r EXCEPT !.editor = task, !.status = IF r.accepted THEN "succeeded" ELSE "failed",
                   !.claimed = inFlight, !.due = IF inFlight THEN "retry" ELSE "none"]
    ELSE [r EXCEPT !.editor = task, !.status = "queued", !.cancel = FALSE]

Crash ==
    /\ Spend("crash")
    /\ job' = [j \in Jobs |-> Recovered(job[j])]
    /\ exec' = [j \in Jobs |-> "none"] /\ token' = [j \in Jobs |-> FALSE] /\ lock' = None
    /\ pass' = [j \in Jobs |-> "idle"] /\ owed' = {} /\ seen' = None
    /\ answer' = [j \in Jobs |-> "none"]
    /\ UNCHANGED <<last, carried, headNow, flying, reviews>>

-------------------------------------------------------------------------------
Publish(j) == \/ AcquireLock(j) \/ Validate(j) \/ ValidateDraft(j) \/ ClaimPublication(j)
              \/ ClaimRefused(j) \/ PrepareVerdict(j) \/ Dispatch(j) \/ DispatchRefused(j)
              \/ Accepted(j) \/ Rejected(j) \/ Ambiguous(j) \/ TryAgain(j) \/ GiveUp(j)
              \/ RecordPublication(j)

Execute(j) == \/ StartRun(j) \/ ReviewFails(j) \/ SkipEditor(j) \/ StartEditor(j)
              \/ EditorSucceeds(j) \/ EditorFails(j) \/ Publish(j) \/ Timeout(j)

GitHub(j) == Create(j) \/ Refuse(j) \/ Overdue(j)

Project(j) == \/ PassNothing(j) \/ PassLookup(j) \/ Reconcile(j) \/ Absent(j)
              \/ PassEnds(j)

Command(j) == \/ Request(j) \/ Cancel(j) \/ RetryEditor(j)
              \/ \E k \in Jobs : RetryJob(j, k)

Next == \/ Push \/ Dismiss \/ PollRead \/ PollApply \/ Crash
        \/ \E j \in Jobs : \/ Command(j) \/ ClaimJob(j) \/ Execute(j) \/ Finish(j)
                           \/ GitHub(j) \/ Project(j)

Spec == Init /\ [][Next]_vars

\* The scheduler claims queued jobs, an execution moves on, and its end is recorded.
\* total_timeout_seconds runs on while the execution goes round: strong fairness.
FairSpec == Spec /\ \A j \in Jobs : /\ WF_vars(ClaimJob(j)) /\ WF_vars(Execute(j))
                                    /\ WF_vars(Finish(j)) /\ SF_vars(Timeout(j))

-------------------------------------------------------------------------------
(* Properties. *)

TypeOK ==
    /\ job \in [Jobs -> Rows]
    /\ last \in [order : Nat, head : Heads \cup {None}]
    /\ carried \in BOOLEAN
    /\ exec \in [Jobs -> Phases] /\ token \in [Jobs -> BOOLEAN]
    /\ lock \in Jobs \cup {None}
    /\ pass \in [Jobs -> Passes] /\ owed \subseteq Jobs
    /\ headNow \in Heads /\ seen \in Heads \cup {None}
    /\ flying \in [Jobs -> Nat] /\ reviews \in [Jobs -> Nat]
    /\ answer \in [Jobs -> {"none", "created", "rejected", "error"}]
    /\ left \in [{"push", "poll", "crash", "dismiss", "command", "fault"} -> Nat]

\* A job never puts a second review on the pull request, and while one of its POSTs
\* may still land no other is sent (store.rs: a dispatch is never released for
\* another POST; crash recovery reconciles by marker).
NoSecondReview == \A j \in Jobs : reviews[j] + flying[j] <= 1

\* What the rows claim about GitHub is true: accepted, published and succeeded jobs
\* have a review there (mark_code_review_publication_accepted,
\* reconcile_code_review_publication, recover_code_review_jobs).
ClaimsOfPublicationAreTrue ==
    \A j \in Jobs : job[j].accepted \/ job[j].published \/ Is(j, {"succeeded"})
                        => reviews[j] >= 1

\* A job that tells its user it was cancelled has no review on the pull request and
\* none on its way (request_code_review_job_cancel refuses a claimed publication).
CancelledIsUnpublished ==
    \A j \in Jobs : Is(j, {"cancelled"}) => reviews[j] = 0 /\ flying[j] = 0

\* The last reviewed revision of the pull request, which decides what the next round
\* compares with, is one a round really published, and no other round has its place
\* in the publication order (record_code_review_publication,
\* reconcile_code_review_publication, claim_code_review_publication).
LastReviewedIsReal ==
    last.order # 0 =>
        \E j \in Jobs : /\ job[j].order = last.order /\ job[j].head = last.head
                        /\ job[j].published /\ reviews[j] >= 1
                        /\ \A k \in Jobs \ {j} : job[k].order # last.order

\* The last reviewed round only moves forward in publication order, whatever the
\* order in which late reconciliations arrive.
LastReviewedAdvances == [][last'.order >= last.order]_vars

\* A publication whose outcome is not known keeps a reconciliation scheduled until
\* its marker is found or a later round has published
\* (resolve_code_review_publication_absence: "preserving eventual reconciliation").
Unresolved(j) == /\ Is(j, Terminal) /\ job[j].claimed /\ job[j].dispatched
                 /\ ~job[j].published /\ ~Outranked(j)
AmbiguousStaysScheduled ==
    \A j \in Jobs : Unresolved(j) => \/ job[j].due = "retry" \/ j \in owed
                                     \/ pass[j] # "idle" \/ exec[j] # "none"

\* Every job that is asked for ends: it is claimed when its turn comes and an
\* execution that hangs is timed out.
JobSettles == \A j \in Jobs : Is(j, {"queued"}) ~> Is(j, Terminal)

===============================================================================
