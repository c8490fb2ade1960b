---------------------------- MODULE ArtifactCleanup ----------------------------
(***************************************************************************)
(* Durable cleanup of the files of one session: attachments that a request *)
(* stages before its message owns them, attachments removed from queued    *)
(* prompts, and what a deleted session leaves behind (attachments, hidden  *)
(* checkpoint refs, worktree).                                             *)
(*                                                                         *)
(* An artifact_cleanup_jobs row is open until its work is done.  Whoever   *)
(* works on it holds its claim: a token, under a lease that a heartbeat    *)
(* renews.  A staging job is named by its request, which claims it first;  *)
(* removals and the deletion start a cleanup task of their own, named by   *)
(* the job; the retry worker takes any job that is free.  A claimant never *)
(* has two claims, so it stands for the token of the one it has.           *)
(***************************************************************************)
EXTENDS Naturals, FiniteSets

CONSTANTS
    Requests,     \* requests with uploads
    Files,
    FilesOf,      \* FilesOf[r]: the files of request r
    Removals,     \* bound: ids for jobs that remove files of queued prompts
    Deletion,     \* the job of the deleted session
    Retries,      \* the retry workers, one per server that shares the database
    None,
    MaxMishaps    \* bound: restarts, faults and stalls

Jobs == Requests \cup Removals \cup {Deletion}
Workers == Removals \cup {Deletion} \cup Retries
Claimants == Requests \cup Workers

ASSUME NamesAssumption ==
    /\ Requests \cap Workers = {} /\ Retries \cap Jobs = {}
    /\ Deletion \notin Removals /\ None \notin Claimants
\* Every upload gets a fresh opaque path.
ASSUME FilesAssumption ==
    /\ FilesOf \in [Requests -> (SUBSET Files) \ {{}}]
    /\ \A r, q \in Requests : r # q => FilesOf[r] \cap FilesOf[q] = {}

VARIABLES
    disk,       \* attachment files that exist
    worktree, refs,  \* the session's worktree and checkpoint refs exist
    rows,       \* files of the `attachments` table
    queue,      \* requests whose prompt is queued and unclaimed
    attach,     \* attachments of each queued prompt
    session,    \* "live", "deleting", "captured" or "deleted"
    captured,   \* attachment paths delete_session read
    open,       \* rows of artifact_cleanup_jobs
    paths,      \* their attachment_paths
    token,      \* their claim_token
    expired,    \* jobs whose claim_until has passed
    delayed,    \* jobs whose next_attempt_at has not
    minted,     \* removal ids used
    pc,         \* where each claimant is
    work,       \* the job it works on
    left,       \* files it still has to write or delete
    lost,       \* claimants whose ownership_lost is set
    leaked,     \* files given up for good (history)
    mishaps

fileVars == <<disk, worktree, refs>>
ownerVars == <<rows, queue, attach, session, captured>>
jobVars == <<open, paths, token, expired, delayed, minted>>
taskVars == <<pc, work, left, lost>>
vars == <<fileVars, ownerVars, jobVars, taskVars, leaked, mishaps>>

Init ==
    /\ disk = {} /\ worktree = TRUE /\ refs = TRUE
    /\ rows = {} /\ queue = {} /\ attach = [r \in Requests |-> {}]
    /\ session = "live" /\ captured = {}
    /\ open = {} /\ paths = [j \in Jobs |-> {}]
    /\ token = [j \in Jobs |-> None] /\ expired = {} /\ delayed = {} /\ minted = {}
    /\ pc = [c \in Claimants |-> "off"]
    /\ work = [c \in Claimants |-> IF c \in Jobs THEN c ELSE Deletion]
    /\ left = [c \in Claimants |-> {}] /\ lost = {}
    /\ leaked = {} /\ mishaps = 0

Mishap == mishaps < MaxMishaps /\ mishaps' = mishaps + 1

\* WHERE id = ?1 AND claim_token = ?2
Owns(c) == work[c] \in open /\ token[work[c]] = c

Goto(c, l) == pc' = [pc EXCEPT ![c] = l]

\* A claimant whose heartbeat is running.
Beating(c) == pc[c] \in {"write", "commit", "delete", "sweep", "refs", "worktree", "verify"}

Alive(c) == pc[c] \notin {"off", "over", "scheduled"}

--------------------------------------------------------------------------------
\* The jobs table

\* Mutant: the lease of a claim is not looked at.
ClaimableWhenFree(j) == j \in open /\ j \notin delayed /\ token[j] = None

Claimable(j) == /\ j \in open /\ j \notin delayed
                /\ token[j] = None \/ j \in expired

\* The jobs this transaction inserts, unclaimed.
Insert(j, fs) == /\ open' = open \cup {j}
                 /\ paths' = [paths EXCEPT ![j] = fs]

\* complete_claimed_artifact_cleanup_job
Retire(c) ==
    /\ pc[c] = "complete"
    /\ IF Owns(c) THEN /\ open' = open \ {work[c]}
                       /\ token' = [token EXCEPT ![work[c]] = None]
                       /\ expired' = expired \ {work[c]}
                  ELSE UNCHANGED <<open, token, expired>>
    /\ Goto(c, IF c \in Requests THEN "over" ELSE "off")
    /\ lost' = lost \ {c}
    /\ UNCHANGED <<fileVars, ownerVars, paths, delayed, minted, work, left, leaked, mishaps>>

\* The row could not be deleted: the claim stays until its lease runs out.
RetireFails(c) ==
    /\ pc[c] \in {"complete", "fail"} /\ Mishap
    /\ Goto(c, IF c \in Requests THEN "over" ELSE "off")
    /\ lost' = lost \ {c}
    /\ UNCHANGED <<fileVars, ownerVars, jobVars, work, left, leaked>>

\* Mutant: a cleanup that failed retires its job.
RetireAnyway(c) ==
    /\ pc[c] = "fail"
    /\ IF Owns(c) THEN /\ open' = open \ {work[c]}
                       /\ token' = [token EXCEPT ![work[c]] = None]
                       /\ expired' = expired \ {work[c]}
                  ELSE UNCHANGED <<open, token, expired>>
    /\ Goto(c, IF c \in Requests THEN "over" ELSE "off")
    /\ lost' = lost \ {c}
    /\ UNCHANGED <<fileVars, ownerVars, paths, delayed, minted, work, left, leaked, mishaps>>

\* fail_claimed_artifact_cleanup_job
Release(c) ==
    /\ pc[c] = "fail"
    /\ IF Owns(c) THEN /\ token' = [token EXCEPT ![work[c]] = None]
                       /\ expired' = expired \ {work[c]}
                       /\ delayed' = delayed \cup {work[c]}
                  ELSE UNCHANGED <<token, expired, delayed>>
    /\ Goto(c, IF c \in Requests THEN "over" ELSE "off")
    /\ lost' = lost \ {c}
    /\ UNCHANGED <<fileVars, ownerVars, open, paths, minted, work, left, leaked, mishaps>>

\* next_attempt_at passes.
DelayPasses(j) ==
    /\ j \in delayed
    /\ delayed' = delayed \ {j}
    /\ UNCHANGED <<fileVars, ownerVars, open, paths, token, expired, minted, taskVars,
                   leaked, mishaps>>

\* The lease of a claim runs out because nobody renews it...
LeaseRunsOut(j) ==
    /\ j \in open \ expired /\ token[j] # None
    /\ ~(Alive(token[j]) /\ work[token[j]] = j)
    /\ expired' = expired \cup {j}
    /\ UNCHANGED <<fileVars, ownerVars, open, paths, token, delayed, minted, taskVars,
                   leaked, mishaps>>

\* ... or because its owner is held up, as when the machine sleeps.
Stall(j) ==
    /\ j \in open \ expired /\ token[j] # None /\ Mishap
    /\ expired' = expired \cup {j}
    /\ UNCHANGED <<fileVars, ownerVars, open, paths, token, delayed, minted, taskVars, leaked>>

\* maintain_artifact_cleanup_claim
Heartbeat(c) ==
    /\ Beating(c) /\ c \notin lost
    /\ IF Owns(c) THEN /\ expired' = expired \ {work[c]} /\ UNCHANGED lost
                  ELSE /\ lost' = lost \cup {c} /\ UNCHANGED expired
    /\ UNCHANGED <<fileVars, ownerVars, open, paths, token, delayed, minted, pc, work,
                   left, leaked, mishaps>>

HeartbeatFails(c) ==
    /\ Beating(c) /\ c \notin lost /\ Mishap
    /\ lost' = lost \cup {c}
    /\ UNCHANGED <<fileVars, ownerVars, jobVars, pc, work, left, leaked>>

--------------------------------------------------------------------------------
\* A request with uploads: prepare_attachments, the transaction that makes the
\* files a message's, and PreparedAttachmentCleanup when that does not happen

Stage(r) ==
    /\ pc[r] = "off" /\ session # "deleted"
    /\ Insert(r, FilesOf[r])
    /\ token' = [token EXCEPT ![r] = r]
    /\ Goto(r, "write") /\ left' = [left EXCEPT ![r] = FilesOf[r]]
    /\ UNCHANGED <<fileVars, ownerVars, expired, delayed, minted, work, lost, leaked, mishaps>>

\* A file written after the claim was taken has nobody left to remove it.
Written(r, f) ==
    /\ disk' = disk \cup {f}
    /\ leaked' = IF Owns(r) THEN leaked ELSE leaked \cup {f}
    /\ UNCHANGED <<worktree, refs>>

WriteFile(r) ==
    /\ pc[r] = "write"
    /\ \E f \in left[r] : /\ Written(r, f)
                          /\ left' = [left EXCEPT ![r] = @ \ {f}]
    /\ Goto(r, IF left'[r] = {} THEN "commit" ELSE "write")
    /\ UNCHANGED <<ownerVars, jobVars, work, lost, mishaps>>

\* The entry may exist although its bytes were not written.
WriteFails(r) ==
    /\ pc[r] = "write" /\ Mishap
    /\ \/ \E f \in left[r] : Written(r, f)
       \/ UNCHANGED <<fileVars, leaked>>
    /\ Goto(r, "drop")
    /\ UNCHANGED <<ownerVars, jobVars, work, left, lost>>

\* Mutant: the staging job is consumed by id.
ConsumeById(r) == /\ open' = open \ {r}
                  /\ token' = [token EXCEPT ![r] = None]
                  /\ expired' = expired \ {r}

\* The staging job is deleted by the transaction that inserts the rows.
Consume(r) == /\ Owns(r)
              /\ open' = open \ {r}
              /\ token' = [token EXCEPT ![r] = None]
              /\ expired' = expired \ {r}

\* A message, a steered message or a tool's artifacts; a message may be queued,
\* or the files are added to a queued prompt.
CommitMessage(r) ==
    /\ pc[r] = "commit" /\ session = "live"
    /\ Consume(r)
    /\ rows' = rows \cup FilesOf[r]
    /\ \/ queue' = queue \cup {r} /\ attach' = [attach EXCEPT ![r] = FilesOf[r]]
       \/ \E p \in queue : /\ attach' = [attach EXCEPT ![p] = @ \cup FilesOf[r]]
                           /\ UNCHANGED queue
       \/ UNCHANGED <<queue, attach>>
    /\ Goto(r, "over") /\ lost' = lost \ {r}
    /\ UNCHANGED <<fileVars, session, captured, paths, delayed, minted, work, left,
                   leaked, mishaps>>

\* update_queued_prompt: the files are added to queued prompt p and others of
\* it are removed, in one transaction with the job that deletes those.
CommitUpdate(r, p, gone, d) ==
    /\ pc[r] = "commit" /\ session = "live" /\ p \in queue
    /\ gone \subseteq attach[p] /\ gone # {} /\ d \in Removals \ minted
    /\ Owns(r)
    /\ open' = (open \ {r}) \cup {d}
    /\ paths' = [paths EXCEPT ![d] = gone]
    /\ token' = [token EXCEPT ![r] = None] /\ expired' = expired \ {r}
    /\ minted' = minted \cup {d}
    /\ rows' = (rows \ gone) \cup FilesOf[r]
    /\ attach' = [attach EXCEPT ![p] = (@ \ gone) \cup FilesOf[r]]
    /\ pc' = [pc EXCEPT ![r] = "over", ![d] = "scheduled"] /\ lost' = lost \ {r}
    /\ UNCHANGED <<fileVars, queue, session, captured, delayed, work, left, leaked, mishaps>>

\* The session is being deleted, the prompt is gone, the claim was lost or the
\* store failed.
CommitFails(r) ==
    /\ pc[r] = "commit"
    /\ Goto(r, "drop")
    /\ UNCHANGED <<fileVars, ownerVars, jobVars, work, left, lost, leaked, mishaps>>

\* Drop leaves the files to whoever has the claim...
DropLost(r) ==
    /\ pc[r] = "drop" /\ (r \in lost \/ ~Owns(r))
    /\ Goto(r, "over") /\ lost' = lost \ {r}
    /\ UNCHANGED <<fileVars, ownerVars, jobVars, work, left, leaked, mishaps>>

\* ... or to the retry worker when the store does not answer...
DropUnsure(r) ==
    /\ pc[r] = "drop" /\ r \notin lost /\ Mishap
    /\ Goto(r, "over")
    /\ UNCHANGED <<fileVars, ownerVars, jobVars, work, left, lost, leaked>>

\* ... and renews its own claim before it removes them.
DropOwned(r) ==
    /\ pc[r] = "drop" /\ r \notin lost /\ Owns(r)
    /\ expired' = expired \ {r}
    /\ Goto(r, "rollback") /\ left' = [left EXCEPT ![r] = FilesOf[r]]
    /\ UNCHANGED <<fileVars, ownerVars, open, paths, token, delayed, minted, work, lost,
                   leaked, mishaps>>

RollBack(r) ==
    /\ pc[r] = "rollback"
    /\ \E f \in left[r] : /\ disk' = disk \ {f}
                          /\ left' = [left EXCEPT ![r] = @ \ {f}]
    /\ Goto(r, IF left'[r] = {} THEN "complete" ELSE "rollback")
    /\ UNCHANGED <<worktree, refs, ownerVars, jobVars, work, lost, leaked, mishaps>>

RollBackFails(r) ==
    /\ pc[r] = "rollback" /\ Mishap
    /\ Goto(r, "fail")
    /\ UNCHANGED <<fileVars, ownerVars, jobVars, work, left, lost, leaked>>

--------------------------------------------------------------------------------
\* Queued prompts and the session

\* The dispatcher claims a queued prompt: its attachments are there to stay.
Launch(p) ==
    /\ p \in queue /\ session = "live"
    /\ queue' = queue \ {p} /\ attach' = [attach EXCEPT ![p] = {}]
    /\ UNCHANGED <<fileVars, rows, session, captured, jobVars, taskVars, leaked, mishaps>>

\* delete_queued_prompt, and an update that only removes.
RemoveQueued(p, gone, d) ==
    /\ p \in queue /\ session = "live"
    /\ gone \subseteq attach[p] /\ gone # {} /\ d \in Removals \ minted
    /\ Insert(d, gone) /\ minted' = minted \cup {d}
    /\ rows' = rows \ gone
    /\ attach' = [attach EXCEPT ![p] = @ \ gone]
    /\ \/ gone = attach[p] /\ queue' = queue \ {p}
       \/ UNCHANGED queue
    /\ Goto(d, "scheduled")
    /\ UNCHANGED <<fileVars, session, captured, token, expired, delayed, work, left, lost,
                   leaked, mishaps>>

BeginDelete ==
    /\ session = "live" /\ session' = "deleting"
    /\ UNCHANGED <<fileVars, rows, queue, attach, captured, jobVars, taskVars, leaked, mishaps>>

CapturePaths ==
    /\ session = "deleting" /\ session' = "captured"
    /\ captured' = rows
    /\ UNCHANGED <<fileVars, rows, queue, attach, jobVars, taskVars, leaked, mishaps>>

\* The rows go and the job comes in one transaction.
CommitDelete ==
    /\ session = "captured" /\ session' = "deleted"
    /\ Insert(Deletion, captured)
    /\ rows' = {} /\ queue' = {} /\ captured' = {}
    /\ attach' = [r \in Requests |-> {}]
    /\ Goto(Deletion, "scheduled")
    /\ UNCHANGED <<fileVars, token, expired, delayed, minted, work, left, lost,
                   leaked, mishaps>>

DeleteFails ==
    /\ session \in {"deleting", "captured"} /\ Mishap
    /\ session' = "live" /\ captured' = {}
    /\ UNCHANGED <<fileVars, rows, queue, attach, jobVars, taskVars, leaked>>

--------------------------------------------------------------------------------
\* Cleanup: execute_artifact_cleanup_job

\* What follows when there is no file left to delete: a deleted session whose
\* worktree was found goes on with its refs.
AfterFiles(l) == IF l = "delete" THEN "refs" ELSE "verify"

\* Whether the worktree is there is read with the claim, a little early.
Claim(w, j) ==
    /\ Claimable(j)
    /\ token' = [token EXCEPT ![j] = w] /\ expired' = expired \ {j}
    /\ work' = [work EXCEPT ![w] = j] /\ left' = [left EXCEPT ![w] = paths[j]]
    /\ LET l == IF j = Deletion /\ worktree THEN "delete" ELSE "sweep"
       IN  Goto(w, IF paths[j] = {} THEN AfterFiles(l) ELSE l)
    /\ UNCHANGED <<fileVars, ownerVars, open, paths, delayed, minted, lost, leaked, mishaps>>

\* The task of schedule_artifact_cleanup.
ClaimScheduled(d) == pc[d] = "scheduled" /\ Claim(d, d)

NotClaimed(d) ==
    /\ pc[d] = "scheduled" /\ ~Claimable(d)
    /\ Goto(d, "off")
    /\ UNCHANGED <<fileVars, ownerVars, jobVars, work, left, lost, leaked, mishaps>>

\* retry_artifact_cleanup_jobs goes on until no job is claimable.
ClaimNext(w, j) == pc[w] = "off" /\ Claim(w, j)

Deleting(w) == pc[w] \in {"delete", "sweep"}

DeleteFile(w) ==
    /\ Deleting(w) /\ w \notin lost
    /\ \E f \in left[w] : /\ disk' = disk \ {f}
                          /\ left' = [left EXCEPT ![w] = @ \ {f}]
    /\ Goto(w, IF left'[w] = {} THEN AfterFiles(pc[w]) ELSE pc[w])
    /\ UNCHANGED <<worktree, refs, ownerVars, jobVars, work, lost, leaked, mishaps>>

\* A file that cannot be removed fails an attachment job; a deleted session's
\* cleanup warns and goes on without the rest of them.
DeleteFileFails(w) ==
    /\ Deleting(w) /\ w \notin lost /\ Mishap
    /\ IF work[w] = Deletion
       THEN /\ leaked' = leaked \cup (left[w] \cap disk)
            /\ left' = [left EXCEPT ![w] = {}] /\ Goto(w, AfterFiles(pc[w]))
       ELSE Goto(w, "fail") /\ UNCHANGED <<leaked, left>>
    /\ UNCHANGED <<fileVars, ownerVars, jobVars, work, lost>>

\* Mutant: the worktree goes first.
WorktreeFirst(w) ==
    /\ w \notin lost
    /\ \/ /\ pc[w] = "refs" /\ worktree' = FALSE
          /\ Goto(w, "worktree") /\ UNCHANGED refs
       \/ /\ pc[w] = "worktree" /\ refs' = FALSE
          /\ Goto(w, "verify") /\ UNCHANGED worktree
    /\ UNCHANGED <<disk, ownerVars, jobVars, work, left, lost, leaked, mishaps>>

\* The checkpoint refs, then the worktree; git refuses to remove a worktree
\* that is not there.  git itself is atomic here.
RemoveFromGit(w) ==
    /\ w \notin lost
    /\ \/ /\ pc[w] = "refs" /\ refs' = FALSE
          /\ Goto(w, "worktree") /\ UNCHANGED worktree
       \/ /\ pc[w] = "worktree" /\ worktree' = FALSE
          /\ Goto(w, IF worktree THEN "verify" ELSE "fail") /\ UNCHANGED refs
    /\ UNCHANGED <<disk, ownerVars, jobVars, work, left, lost, leaked, mishaps>>

\* A store read, the eviction of the worktree or git fails.
SessionCleanupFails(w) ==
    /\ work[w] = Deletion /\ pc[w] \in {"delete", "sweep", "refs", "worktree"}
    /\ w \notin lost /\ Mishap
    /\ Goto(w, "fail")
    /\ UNCHANGED <<fileVars, ownerVars, jobVars, work, left, lost, leaked>>

\* ensure_cleanup_claim_owned, before each of these steps.
Interrupted(w) ==
    /\ pc[w] \in {"delete", "sweep", "refs", "worktree"} /\ w \in lost
    /\ Goto(w, "fail")
    /\ UNCHANGED <<fileVars, ownerVars, jobVars, work, left, lost, leaked, mishaps>>

\* The claim is renewed once more before the job is retired.
Verify(w) ==
    /\ pc[w] = "verify"
    /\ IF Owns(w) /\ w \notin lost
       THEN /\ expired' = expired \ {work[w]}
            /\ Goto(w, "complete") /\ UNCHANGED lost
       ELSE /\ lost' = lost \cup {w}
            /\ Goto(w, "fail") /\ UNCHANGED expired
    /\ UNCHANGED <<fileVars, ownerVars, open, paths, token, delayed, minted, work, left,
                   leaked, mishaps>>

--------------------------------------------------------------------------------
\* The process stops and starts again: the database and the files survive.
Restart ==
    /\ Mishap
    /\ pc' = [c \in Claimants |->
                IF c \in Requests /\ pc[c] # "off" THEN "over" ELSE "off"]
    /\ lost' = {} /\ left' = [c \in Claimants |-> {}]
    /\ session' = IF session = "deleted" THEN "deleted" ELSE "live"
    /\ captured' = {}
    /\ UNCHANGED <<fileVars, rows, queue, attach, jobVars, work, leaked>>

RequestStep(r) ==
    \/ WriteFile(r)
    \/ CommitMessage(r)
    \/ \E p \in Requests, d \in Removals : \E gone \in SUBSET attach[p] :
          CommitUpdate(r, p, gone, d)
    \/ CommitFails(r) \/ DropLost(r) \/ DropOwned(r) \/ RollBack(r)

WorkerStep(w) ==
    DeleteFile(w) \/ RemoveFromGit(w) \/ Interrupted(w) \/ Verify(w)

Settle(c) == Retire(c) \/ Release(c)

Fault ==
    \/ \E c \in Claimants : RetireFails(c) \/ HeartbeatFails(c)
    \/ \E r \in Requests : WriteFails(r) \/ DropUnsure(r) \/ RollBackFails(r)
    \/ \E w \in Workers : DeleteFileFails(w) \/ SessionCleanupFails(w)
    \/ \E j \in Jobs : Stall(j)
    \/ DeleteFails \/ Restart

Next ==
    \/ \E r \in Requests : Stage(r) \/ RequestStep(r) \/ Launch(r)
    \/ \E p \in Requests, d \in Removals : \E gone \in SUBSET attach[p] :
          RemoveQueued(p, gone, d)
    \/ BeginDelete \/ CapturePaths \/ CommitDelete
    \/ \E d \in Workers \ Retries : ClaimScheduled(d) \/ NotClaimed(d)
    \/ \E w \in Retries, j \in Jobs : ClaimNext(w, j)
    \/ \E j \in Jobs : DelayPasses(j) \/ LeaseRunsOut(j)
    \/ \E w \in Workers : WorkerStep(w)
    \/ \E c \in Claimants : Heartbeat(c) \/ Settle(c)
    \/ Fault

Spec == Init /\ [][Next]_vars

\* Requests and cleanup tasks run on; time passes; the retry worker, woken
\* every five seconds, takes what is claimable.
Fairness ==
    /\ \A r \in Requests : WF_vars(RequestStep(r) \/ Settle(r))
    /\ \A w \in Workers : WF_vars(WorkerStep(w) \/ Settle(w))
    /\ \A j \in Jobs : /\ WF_vars(DelayPasses(j) \/ LeaseRunsOut(j))
                       /\ SF_vars(\E w \in Retries : ClaimNext(w, j))

FairSpec == Spec /\ Fairness

--------------------------------------------------------------------------------
\* The type of the state.
TypeOK ==
    /\ disk \subseteq Files /\ worktree \in BOOLEAN /\ refs \in BOOLEAN
    /\ rows \subseteq Files /\ queue \subseteq Requests
    /\ attach \in [Requests -> SUBSET Files]
    /\ session \in {"live", "deleting", "captured", "deleted"}
    /\ captured \subseteq Files
    /\ open \subseteq Jobs /\ paths \in [Jobs -> SUBSET Files]
    /\ token \in [Jobs -> Claimants \cup {None}]
    /\ expired \subseteq Jobs /\ delayed \subseteq Jobs /\ minted \subseteq Removals
    /\ pc \in [Claimants -> {"off", "over", "scheduled", "write", "commit", "drop",
                              "rollback", "delete", "sweep", "refs", "worktree", "verify",
                              "complete", "fail"}]
    /\ work \in [Claimants -> Jobs] /\ left \in [Claimants -> SUBSET Files]
    /\ lost \subseteq Claimants
    /\ leaked \subseteq Files /\ mishaps \in Nat

\* The claim token fences the lease: although the retry worker may take over a
\* staging job whose request is only slow, and either may still be deleting,
\* the file of an attachment that a message has come to own is never deleted.
OwnedFilesKept == rows \subseteq disk

\* Every path is recorded before its first write and a job is retired only
\* after its files are gone, so no restart and no failed step leaves a file
\* that nothing refers to.  Two exceptions are the code's: a file written by a
\* request that had already lost its claim, and one a deleted session's cleanup
\* could not remove.
NoFileForgotten ==
    \A f \in disk : \/ f \in rows \cup leaked
                    \/ \E j \in open : f \in paths[j]

\* A cleanup that finds no worktree skips the checkpoint refs, so the refs are
\* removed before the worktree: whatever retry retires the job of a deleted
\* session, neither is left.
SessionLeavesNothing ==
    (session = "deleted" /\ Deletion \notin open) => ~refs /\ ~worktree

\* Every job is retired in the end, although its first owner may die, stall or
\* fail: leases run out and failed attempts come back.  (Finitely many jobs are
\* ever opened here, so it is enough that the table empties.)
JobsRetire == (open # {}) ~> (open = {})
================================================================================
