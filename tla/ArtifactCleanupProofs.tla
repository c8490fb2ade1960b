------------------------- MODULE ArtifactCleanupProofs -------------------------
(***************************************************************************)
(* For any number of requests, files, jobs, retry workers, restarts,       *)
(* faults and stalls: files that a message owns are kept, no file is       *)
(* forgotten, and the cleanup of a deleted session leaves neither refs nor *)
(* worktree.  The invariants below are inductive together.                 *)
(***************************************************************************)
EXTENDS ArtifactCleanup, TLAPS

\* Where requests and workers may be, and that each names its own job.
TaskInv ==
    /\ \A c \in Jobs : work[c] = c
    /\ \A r \in Requests : pc[r] \in {"off", "over", "write", "commit", "drop", "rollback",
                                      "fail", "complete"}
    /\ \A w \in Workers : pc[w] \notin {"write", "commit", "drop", "rollback", "over"}
    /\ \A r \in Requests : pc[r] \in {"write", "rollback"} => left[r] \subseteq FilesOf[r]
    /\ \A j \in Jobs \ open : token[j] = None

\* A job's paths are set once, when it is opened, and bound what is deleted.
PathInv ==
    /\ \A r \in Requests : paths[r] = IF pc[r] = "off" THEN {} ELSE FilesOf[r]
    /\ \A r \in Requests : pc[r] = "off" => r \notin open
    /\ \A d \in Removals \ minted : d \notin open /\ paths[d] = {}
    /\ session # "deleted" => Deletion \notin open /\ paths[Deletion] = {}
    /\ \A w \in Workers : left[w] \subseteq paths[work[w]]

\* The files of a request are in no row and in nobody else's job until its
\* message owns them, and the paths read for a deletion are still the rows.
FileInv ==
    /\ \A r \in Requests : pc[r] # "over" \/ r \in open => FilesOf[r] \cap rows = {}
    /\ \A j \in Jobs \ Requests : paths[j] \cap rows = {}
    /\ \A j \in Jobs \ Requests, r \in Requests :
          pc[r] # "over" => paths[j] \cap FilesOf[r] = {}
    /\ \A p, r \in Requests : pc[r] # "over" => attach[p] \cap FilesOf[r] = {}
    /\ session = "captured" => captured = rows

\* The fence: once a worker deletes on a staging job the request has lost its
\* claim for good, and a request that has it finds what it wrote.
FenceInv ==
    /\ \A w \in Workers, r \in Requests :
          (work[w] = r /\ left[w] # {}) => ~Owns(r) /\ FilesOf[r] \cap rows = {}
    /\ \A r \in Requests :
          Owns(r) /\ pc[r] = "write" => FilesOf[r] \ left[r] \subseteq disk
    /\ \A r \in Requests : Owns(r) /\ pc[r] = "commit" => FilesOf[r] \subseteq disk

\* Of the paths of a job, its owner has deleted all but what it has left.
DoneInv ==
    /\ \A c \in Claimants :
          Owns(c) /\ pc[c] \in {"delete", "sweep", "rollback"} =>
              paths[work[c]] \cap disk \subseteq left[c] \cup leaked
    /\ \A c \in Claimants :
          Owns(c) /\ pc[c] \in {"refs", "worktree", "verify", "complete"} =>
              paths[work[c]] \cap disk \subseteq leaked

\* The refs are gone before the worktree is.
GitInv ==
    /\ ~worktree => ~refs
    /\ \A w \in Workers : pc[w] = "worktree" => ~refs
    /\ \A w \in Workers :
          work[w] = Deletion /\ pc[w] \in {"sweep", "verify", "complete"} => ~worktree

--------------------------------------------------------------------------------
\* Every step keeps the types.
LEMMA TypeStep ==
    ASSUME TypeOK, [Next]_vars
    PROVE  TypeOK'
<1> USE NamesAssumption, FilesAssumption DEF Jobs, Workers, Claimants, TypeOK
<1>1. ASSUME NEW r \in Requests, Stage(r) PROVE TypeOK'
    BY <1>1 DEF Stage, Goto, Insert, fileVars, ownerVars
<1>2. ASSUME NEW r \in Requests, WriteFile(r) PROVE TypeOK'
    BY <1>2 DEF WriteFile, Goto, Written, ownerVars, jobVars
<1>3. ASSUME NEW r \in Requests, CommitMessage(r) PROVE TypeOK'
    BY <1>3 DEF CommitMessage, Goto, Consume, fileVars
<1>4. ASSUME NEW r \in Requests, NEW p \in Requests, NEW d \in Removals, NEW gone \in
            SUBSET attach[p], CommitUpdate(r, p, gone, d)
      PROVE  TypeOK'
    BY <1>4 DEF CommitUpdate, fileVars
<1>5. ASSUME NEW r \in Requests, CommitFails(r) PROVE TypeOK'
    BY <1>5 DEF CommitFails, Goto, fileVars, ownerVars, jobVars
<1>6. ASSUME NEW r \in Requests, DropLost(r) PROVE TypeOK'
    BY <1>6 DEF DropLost, Goto, fileVars, ownerVars, jobVars
<1>7. ASSUME NEW r \in Requests, DropOwned(r) PROVE TypeOK'
    BY <1>7 DEF DropOwned, Goto, fileVars, ownerVars
<1>8. ASSUME NEW r \in Requests, RollBack(r) PROVE TypeOK'
    BY <1>8 DEF RollBack, Goto, ownerVars, jobVars
<1>9. ASSUME NEW r \in Requests, Launch(r) PROVE TypeOK'
    BY <1>9 DEF Launch, fileVars, jobVars, taskVars
<1>10. ASSUME NEW p \in Requests, NEW d \in Removals, NEW gone \in SUBSET attach[p],
            RemoveQueued(p, gone, d)
      PROVE  TypeOK'
    BY <1>10 DEF RemoveQueued, Goto, Insert, fileVars
<1>11. ASSUME BeginDelete PROVE TypeOK'
    BY <1>11 DEF BeginDelete, fileVars, jobVars, taskVars
<1>12. ASSUME CapturePaths PROVE TypeOK'
    BY <1>12 DEF CapturePaths, fileVars, jobVars, taskVars
<1>13. ASSUME CommitDelete PROVE TypeOK'
    BY <1>13 DEF CommitDelete, Goto, Insert, fileVars
<1>14. ASSUME NEW d \in Workers \ Retries, ClaimScheduled(d) PROVE TypeOK'
    BY <1>14 DEF ClaimScheduled, Claim, Goto, Claimable, AfterFiles, fileVars, ownerVars
<1>15. ASSUME NEW d \in Workers \ Retries, NotClaimed(d) PROVE TypeOK'
    BY <1>15 DEF NotClaimed, Goto, Claimable, fileVars, ownerVars, jobVars
<1>16. ASSUME NEW w \in Retries, NEW j \in Jobs, ClaimNext(w, j) PROVE TypeOK'
    BY <1>16 DEF ClaimNext, Claim, Goto, Claimable, AfterFiles, fileVars, ownerVars
<1>17. ASSUME NEW j \in Jobs, DelayPasses(j) PROVE TypeOK'
    BY <1>17 DEF DelayPasses, fileVars, ownerVars, taskVars
<1>18. ASSUME NEW j \in Jobs, LeaseRunsOut(j) PROVE TypeOK'
    BY <1>18 DEF LeaseRunsOut, fileVars, ownerVars, taskVars
<1>19. ASSUME NEW w \in Workers, DeleteFile(w) PROVE TypeOK'
    BY <1>19 DEF DeleteFile, Goto, AfterFiles, Deleting, ownerVars, jobVars
<1>20. ASSUME NEW w \in Workers, RemoveFromGit(w) PROVE TypeOK'
    BY <1>20 DEF RemoveFromGit, Goto, ownerVars, jobVars
<1>21. ASSUME NEW w \in Workers, Interrupted(w) PROVE TypeOK'
    BY <1>21 DEF Interrupted, Goto, fileVars, ownerVars, jobVars
<1>22. ASSUME NEW w \in Workers, Verify(w) PROVE TypeOK'
    BY <1>22 DEF Verify, Goto, fileVars, ownerVars
<1>23. ASSUME NEW c \in Claimants, Heartbeat(c) PROVE TypeOK'
    BY <1>23 DEF Heartbeat, Beating, fileVars, ownerVars
<1>24. ASSUME NEW c \in Claimants, Retire(c) PROVE TypeOK'
    BY <1>24 DEF Retire, Goto, fileVars, ownerVars
<1>25. ASSUME NEW c \in Claimants, Release(c) PROVE TypeOK'
    BY <1>25 DEF Release, Goto, fileVars, ownerVars
<1>26. ASSUME NEW c \in Claimants, RetireFails(c) PROVE TypeOK'
    BY <1>26 DEF RetireFails, Goto, Mishap, fileVars, ownerVars, jobVars
<1>27. ASSUME NEW c \in Claimants, HeartbeatFails(c) PROVE TypeOK'
    BY <1>27 DEF HeartbeatFails, Mishap, Beating, fileVars, ownerVars, jobVars
<1>28. ASSUME NEW r \in Requests, WriteFails(r) PROVE TypeOK'
    BY <1>28 DEF WriteFails, Goto, Mishap, Written, fileVars, ownerVars, jobVars
<1>29. ASSUME NEW r \in Requests, DropUnsure(r) PROVE TypeOK'
    BY <1>29 DEF DropUnsure, Goto, Mishap, fileVars, ownerVars, jobVars
<1>30. ASSUME NEW r \in Requests, RollBackFails(r) PROVE TypeOK'
    BY <1>30 DEF RollBackFails, Goto, Mishap, fileVars, ownerVars, jobVars
<1>31. ASSUME NEW w \in Workers, DeleteFileFails(w) PROVE TypeOK'
    BY <1>31 DEF DeleteFileFails, Goto, Mishap, AfterFiles, Deleting, fileVars,
       ownerVars, jobVars
<1>32. ASSUME NEW w \in Workers, SessionCleanupFails(w) PROVE TypeOK'
    BY <1>32 DEF SessionCleanupFails, Goto, Mishap, fileVars, ownerVars, jobVars
<1>33. ASSUME NEW j \in Jobs, Stall(j) PROVE TypeOK'
    BY <1>33 DEF Stall, Mishap, fileVars, ownerVars, taskVars
<1>34. ASSUME DeleteFails PROVE TypeOK'
    BY <1>34 DEF DeleteFails, Mishap, fileVars, jobVars, taskVars
<1>35. ASSUME Restart PROVE TypeOK'
    BY <1>35 DEF Restart, Mishap, fileVars, jobVars
<1>36. CASE UNCHANGED vars
    BY <1>36 DEF vars, fileVars, ownerVars, jobVars, taskVars
<1> HIDE DEF TypeOK, Jobs, Workers, Claimants
<1>q. QED
    BY <1>1, <1>2, <1>3, <1>4, <1>5, <1>6, <1>7, <1>8, <1>9, <1>10, <1>11, <1>12, <1>13,
       <1>14, <1>15, <1>16, <1>17, <1>18, <1>19, <1>20, <1>21, <1>22, <1>23, <1>24,
       <1>25, <1>26, <1>27, <1>28, <1>29, <1>30, <1>31, <1>32, <1>33, <1>34, <1>35,
       <1>36 DEF Next, RequestStep, WorkerStep, Settle, Fault


\* Claimants other than retry workers work on their own job only, and a job
\* that is not open has no token.
LEMMA TaskStep ==
    ASSUME TypeOK, TaskInv, PathInv, [Next]_vars
    PROVE  TaskInv'
<1> USE NamesAssumption, FilesAssumption DEF Jobs, Workers, Claimants, TypeOK, TaskInv,
   PathInv, Owns
<1>1. ASSUME NEW r \in Requests, Stage(r) PROVE TaskInv'
    BY <1>1 DEF Stage, Goto, Insert, fileVars, ownerVars
<1>2. ASSUME NEW r \in Requests, WriteFile(r) PROVE TaskInv'
    BY <1>2 DEF WriteFile, Goto, Written, ownerVars, jobVars
<1>3. ASSUME NEW r \in Requests, CommitMessage(r) PROVE TaskInv'
    BY <1>3 DEF CommitMessage, Goto, Consume, fileVars
<1>4. ASSUME NEW r \in Requests, NEW p \in Requests, NEW d \in Removals, NEW gone \in
            SUBSET attach[p], CommitUpdate(r, p, gone, d)
      PROVE  TaskInv'
    BY <1>4 DEF CommitUpdate, fileVars
<1>5. ASSUME NEW r \in Requests, CommitFails(r) PROVE TaskInv'
    BY <1>5 DEF CommitFails, Goto, fileVars, ownerVars, jobVars
<1>6. ASSUME NEW r \in Requests, DropLost(r) PROVE TaskInv'
    BY <1>6 DEF DropLost, Goto, fileVars, ownerVars, jobVars
<1>7. ASSUME NEW r \in Requests, DropOwned(r) PROVE TaskInv'
    BY <1>7 DEF DropOwned, Goto, fileVars, ownerVars
<1>8. ASSUME NEW r \in Requests, RollBack(r) PROVE TaskInv'
    BY <1>8 DEF RollBack, Goto, ownerVars, jobVars
<1>9. ASSUME NEW r \in Requests, Launch(r) PROVE TaskInv'
    BY <1>9 DEF Launch, fileVars, jobVars, taskVars
<1>10. ASSUME NEW p \in Requests, NEW d \in Removals, NEW gone \in SUBSET attach[p],
            RemoveQueued(p, gone, d)
      PROVE  TaskInv'
    BY <1>10 DEF RemoveQueued, Goto, Insert, fileVars
<1>11. ASSUME BeginDelete PROVE TaskInv'
    BY <1>11 DEF BeginDelete, fileVars, jobVars, taskVars
<1>12. ASSUME CapturePaths PROVE TaskInv'
    BY <1>12 DEF CapturePaths, fileVars, jobVars, taskVars
<1>13. ASSUME CommitDelete PROVE TaskInv'
    BY <1>13 DEF CommitDelete, Goto, Insert, fileVars
<1>14. ASSUME NEW d \in Workers \ Retries, ClaimScheduled(d) PROVE TaskInv'
    BY <1>14 DEF ClaimScheduled, Claim, Goto, Claimable, AfterFiles, fileVars, ownerVars
<1>15. ASSUME NEW d \in Workers \ Retries, NotClaimed(d) PROVE TaskInv'
    BY <1>15 DEF NotClaimed, Goto, Claimable, fileVars, ownerVars, jobVars
<1>16. ASSUME NEW w \in Retries, NEW j \in Jobs, ClaimNext(w, j) PROVE TaskInv'
    BY <1>16 DEF ClaimNext, Claim, Goto, Claimable, AfterFiles, fileVars, ownerVars
<1>17. ASSUME NEW j \in Jobs, DelayPasses(j) PROVE TaskInv'
    BY <1>17 DEF DelayPasses, fileVars, ownerVars, taskVars
<1>18. ASSUME NEW j \in Jobs, LeaseRunsOut(j) PROVE TaskInv'
    BY <1>18 DEF LeaseRunsOut, fileVars, ownerVars, taskVars
<1>19. ASSUME NEW w \in Workers, DeleteFile(w) PROVE TaskInv'
    BY <1>19 DEF DeleteFile, Goto, AfterFiles, Deleting, ownerVars, jobVars
<1>20. ASSUME NEW w \in Workers, RemoveFromGit(w) PROVE TaskInv'
    BY <1>20 DEF RemoveFromGit, Goto, ownerVars, jobVars
<1>21. ASSUME NEW w \in Workers, Interrupted(w) PROVE TaskInv'
    BY <1>21 DEF Interrupted, Goto, fileVars, ownerVars, jobVars
<1>22. ASSUME NEW w \in Workers, Verify(w) PROVE TaskInv'
    BY <1>22 DEF Verify, Goto, fileVars, ownerVars
<1>23. ASSUME NEW c \in Claimants, Heartbeat(c) PROVE TaskInv'
    BY <1>23 DEF Heartbeat, Beating, fileVars, ownerVars
<1>24. ASSUME NEW c \in Claimants, Retire(c) PROVE TaskInv'
    BY <1>24 DEF Retire, Goto, fileVars, ownerVars
<1>25. ASSUME NEW c \in Claimants, Release(c) PROVE TaskInv'
    BY <1>25 DEF Release, Goto, fileVars, ownerVars
<1>26. ASSUME NEW c \in Claimants, RetireFails(c) PROVE TaskInv'
    BY <1>26 DEF RetireFails, Goto, Mishap, fileVars, ownerVars, jobVars
<1>27. ASSUME NEW c \in Claimants, HeartbeatFails(c) PROVE TaskInv'
    BY <1>27 DEF HeartbeatFails, Mishap, Beating, fileVars, ownerVars, jobVars
<1>28. ASSUME NEW r \in Requests, WriteFails(r) PROVE TaskInv'
    BY <1>28 DEF WriteFails, Goto, Mishap, Written, fileVars, ownerVars, jobVars
<1>29. ASSUME NEW r \in Requests, DropUnsure(r) PROVE TaskInv'
    BY <1>29 DEF DropUnsure, Goto, Mishap, fileVars, ownerVars, jobVars
<1>30. ASSUME NEW r \in Requests, RollBackFails(r) PROVE TaskInv'
    BY <1>30 DEF RollBackFails, Goto, Mishap, fileVars, ownerVars, jobVars
<1>31. ASSUME NEW w \in Workers, DeleteFileFails(w) PROVE TaskInv'
    BY <1>31 DEF DeleteFileFails, Goto, Mishap, AfterFiles, Deleting, fileVars,
       ownerVars, jobVars
<1>32. ASSUME NEW w \in Workers, SessionCleanupFails(w) PROVE TaskInv'
    BY <1>32 DEF SessionCleanupFails, Goto, Mishap, fileVars, ownerVars, jobVars
<1>33. ASSUME NEW j \in Jobs, Stall(j) PROVE TaskInv'
    BY <1>33 DEF Stall, Mishap, fileVars, ownerVars, taskVars
<1>34. ASSUME DeleteFails PROVE TaskInv'
    BY <1>34 DEF DeleteFails, Mishap, fileVars, jobVars, taskVars
<1>35. ASSUME Restart PROVE TaskInv'
    BY <1>35 DEF Restart, Mishap, fileVars, jobVars
<1>36. CASE UNCHANGED vars
    BY <1>36 DEF vars, fileVars, ownerVars, jobVars, taskVars
<1> HIDE DEF TypeOK, TaskInv, PathInv, Owns, Jobs, Workers, Claimants
<1>q. QED
    BY <1>1, <1>2, <1>3, <1>4, <1>5, <1>6, <1>7, <1>8, <1>9, <1>10, <1>11, <1>12, <1>13,
       <1>14, <1>15, <1>16, <1>17, <1>18, <1>19, <1>20, <1>21, <1>22, <1>23, <1>24,
       <1>25, <1>26, <1>27, <1>28, <1>29, <1>30, <1>31, <1>32, <1>33, <1>34, <1>35,
       <1>36 DEF Next, RequestStep, WorkerStep, Settle, Fault


\* No step changes the paths of an open job.
LEMMA PathStep ==
    ASSUME TypeOK, TaskInv, PathInv, [Next]_vars
    PROVE  PathInv'
<1> USE NamesAssumption, FilesAssumption DEF Jobs, Workers, Claimants, TypeOK, TaskInv,
   PathInv, Owns
<1>1. ASSUME NEW r \in Requests, Stage(r) PROVE PathInv'
  <2> USE <1>1 DEF Stage, Goto, Insert, fileVars, ownerVars
  <2>1. \A j \in Jobs : paths[j] \subseteq paths'[j]
    OBVIOUS
  <2>2. \A w \in Workers : left'[w] = left[w] /\ work'[w] = work[w] /\ work[w] \in Jobs
    OBVIOUS
  <2>3. \A w \in Workers : left'[w] \subseteq paths'[work'[w]]
    BY <2>1, <2>2
  <2>4. \A q \in Requests : paths'[q] = IF pc'[q] = "off" THEN {} ELSE FilesOf[q]
    OBVIOUS
  <2>5. \A q \in Requests : pc'[q] = "off" => q \notin open'
    OBVIOUS
  <2>6. \A e \in Removals \ minted' : e \notin open' /\ paths'[e] = {}
    OBVIOUS
  <2>7. session' # "deleted" => Deletion \notin open' /\ paths'[Deletion] = {}
    OBVIOUS
  <2>8. QED BY <2>3, <2>4, <2>5, <2>6, <2>7
<1>2. ASSUME NEW r \in Requests, WriteFile(r) PROVE PathInv'
    BY <1>2 DEF WriteFile, Goto, Written, ownerVars, jobVars
<1>3. ASSUME NEW r \in Requests, CommitMessage(r) PROVE PathInv'
    BY <1>3 DEF CommitMessage, Goto, Consume, fileVars
<1>4. ASSUME NEW r \in Requests, NEW p \in Requests, NEW d \in Removals, NEW gone \in
            SUBSET attach[p], CommitUpdate(r, p, gone, d)
      PROVE  PathInv'
  <2> USE <1>4 DEF CommitUpdate, fileVars
  <2>1. \A j \in Jobs : paths[j] \subseteq paths'[j]
    OBVIOUS
  <2>2. \A w \in Workers : left'[w] = left[w] /\ work'[w] = work[w] /\ work[w] \in Jobs
    OBVIOUS
  <2>3. \A w \in Workers : left'[w] \subseteq paths'[work'[w]]
    BY <2>1, <2>2
  <2>4. \A q \in Requests : paths'[q] = IF pc'[q] = "off" THEN {} ELSE FilesOf[q]
    <3>1. \A q \in Requests : paths'[q] = paths[q] /\ (pc'[q] = "off" <=> pc[q] = "off")
      OBVIOUS
    <3>2. QED BY <3>1
  <2>5. \A q \in Requests : pc'[q] = "off" => q \notin open'
    OBVIOUS
  <2>6. \A e \in Removals \ minted' : e \notin open' /\ paths'[e] = {}
    OBVIOUS
  <2>7. session' # "deleted" => Deletion \notin open' /\ paths'[Deletion] = {}
    OBVIOUS
  <2>8. QED BY <2>3, <2>4, <2>5, <2>6, <2>7
<1>5. ASSUME NEW r \in Requests, CommitFails(r) PROVE PathInv'
    BY <1>5 DEF CommitFails, Goto, fileVars, ownerVars, jobVars
<1>6. ASSUME NEW r \in Requests, DropLost(r) PROVE PathInv'
    BY <1>6 DEF DropLost, Goto, fileVars, ownerVars, jobVars
<1>7. ASSUME NEW r \in Requests, DropOwned(r) PROVE PathInv'
    BY <1>7 DEF DropOwned, Goto, fileVars, ownerVars
<1>8. ASSUME NEW r \in Requests, RollBack(r) PROVE PathInv'
    BY <1>8 DEF RollBack, Goto, ownerVars, jobVars
<1>9. ASSUME NEW r \in Requests, Launch(r) PROVE PathInv'
    BY <1>9 DEF Launch, fileVars, jobVars, taskVars
<1>10. ASSUME NEW p \in Requests, NEW d \in Removals, NEW gone \in SUBSET attach[p],
            RemoveQueued(p, gone, d)
      PROVE  PathInv'
  <2> USE <1>10 DEF RemoveQueued, Goto, Insert, fileVars
  <2>1. \A j \in Jobs : paths[j] \subseteq paths'[j]
    OBVIOUS
  <2>2. \A w \in Workers : left'[w] = left[w] /\ work'[w] = work[w] /\ work[w] \in Jobs
    OBVIOUS
  <2>3. \A w \in Workers : left'[w] \subseteq paths'[work'[w]]
    BY <2>1, <2>2
  <2>4. \A q \in Requests : paths'[q] = IF pc'[q] = "off" THEN {} ELSE FilesOf[q]
    <3>1. \A q \in Requests : paths'[q] = paths[q] /\ (pc'[q] = "off" <=> pc[q] = "off")
      OBVIOUS
    <3>2. QED BY <3>1
  <2>5. \A q \in Requests : pc'[q] = "off" => q \notin open'
    OBVIOUS
  <2>6. \A e \in Removals \ minted' : e \notin open' /\ paths'[e] = {}
    OBVIOUS
  <2>7. session' # "deleted" => Deletion \notin open' /\ paths'[Deletion] = {}
    OBVIOUS
  <2>8. QED BY <2>3, <2>4, <2>5, <2>6, <2>7
<1>11. ASSUME BeginDelete PROVE PathInv'
    BY <1>11 DEF BeginDelete, fileVars, jobVars, taskVars
<1>12. ASSUME CapturePaths PROVE PathInv'
    BY <1>12 DEF CapturePaths, fileVars, jobVars, taskVars
<1>13. ASSUME CommitDelete PROVE PathInv'
  <2> USE <1>13 DEF CommitDelete, Goto, Insert, fileVars
  <2>1. \A j \in Jobs : paths[j] \subseteq paths'[j]
    OBVIOUS
  <2>2. \A w \in Workers : left'[w] = left[w] /\ work'[w] = work[w] /\ work[w] \in Jobs
    OBVIOUS
  <2>3. \A w \in Workers : left'[w] \subseteq paths'[work'[w]]
    BY <2>1, <2>2
  <2>4. \A q \in Requests : paths'[q] = IF pc'[q] = "off" THEN {} ELSE FilesOf[q]
    <3>1. \A q \in Requests : paths'[q] = paths[q] /\ (pc'[q] = "off" <=> pc[q] = "off")
      OBVIOUS
    <3>2. QED BY <3>1
  <2>5. \A q \in Requests : pc'[q] = "off" => q \notin open'
    OBVIOUS
  <2>6. \A e \in Removals \ minted' : e \notin open' /\ paths'[e] = {}
    OBVIOUS
  <2>7. session' # "deleted" => Deletion \notin open' /\ paths'[Deletion] = {}
    OBVIOUS
  <2>8. QED BY <2>3, <2>4, <2>5, <2>6, <2>7
<1>14. ASSUME NEW d \in Workers \ Retries, ClaimScheduled(d) PROVE PathInv'
    BY <1>14 DEF ClaimScheduled, Claim, Goto, Claimable, AfterFiles, fileVars, ownerVars
<1>15. ASSUME NEW d \in Workers \ Retries, NotClaimed(d) PROVE PathInv'
    BY <1>15 DEF NotClaimed, Goto, Claimable, fileVars, ownerVars, jobVars
<1>16. ASSUME NEW w \in Retries, NEW j \in Jobs, ClaimNext(w, j) PROVE PathInv'
    BY <1>16 DEF ClaimNext, Claim, Goto, Claimable, AfterFiles, fileVars, ownerVars
<1>17. ASSUME NEW j \in Jobs, DelayPasses(j) PROVE PathInv'
    BY <1>17 DEF DelayPasses, fileVars, ownerVars, taskVars
<1>18. ASSUME NEW j \in Jobs, LeaseRunsOut(j) PROVE PathInv'
    BY <1>18 DEF LeaseRunsOut, fileVars, ownerVars, taskVars
<1>19. ASSUME NEW w \in Workers, DeleteFile(w) PROVE PathInv'
    BY <1>19 DEF DeleteFile, Goto, AfterFiles, Deleting, ownerVars, jobVars
<1>20. ASSUME NEW w \in Workers, RemoveFromGit(w) PROVE PathInv'
    BY <1>20 DEF RemoveFromGit, Goto, ownerVars, jobVars
<1>21. ASSUME NEW w \in Workers, Interrupted(w) PROVE PathInv'
    BY <1>21 DEF Interrupted, Goto, fileVars, ownerVars, jobVars
<1>22. ASSUME NEW w \in Workers, Verify(w) PROVE PathInv'
    BY <1>22 DEF Verify, Goto, fileVars, ownerVars
<1>23. ASSUME NEW c \in Claimants, Heartbeat(c) PROVE PathInv'
    BY <1>23 DEF Heartbeat, Beating, fileVars, ownerVars
<1>24. ASSUME NEW c \in Claimants, Retire(c) PROVE PathInv'
    BY <1>24 DEF Retire, Goto, fileVars, ownerVars
<1>25. ASSUME NEW c \in Claimants, Release(c) PROVE PathInv'
    BY <1>25 DEF Release, Goto, fileVars, ownerVars
<1>26. ASSUME NEW c \in Claimants, RetireFails(c) PROVE PathInv'
    BY <1>26 DEF RetireFails, Goto, Mishap, fileVars, ownerVars, jobVars
<1>27. ASSUME NEW c \in Claimants, HeartbeatFails(c) PROVE PathInv'
    BY <1>27 DEF HeartbeatFails, Mishap, Beating, fileVars, ownerVars, jobVars
<1>28. ASSUME NEW r \in Requests, WriteFails(r) PROVE PathInv'
    BY <1>28 DEF WriteFails, Goto, Mishap, Written, fileVars, ownerVars, jobVars
<1>29. ASSUME NEW r \in Requests, DropUnsure(r) PROVE PathInv'
    BY <1>29 DEF DropUnsure, Goto, Mishap, fileVars, ownerVars, jobVars
<1>30. ASSUME NEW r \in Requests, RollBackFails(r) PROVE PathInv'
    BY <1>30 DEF RollBackFails, Goto, Mishap, fileVars, ownerVars, jobVars
<1>31. ASSUME NEW w \in Workers, DeleteFileFails(w) PROVE PathInv'
    BY <1>31 DEF DeleteFileFails, Goto, Mishap, AfterFiles, Deleting, fileVars,
       ownerVars, jobVars
<1>32. ASSUME NEW w \in Workers, SessionCleanupFails(w) PROVE PathInv'
    BY <1>32 DEF SessionCleanupFails, Goto, Mishap, fileVars, ownerVars, jobVars
<1>33. ASSUME NEW j \in Jobs, Stall(j) PROVE PathInv'
    BY <1>33 DEF Stall, Mishap, fileVars, ownerVars, taskVars
<1>34. ASSUME DeleteFails PROVE PathInv'
    BY <1>34 DEF DeleteFails, Mishap, fileVars, jobVars, taskVars
<1>35. ASSUME Restart PROVE PathInv'
    BY <1>35 DEF Restart, Mishap, fileVars, jobVars
<1>36. CASE UNCHANGED vars
    BY <1>36 DEF vars, fileVars, ownerVars, jobVars, taskVars
<1> HIDE DEF TypeOK, TaskInv, PathInv, Owns, Jobs, Workers, Claimants
<1>q. QED
    BY <1>1, <1>2, <1>3, <1>4, <1>5, <1>6, <1>7, <1>8, <1>9, <1>10, <1>11, <1>12, <1>13,
       <1>14, <1>15, <1>16, <1>17, <1>18, <1>19, <1>20, <1>21, <1>22, <1>23, <1>24,
       <1>25, <1>26, <1>27, <1>28, <1>29, <1>30, <1>31, <1>32, <1>33, <1>34, <1>35,
       <1>36 DEF Next, RequestStep, WorkerStep, Settle, Fault


\* Files enter the rows only with their request, and leave them into a job.
LEMMA FileStep ==
    ASSUME TypeOK, TaskInv, PathInv, FileInv, [Next]_vars
    PROVE  FileInv'
<1> USE NamesAssumption, FilesAssumption DEF Jobs, Workers, Claimants, TypeOK, TaskInv,
   PathInv, FileInv, Owns
<1>1. ASSUME NEW r \in Requests, Stage(r) PROVE FileInv'
    BY <1>1 DEF Stage, Goto, Insert, fileVars, ownerVars
<1>2. ASSUME NEW r \in Requests, WriteFile(r) PROVE FileInv'
    BY <1>2 DEF WriteFile, Goto, Written, ownerVars, jobVars
<1>3. ASSUME NEW r \in Requests, CommitMessage(r) PROVE FileInv'
    BY <1>3 DEF CommitMessage, Goto, Consume, fileVars
<1>4. ASSUME NEW r \in Requests, NEW p \in Requests, NEW d \in Removals, NEW gone \in
            SUBSET attach[p], CommitUpdate(r, p, gone, d)
      PROVE  FileInv'
    BY <1>4 DEF CommitUpdate, fileVars
<1>5. ASSUME NEW r \in Requests, CommitFails(r) PROVE FileInv'
    BY <1>5 DEF CommitFails, Goto, fileVars, ownerVars, jobVars
<1>6. ASSUME NEW r \in Requests, DropLost(r) PROVE FileInv'
    BY <1>6 DEF DropLost, Goto, fileVars, ownerVars, jobVars
<1>7. ASSUME NEW r \in Requests, DropOwned(r) PROVE FileInv'
    BY <1>7 DEF DropOwned, Goto, fileVars, ownerVars
<1>8. ASSUME NEW r \in Requests, RollBack(r) PROVE FileInv'
    BY <1>8 DEF RollBack, Goto, ownerVars, jobVars
<1>9. ASSUME NEW r \in Requests, Launch(r) PROVE FileInv'
    BY <1>9 DEF Launch, fileVars, jobVars, taskVars
<1>10. ASSUME NEW p \in Requests, NEW d \in Removals, NEW gone \in SUBSET attach[p],
            RemoveQueued(p, gone, d)
      PROVE  FileInv'
    BY <1>10 DEF RemoveQueued, Goto, Insert, fileVars
<1>11. ASSUME BeginDelete PROVE FileInv'
    BY <1>11 DEF BeginDelete, fileVars, jobVars, taskVars
<1>12. ASSUME CapturePaths PROVE FileInv'
    BY <1>12 DEF CapturePaths, fileVars, jobVars, taskVars
<1>13. ASSUME CommitDelete PROVE FileInv'
    BY <1>13 DEF CommitDelete, Goto, Insert, fileVars
<1>14. ASSUME NEW d \in Workers \ Retries, ClaimScheduled(d) PROVE FileInv'
    BY <1>14 DEF ClaimScheduled, Claim, Goto, Claimable, AfterFiles, fileVars, ownerVars
<1>15. ASSUME NEW d \in Workers \ Retries, NotClaimed(d) PROVE FileInv'
    BY <1>15 DEF NotClaimed, Goto, Claimable, fileVars, ownerVars, jobVars
<1>16. ASSUME NEW w \in Retries, NEW j \in Jobs, ClaimNext(w, j) PROVE FileInv'
    BY <1>16 DEF ClaimNext, Claim, Goto, Claimable, AfterFiles, fileVars, ownerVars
<1>17. ASSUME NEW j \in Jobs, DelayPasses(j) PROVE FileInv'
    BY <1>17 DEF DelayPasses, fileVars, ownerVars, taskVars
<1>18. ASSUME NEW j \in Jobs, LeaseRunsOut(j) PROVE FileInv'
    BY <1>18 DEF LeaseRunsOut, fileVars, ownerVars, taskVars
<1>19. ASSUME NEW w \in Workers, DeleteFile(w) PROVE FileInv'
    BY <1>19 DEF DeleteFile, Goto, AfterFiles, Deleting, ownerVars, jobVars
<1>20. ASSUME NEW w \in Workers, RemoveFromGit(w) PROVE FileInv'
    BY <1>20 DEF RemoveFromGit, Goto, ownerVars, jobVars
<1>21. ASSUME NEW w \in Workers, Interrupted(w) PROVE FileInv'
    BY <1>21 DEF Interrupted, Goto, fileVars, ownerVars, jobVars
<1>22. ASSUME NEW w \in Workers, Verify(w) PROVE FileInv'
    BY <1>22 DEF Verify, Goto, fileVars, ownerVars
<1>23. ASSUME NEW c \in Claimants, Heartbeat(c) PROVE FileInv'
    BY <1>23 DEF Heartbeat, Beating, fileVars, ownerVars
<1>24. ASSUME NEW c \in Claimants, Retire(c) PROVE FileInv'
    BY <1>24 DEF Retire, Goto, fileVars, ownerVars
<1>25. ASSUME NEW c \in Claimants, Release(c) PROVE FileInv'
    BY <1>25 DEF Release, Goto, fileVars, ownerVars
<1>26. ASSUME NEW c \in Claimants, RetireFails(c) PROVE FileInv'
    BY <1>26 DEF RetireFails, Goto, Mishap, fileVars, ownerVars, jobVars
<1>27. ASSUME NEW c \in Claimants, HeartbeatFails(c) PROVE FileInv'
    BY <1>27 DEF HeartbeatFails, Mishap, Beating, fileVars, ownerVars, jobVars
<1>28. ASSUME NEW r \in Requests, WriteFails(r) PROVE FileInv'
    BY <1>28 DEF WriteFails, Goto, Mishap, Written, fileVars, ownerVars, jobVars
<1>29. ASSUME NEW r \in Requests, DropUnsure(r) PROVE FileInv'
    BY <1>29 DEF DropUnsure, Goto, Mishap, fileVars, ownerVars, jobVars
<1>30. ASSUME NEW r \in Requests, RollBackFails(r) PROVE FileInv'
    BY <1>30 DEF RollBackFails, Goto, Mishap, fileVars, ownerVars, jobVars
<1>31. ASSUME NEW w \in Workers, DeleteFileFails(w) PROVE FileInv'
    BY <1>31 DEF DeleteFileFails, Goto, Mishap, AfterFiles, Deleting, fileVars,
       ownerVars, jobVars
<1>32. ASSUME NEW w \in Workers, SessionCleanupFails(w) PROVE FileInv'
    BY <1>32 DEF SessionCleanupFails, Goto, Mishap, fileVars, ownerVars, jobVars
<1>33. ASSUME NEW j \in Jobs, Stall(j) PROVE FileInv'
    BY <1>33 DEF Stall, Mishap, fileVars, ownerVars, taskVars
<1>34. ASSUME DeleteFails PROVE FileInv'
    BY <1>34 DEF DeleteFails, Mishap, fileVars, jobVars, taskVars
<1>35. ASSUME Restart PROVE FileInv'
    BY <1>35 DEF Restart, Mishap, fileVars, jobVars
<1>36. CASE UNCHANGED vars
    BY <1>36 DEF vars, fileVars, ownerVars, jobVars, taskVars
<1> HIDE DEF TypeOK, TaskInv, PathInv, FileInv, Owns, Jobs, Workers, Claimants
<1>q. QED
    BY <1>1, <1>2, <1>3, <1>4, <1>5, <1>6, <1>7, <1>8, <1>9, <1>10, <1>11, <1>12, <1>13,
       <1>14, <1>15, <1>16, <1>17, <1>18, <1>19, <1>20, <1>21, <1>22, <1>23, <1>24,
       <1>25, <1>26, <1>27, <1>28, <1>29, <1>30, <1>31, <1>32, <1>33, <1>34, <1>35,
       <1>36 DEF Next, RequestStep, WorkerStep, Settle, Fault


\* Taking a staging job over and committing it exclude each other.
LEMMA FenceStep ==
    ASSUME TypeOK, TaskInv, PathInv, FileInv, FenceInv, [Next]_vars
    PROVE  FenceInv'
<1> USE NamesAssumption, FilesAssumption DEF Jobs, Workers, Claimants, TypeOK, TaskInv,
   PathInv, FileInv, FenceInv, Owns
<1>1. ASSUME NEW r \in Requests, Stage(r) PROVE FenceInv'
    BY <1>1 DEF Stage, Goto, Insert, fileVars, ownerVars
<1>2. ASSUME NEW r \in Requests, WriteFile(r) PROVE FenceInv'
    BY <1>2 DEF WriteFile, Goto, Written, ownerVars, jobVars
<1>3. ASSUME NEW r \in Requests, CommitMessage(r) PROVE FenceInv'
    BY <1>3 DEF CommitMessage, Goto, Consume, fileVars
<1>4. ASSUME NEW r \in Requests, NEW p \in Requests, NEW d \in Removals, NEW gone \in
            SUBSET attach[p], CommitUpdate(r, p, gone, d)
      PROVE  FenceInv'
    BY <1>4 DEF CommitUpdate, fileVars
<1>5. ASSUME NEW r \in Requests, CommitFails(r) PROVE FenceInv'
    BY <1>5 DEF CommitFails, Goto, fileVars, ownerVars, jobVars
<1>6. ASSUME NEW r \in Requests, DropLost(r) PROVE FenceInv'
    BY <1>6 DEF DropLost, Goto, fileVars, ownerVars, jobVars
<1>7. ASSUME NEW r \in Requests, DropOwned(r) PROVE FenceInv'
    BY <1>7 DEF DropOwned, Goto, fileVars, ownerVars
<1>8. ASSUME NEW r \in Requests, RollBack(r) PROVE FenceInv'
    BY <1>8 DEF RollBack, Goto, ownerVars, jobVars
<1>9. ASSUME NEW r \in Requests, Launch(r) PROVE FenceInv'
    BY <1>9 DEF Launch, fileVars, jobVars, taskVars
<1>10. ASSUME NEW p \in Requests, NEW d \in Removals, NEW gone \in SUBSET attach[p],
            RemoveQueued(p, gone, d)
      PROVE  FenceInv'
    BY <1>10 DEF RemoveQueued, Goto, Insert, fileVars
<1>11. ASSUME BeginDelete PROVE FenceInv'
    BY <1>11 DEF BeginDelete, fileVars, jobVars, taskVars
<1>12. ASSUME CapturePaths PROVE FenceInv'
    BY <1>12 DEF CapturePaths, fileVars, jobVars, taskVars
<1>13. ASSUME CommitDelete PROVE FenceInv'
    BY <1>13 DEF CommitDelete, Goto, Insert, fileVars
<1>14. ASSUME NEW d \in Workers \ Retries, ClaimScheduled(d) PROVE FenceInv'
    BY <1>14 DEF ClaimScheduled, Claim, Goto, Claimable, AfterFiles, fileVars, ownerVars
<1>15. ASSUME NEW d \in Workers \ Retries, NotClaimed(d) PROVE FenceInv'
    BY <1>15 DEF NotClaimed, Goto, Claimable, fileVars, ownerVars, jobVars
<1>16. ASSUME NEW w \in Retries, NEW j \in Jobs, ClaimNext(w, j) PROVE FenceInv'
  <2> USE <1>16 DEF ClaimNext, Claim, Goto, Claimable, AfterFiles, fileVars, ownerVars
  <2>1. ASSUME NEW v \in Workers, NEW r \in Requests, work'[v] = r, left'[v] # {}
        PROVE  ~Owns(r)' /\ FilesOf[r] \cap rows' = {}
    <3>1. CASE v = w
      BY <2>1, <3>1
    <3>2. CASE v # w
      BY <2>1, <3>2
    <3>3. QED BY <3>1, <3>2
  <2>2. ASSUME NEW r \in Requests, Owns(r)' PROVE Owns(r) /\ pc'[r] = pc[r] /\ left'[r] = left[r]
    BY <2>2
  <2>3. disk' = disk
    OBVIOUS
  <2>4. QED BY <2>1, <2>2, <2>3
<1>17. ASSUME NEW j \in Jobs, DelayPasses(j) PROVE FenceInv'
    BY <1>17 DEF DelayPasses, fileVars, ownerVars, taskVars
<1>18. ASSUME NEW j \in Jobs, LeaseRunsOut(j) PROVE FenceInv'
    BY <1>18 DEF LeaseRunsOut, fileVars, ownerVars, taskVars
<1>19. ASSUME NEW w \in Workers, DeleteFile(w) PROVE FenceInv'
    BY <1>19 DEF DeleteFile, Goto, AfterFiles, Deleting, ownerVars, jobVars
<1>20. ASSUME NEW w \in Workers, RemoveFromGit(w) PROVE FenceInv'
    BY <1>20 DEF RemoveFromGit, Goto, ownerVars, jobVars
<1>21. ASSUME NEW w \in Workers, Interrupted(w) PROVE FenceInv'
    BY <1>21 DEF Interrupted, Goto, fileVars, ownerVars, jobVars
<1>22. ASSUME NEW w \in Workers, Verify(w) PROVE FenceInv'
    BY <1>22 DEF Verify, Goto, fileVars, ownerVars
<1>23. ASSUME NEW c \in Claimants, Heartbeat(c) PROVE FenceInv'
    BY <1>23 DEF Heartbeat, Beating, fileVars, ownerVars
<1>24. ASSUME NEW c \in Claimants, Retire(c) PROVE FenceInv'
    BY <1>24 DEF Retire, Goto, fileVars, ownerVars
<1>25. ASSUME NEW c \in Claimants, Release(c) PROVE FenceInv'
    BY <1>25 DEF Release, Goto, fileVars, ownerVars
<1>26. ASSUME NEW c \in Claimants, RetireFails(c) PROVE FenceInv'
    BY <1>26 DEF RetireFails, Goto, Mishap, fileVars, ownerVars, jobVars
<1>27. ASSUME NEW c \in Claimants, HeartbeatFails(c) PROVE FenceInv'
    BY <1>27 DEF HeartbeatFails, Mishap, Beating, fileVars, ownerVars, jobVars
<1>28. ASSUME NEW r \in Requests, WriteFails(r) PROVE FenceInv'
    BY <1>28 DEF WriteFails, Goto, Mishap, Written, fileVars, ownerVars, jobVars
<1>29. ASSUME NEW r \in Requests, DropUnsure(r) PROVE FenceInv'
    BY <1>29 DEF DropUnsure, Goto, Mishap, fileVars, ownerVars, jobVars
<1>30. ASSUME NEW r \in Requests, RollBackFails(r) PROVE FenceInv'
    BY <1>30 DEF RollBackFails, Goto, Mishap, fileVars, ownerVars, jobVars
<1>31. ASSUME NEW w \in Workers, DeleteFileFails(w) PROVE FenceInv'
    BY <1>31 DEF DeleteFileFails, Goto, Mishap, AfterFiles, Deleting, fileVars,
       ownerVars, jobVars
<1>32. ASSUME NEW w \in Workers, SessionCleanupFails(w) PROVE FenceInv'
    BY <1>32 DEF SessionCleanupFails, Goto, Mishap, fileVars, ownerVars, jobVars
<1>33. ASSUME NEW j \in Jobs, Stall(j) PROVE FenceInv'
    BY <1>33 DEF Stall, Mishap, fileVars, ownerVars, taskVars
<1>34. ASSUME DeleteFails PROVE FenceInv'
    BY <1>34 DEF DeleteFails, Mishap, fileVars, jobVars, taskVars
<1>35. ASSUME Restart PROVE FenceInv'
    BY <1>35 DEF Restart, Mishap, fileVars, jobVars
<1>36. CASE UNCHANGED vars
    BY <1>36 DEF vars, fileVars, ownerVars, jobVars, taskVars
<1> HIDE DEF TypeOK, TaskInv, PathInv, FileInv, FenceInv, Owns, Jobs, Workers, Claimants
<1>q. QED
    BY <1>1, <1>2, <1>3, <1>4, <1>5, <1>6, <1>7, <1>8, <1>9, <1>10, <1>11, <1>12, <1>13,
       <1>14, <1>15, <1>16, <1>17, <1>18, <1>19, <1>20, <1>21, <1>22, <1>23, <1>24,
       <1>25, <1>26, <1>27, <1>28, <1>29, <1>30, <1>31, <1>32, <1>33, <1>34, <1>35,
       <1>36 DEF Next, RequestStep, WorkerStep, Settle, Fault


\* Whoever owns a job sees its files disappear: what is written under it after
\* that counts as leaked.
LEMMA DoneStep ==
    ASSUME TypeOK, TaskInv, PathInv, FileInv, DoneInv, [Next]_vars
    PROVE  DoneInv'
<1> USE NamesAssumption, FilesAssumption DEF Jobs, Workers, Claimants, TypeOK, TaskInv,
   PathInv, FileInv, DoneInv, Owns
<1>1. ASSUME NEW r \in Requests, Stage(r) PROVE DoneInv'
    BY <1>1 DEF Stage, Goto, Insert, fileVars, ownerVars
<1>2. ASSUME NEW r \in Requests, WriteFile(r) PROVE DoneInv'
    BY <1>2 DEF WriteFile, Goto, Written, ownerVars, jobVars
<1>3. ASSUME NEW r \in Requests, CommitMessage(r) PROVE DoneInv'
    BY <1>3 DEF CommitMessage, Goto, Consume, fileVars
<1>4. ASSUME NEW r \in Requests, NEW p \in Requests, NEW d \in Removals, NEW gone \in
            SUBSET attach[p], CommitUpdate(r, p, gone, d)
      PROVE  DoneInv'
    BY <1>4 DEF CommitUpdate, fileVars
<1>5. ASSUME NEW r \in Requests, CommitFails(r) PROVE DoneInv'
    BY <1>5 DEF CommitFails, Goto, fileVars, ownerVars, jobVars
<1>6. ASSUME NEW r \in Requests, DropLost(r) PROVE DoneInv'
    BY <1>6 DEF DropLost, Goto, fileVars, ownerVars, jobVars
<1>7. ASSUME NEW r \in Requests, DropOwned(r) PROVE DoneInv'
    BY <1>7 DEF DropOwned, Goto, fileVars, ownerVars
<1>8. ASSUME NEW r \in Requests, RollBack(r) PROVE DoneInv'
    BY <1>8 DEF RollBack, Goto, ownerVars, jobVars
<1>9. ASSUME NEW r \in Requests, Launch(r) PROVE DoneInv'
    BY <1>9 DEF Launch, fileVars, jobVars, taskVars
<1>10. ASSUME NEW p \in Requests, NEW d \in Removals, NEW gone \in SUBSET attach[p],
            RemoveQueued(p, gone, d)
      PROVE  DoneInv'
    BY <1>10 DEF RemoveQueued, Goto, Insert, fileVars
<1>11. ASSUME BeginDelete PROVE DoneInv'
    BY <1>11 DEF BeginDelete, fileVars, jobVars, taskVars
<1>12. ASSUME CapturePaths PROVE DoneInv'
    BY <1>12 DEF CapturePaths, fileVars, jobVars, taskVars
<1>13. ASSUME CommitDelete PROVE DoneInv'
    BY <1>13 DEF CommitDelete, Goto, Insert, fileVars
<1>14. ASSUME NEW d \in Workers \ Retries, ClaimScheduled(d) PROVE DoneInv'
    BY <1>14 DEF ClaimScheduled, Claim, Goto, Claimable, AfterFiles, fileVars, ownerVars
<1>15. ASSUME NEW d \in Workers \ Retries, NotClaimed(d) PROVE DoneInv'
    BY <1>15 DEF NotClaimed, Goto, Claimable, fileVars, ownerVars, jobVars
<1>16. ASSUME NEW w \in Retries, NEW j \in Jobs, ClaimNext(w, j) PROVE DoneInv'
    BY <1>16 DEF ClaimNext, Claim, Goto, Claimable, AfterFiles, fileVars, ownerVars
<1>17. ASSUME NEW j \in Jobs, DelayPasses(j) PROVE DoneInv'
    BY <1>17 DEF DelayPasses, fileVars, ownerVars, taskVars
<1>18. ASSUME NEW j \in Jobs, LeaseRunsOut(j) PROVE DoneInv'
    BY <1>18 DEF LeaseRunsOut, fileVars, ownerVars, taskVars
<1>19. ASSUME NEW w \in Workers, DeleteFile(w) PROVE DoneInv'
    BY <1>19 DEF DeleteFile, Goto, AfterFiles, Deleting, ownerVars, jobVars
<1>20. ASSUME NEW w \in Workers, RemoveFromGit(w) PROVE DoneInv'
    BY <1>20 DEF RemoveFromGit, Goto, ownerVars, jobVars
<1>21. ASSUME NEW w \in Workers, Interrupted(w) PROVE DoneInv'
    BY <1>21 DEF Interrupted, Goto, fileVars, ownerVars, jobVars
<1>22. ASSUME NEW w \in Workers, Verify(w) PROVE DoneInv'
    BY <1>22 DEF Verify, Goto, fileVars, ownerVars
<1>23. ASSUME NEW c \in Claimants, Heartbeat(c) PROVE DoneInv'
    BY <1>23 DEF Heartbeat, Beating, fileVars, ownerVars
<1>24. ASSUME NEW c \in Claimants, Retire(c) PROVE DoneInv'
    BY <1>24 DEF Retire, Goto, fileVars, ownerVars
<1>25. ASSUME NEW c \in Claimants, Release(c) PROVE DoneInv'
    BY <1>25 DEF Release, Goto, fileVars, ownerVars
<1>26. ASSUME NEW c \in Claimants, RetireFails(c) PROVE DoneInv'
    BY <1>26 DEF RetireFails, Goto, Mishap, fileVars, ownerVars, jobVars
<1>27. ASSUME NEW c \in Claimants, HeartbeatFails(c) PROVE DoneInv'
    BY <1>27 DEF HeartbeatFails, Mishap, Beating, fileVars, ownerVars, jobVars
<1>28. ASSUME NEW r \in Requests, WriteFails(r) PROVE DoneInv'
    BY <1>28 DEF WriteFails, Goto, Mishap, Written, fileVars, ownerVars, jobVars
<1>29. ASSUME NEW r \in Requests, DropUnsure(r) PROVE DoneInv'
    BY <1>29 DEF DropUnsure, Goto, Mishap, fileVars, ownerVars, jobVars
<1>30. ASSUME NEW r \in Requests, RollBackFails(r) PROVE DoneInv'
    BY <1>30 DEF RollBackFails, Goto, Mishap, fileVars, ownerVars, jobVars
<1>31. ASSUME NEW w \in Workers, DeleteFileFails(w) PROVE DoneInv'
    BY <1>31 DEF DeleteFileFails, Goto, Mishap, AfterFiles, Deleting, fileVars,
       ownerVars, jobVars
<1>32. ASSUME NEW w \in Workers, SessionCleanupFails(w) PROVE DoneInv'
    BY <1>32 DEF SessionCleanupFails, Goto, Mishap, fileVars, ownerVars, jobVars
<1>33. ASSUME NEW j \in Jobs, Stall(j) PROVE DoneInv'
    BY <1>33 DEF Stall, Mishap, fileVars, ownerVars, taskVars
<1>34. ASSUME DeleteFails PROVE DoneInv'
    BY <1>34 DEF DeleteFails, Mishap, fileVars, jobVars, taskVars
<1>35. ASSUME Restart PROVE DoneInv'
    BY <1>35 DEF Restart, Mishap, fileVars, jobVars
<1>36. CASE UNCHANGED vars
    BY <1>36 DEF vars, fileVars, ownerVars, jobVars, taskVars
<1> HIDE DEF TypeOK, TaskInv, PathInv, FileInv, DoneInv, Owns, Jobs, Workers, Claimants
<1>q. QED
    BY <1>1, <1>2, <1>3, <1>4, <1>5, <1>6, <1>7, <1>8, <1>9, <1>10, <1>11, <1>12, <1>13,
       <1>14, <1>15, <1>16, <1>17, <1>18, <1>19, <1>20, <1>21, <1>22, <1>23, <1>24,
       <1>25, <1>26, <1>27, <1>28, <1>29, <1>30, <1>31, <1>32, <1>33, <1>34, <1>35,
       <1>36 DEF Next, RequestStep, WorkerStep, Settle, Fault


\* No order of attempts removes the worktree before the refs.
LEMMA GitStep ==
    ASSUME TypeOK, TaskInv, GitInv, [Next]_vars
    PROVE  GitInv'
<1> USE NamesAssumption, FilesAssumption DEF Jobs, Workers, Claimants, TypeOK, TaskInv,
   GitInv
<1>1. ASSUME NEW r \in Requests, Stage(r) PROVE GitInv'
    BY <1>1 DEF Stage, Goto, Insert, fileVars, ownerVars
<1>2. ASSUME NEW r \in Requests, WriteFile(r) PROVE GitInv'
    BY <1>2 DEF WriteFile, Goto, Written, ownerVars, jobVars
<1>3. ASSUME NEW r \in Requests, CommitMessage(r) PROVE GitInv'
    BY <1>3 DEF CommitMessage, Goto, Consume, fileVars
<1>4. ASSUME NEW r \in Requests, NEW p \in Requests, NEW d \in Removals, NEW gone \in
            SUBSET attach[p], CommitUpdate(r, p, gone, d)
      PROVE  GitInv'
    BY <1>4 DEF CommitUpdate, fileVars
<1>5. ASSUME NEW r \in Requests, CommitFails(r) PROVE GitInv'
    BY <1>5 DEF CommitFails, Goto, fileVars, ownerVars, jobVars
<1>6. ASSUME NEW r \in Requests, DropLost(r) PROVE GitInv'
    BY <1>6 DEF DropLost, Goto, fileVars, ownerVars, jobVars
<1>7. ASSUME NEW r \in Requests, DropOwned(r) PROVE GitInv'
    BY <1>7 DEF DropOwned, Goto, fileVars, ownerVars
<1>8. ASSUME NEW r \in Requests, RollBack(r) PROVE GitInv'
    BY <1>8 DEF RollBack, Goto, ownerVars, jobVars
<1>9. ASSUME NEW r \in Requests, Launch(r) PROVE GitInv'
    BY <1>9 DEF Launch, fileVars, jobVars, taskVars
<1>10. ASSUME NEW p \in Requests, NEW d \in Removals, NEW gone \in SUBSET attach[p],
            RemoveQueued(p, gone, d)
      PROVE  GitInv'
    BY <1>10 DEF RemoveQueued, Goto, Insert, fileVars
<1>11. ASSUME BeginDelete PROVE GitInv'
    BY <1>11 DEF BeginDelete, fileVars, jobVars, taskVars
<1>12. ASSUME CapturePaths PROVE GitInv'
    BY <1>12 DEF CapturePaths, fileVars, jobVars, taskVars
<1>13. ASSUME CommitDelete PROVE GitInv'
    BY <1>13 DEF CommitDelete, Goto, Insert, fileVars
<1>14. ASSUME NEW d \in Workers \ Retries, ClaimScheduled(d) PROVE GitInv'
    BY <1>14 DEF ClaimScheduled, Claim, Goto, Claimable, AfterFiles, fileVars, ownerVars
<1>15. ASSUME NEW d \in Workers \ Retries, NotClaimed(d) PROVE GitInv'
    BY <1>15 DEF NotClaimed, Goto, Claimable, fileVars, ownerVars, jobVars
<1>16. ASSUME NEW w \in Retries, NEW j \in Jobs, ClaimNext(w, j) PROVE GitInv'
    BY <1>16 DEF ClaimNext, Claim, Goto, Claimable, AfterFiles, fileVars, ownerVars
<1>17. ASSUME NEW j \in Jobs, DelayPasses(j) PROVE GitInv'
    BY <1>17 DEF DelayPasses, fileVars, ownerVars, taskVars
<1>18. ASSUME NEW j \in Jobs, LeaseRunsOut(j) PROVE GitInv'
    BY <1>18 DEF LeaseRunsOut, fileVars, ownerVars, taskVars
<1>19. ASSUME NEW w \in Workers, DeleteFile(w) PROVE GitInv'
    BY <1>19 DEF DeleteFile, Goto, AfterFiles, Deleting, ownerVars, jobVars
<1>20. ASSUME NEW w \in Workers, RemoveFromGit(w) PROVE GitInv'
    BY <1>20 DEF RemoveFromGit, Goto, ownerVars, jobVars
<1>21. ASSUME NEW w \in Workers, Interrupted(w) PROVE GitInv'
    BY <1>21 DEF Interrupted, Goto, fileVars, ownerVars, jobVars
<1>22. ASSUME NEW w \in Workers, Verify(w) PROVE GitInv'
    BY <1>22 DEF Verify, Goto, fileVars, ownerVars
<1>23. ASSUME NEW c \in Claimants, Heartbeat(c) PROVE GitInv'
    BY <1>23 DEF Heartbeat, Beating, fileVars, ownerVars
<1>24. ASSUME NEW c \in Claimants, Retire(c) PROVE GitInv'
    BY <1>24 DEF Retire, Goto, fileVars, ownerVars
<1>25. ASSUME NEW c \in Claimants, Release(c) PROVE GitInv'
    BY <1>25 DEF Release, Goto, fileVars, ownerVars
<1>26. ASSUME NEW c \in Claimants, RetireFails(c) PROVE GitInv'
    BY <1>26 DEF RetireFails, Goto, Mishap, fileVars, ownerVars, jobVars
<1>27. ASSUME NEW c \in Claimants, HeartbeatFails(c) PROVE GitInv'
    BY <1>27 DEF HeartbeatFails, Mishap, Beating, fileVars, ownerVars, jobVars
<1>28. ASSUME NEW r \in Requests, WriteFails(r) PROVE GitInv'
    BY <1>28 DEF WriteFails, Goto, Mishap, Written, fileVars, ownerVars, jobVars
<1>29. ASSUME NEW r \in Requests, DropUnsure(r) PROVE GitInv'
    BY <1>29 DEF DropUnsure, Goto, Mishap, fileVars, ownerVars, jobVars
<1>30. ASSUME NEW r \in Requests, RollBackFails(r) PROVE GitInv'
    BY <1>30 DEF RollBackFails, Goto, Mishap, fileVars, ownerVars, jobVars
<1>31. ASSUME NEW w \in Workers, DeleteFileFails(w) PROVE GitInv'
    BY <1>31 DEF DeleteFileFails, Goto, Mishap, AfterFiles, Deleting, fileVars,
       ownerVars, jobVars
<1>32. ASSUME NEW w \in Workers, SessionCleanupFails(w) PROVE GitInv'
    BY <1>32 DEF SessionCleanupFails, Goto, Mishap, fileVars, ownerVars, jobVars
<1>33. ASSUME NEW j \in Jobs, Stall(j) PROVE GitInv'
    BY <1>33 DEF Stall, Mishap, fileVars, ownerVars, taskVars
<1>34. ASSUME DeleteFails PROVE GitInv'
    BY <1>34 DEF DeleteFails, Mishap, fileVars, jobVars, taskVars
<1>35. ASSUME Restart PROVE GitInv'
    BY <1>35 DEF Restart, Mishap, fileVars, jobVars
<1>36. CASE UNCHANGED vars
    BY <1>36 DEF vars, fileVars, ownerVars, jobVars, taskVars
<1> HIDE DEF TypeOK, TaskInv, GitInv, Jobs, Workers, Claimants
<1>q. QED
    BY <1>1, <1>2, <1>3, <1>4, <1>5, <1>6, <1>7, <1>8, <1>9, <1>10, <1>11, <1>12, <1>13,
       <1>14, <1>15, <1>16, <1>17, <1>18, <1>19, <1>20, <1>21, <1>22, <1>23, <1>24,
       <1>25, <1>26, <1>27, <1>28, <1>29, <1>30, <1>31, <1>32, <1>33, <1>34, <1>35,
       <1>36 DEF Next, RequestStep, WorkerStep, Settle, Fault


\* No step deletes a file that a row names.
LEMMA KeptStep ==
    ASSUME TypeOK, TaskInv, PathInv, FileInv, FenceInv, OwnedFilesKept, [Next]_vars
    PROVE  OwnedFilesKept'
<1> USE NamesAssumption, FilesAssumption DEF Jobs, Workers, Claimants, TypeOK, TaskInv,
   PathInv, FileInv, FenceInv, Owns, OwnedFilesKept
<1>1. ASSUME NEW r \in Requests, Stage(r) PROVE OwnedFilesKept'
    BY <1>1 DEF Stage, Goto, Insert, fileVars, ownerVars
<1>2. ASSUME NEW r \in Requests, WriteFile(r) PROVE OwnedFilesKept'
    BY <1>2 DEF WriteFile, Goto, Written, ownerVars, jobVars
<1>3. ASSUME NEW r \in Requests, CommitMessage(r) PROVE OwnedFilesKept'
    BY <1>3 DEF CommitMessage, Goto, Consume, fileVars
<1>4. ASSUME NEW r \in Requests, NEW p \in Requests, NEW d \in Removals, NEW gone \in
            SUBSET attach[p], CommitUpdate(r, p, gone, d)
      PROVE  OwnedFilesKept'
    BY <1>4 DEF CommitUpdate, fileVars
<1>5. ASSUME NEW r \in Requests, CommitFails(r) PROVE OwnedFilesKept'
    BY <1>5 DEF CommitFails, Goto, fileVars, ownerVars, jobVars
<1>6. ASSUME NEW r \in Requests, DropLost(r) PROVE OwnedFilesKept'
    BY <1>6 DEF DropLost, Goto, fileVars, ownerVars, jobVars
<1>7. ASSUME NEW r \in Requests, DropOwned(r) PROVE OwnedFilesKept'
    BY <1>7 DEF DropOwned, Goto, fileVars, ownerVars
<1>8. ASSUME NEW r \in Requests, RollBack(r) PROVE OwnedFilesKept'
    BY <1>8 DEF RollBack, Goto, ownerVars, jobVars
<1>9. ASSUME NEW r \in Requests, Launch(r) PROVE OwnedFilesKept'
    BY <1>9 DEF Launch, fileVars, jobVars, taskVars
<1>10. ASSUME NEW p \in Requests, NEW d \in Removals, NEW gone \in SUBSET attach[p],
            RemoveQueued(p, gone, d)
      PROVE  OwnedFilesKept'
    BY <1>10 DEF RemoveQueued, Goto, Insert, fileVars
<1>11. ASSUME BeginDelete PROVE OwnedFilesKept'
    BY <1>11 DEF BeginDelete, fileVars, jobVars, taskVars
<1>12. ASSUME CapturePaths PROVE OwnedFilesKept'
    BY <1>12 DEF CapturePaths, fileVars, jobVars, taskVars
<1>13. ASSUME CommitDelete PROVE OwnedFilesKept'
    BY <1>13 DEF CommitDelete, Goto, Insert, fileVars
<1>14. ASSUME NEW d \in Workers \ Retries, ClaimScheduled(d) PROVE OwnedFilesKept'
    BY <1>14 DEF ClaimScheduled, Claim, Goto, Claimable, AfterFiles, fileVars, ownerVars
<1>15. ASSUME NEW d \in Workers \ Retries, NotClaimed(d) PROVE OwnedFilesKept'
    BY <1>15 DEF NotClaimed, Goto, Claimable, fileVars, ownerVars, jobVars
<1>16. ASSUME NEW w \in Retries, NEW j \in Jobs, ClaimNext(w, j) PROVE OwnedFilesKept'
    BY <1>16 DEF ClaimNext, Claim, Goto, Claimable, AfterFiles, fileVars, ownerVars
<1>17. ASSUME NEW j \in Jobs, DelayPasses(j) PROVE OwnedFilesKept'
    BY <1>17 DEF DelayPasses, fileVars, ownerVars, taskVars
<1>18. ASSUME NEW j \in Jobs, LeaseRunsOut(j) PROVE OwnedFilesKept'
    BY <1>18 DEF LeaseRunsOut, fileVars, ownerVars, taskVars
<1>19. ASSUME NEW w \in Workers, DeleteFile(w) PROVE OwnedFilesKept'
    BY <1>19 DEF DeleteFile, Goto, AfterFiles, Deleting, ownerVars, jobVars
<1>20. ASSUME NEW w \in Workers, RemoveFromGit(w) PROVE OwnedFilesKept'
    BY <1>20 DEF RemoveFromGit, Goto, ownerVars, jobVars
<1>21. ASSUME NEW w \in Workers, Interrupted(w) PROVE OwnedFilesKept'
    BY <1>21 DEF Interrupted, Goto, fileVars, ownerVars, jobVars
<1>22. ASSUME NEW w \in Workers, Verify(w) PROVE OwnedFilesKept'
    BY <1>22 DEF Verify, Goto, fileVars, ownerVars
<1>23. ASSUME NEW c \in Claimants, Heartbeat(c) PROVE OwnedFilesKept'
    BY <1>23 DEF Heartbeat, Beating, fileVars, ownerVars
<1>24. ASSUME NEW c \in Claimants, Retire(c) PROVE OwnedFilesKept'
    BY <1>24 DEF Retire, Goto, fileVars, ownerVars
<1>25. ASSUME NEW c \in Claimants, Release(c) PROVE OwnedFilesKept'
    BY <1>25 DEF Release, Goto, fileVars, ownerVars
<1>26. ASSUME NEW c \in Claimants, RetireFails(c) PROVE OwnedFilesKept'
    BY <1>26 DEF RetireFails, Goto, Mishap, fileVars, ownerVars, jobVars
<1>27. ASSUME NEW c \in Claimants, HeartbeatFails(c) PROVE OwnedFilesKept'
    BY <1>27 DEF HeartbeatFails, Mishap, Beating, fileVars, ownerVars, jobVars
<1>28. ASSUME NEW r \in Requests, WriteFails(r) PROVE OwnedFilesKept'
    BY <1>28 DEF WriteFails, Goto, Mishap, Written, fileVars, ownerVars, jobVars
<1>29. ASSUME NEW r \in Requests, DropUnsure(r) PROVE OwnedFilesKept'
    BY <1>29 DEF DropUnsure, Goto, Mishap, fileVars, ownerVars, jobVars
<1>30. ASSUME NEW r \in Requests, RollBackFails(r) PROVE OwnedFilesKept'
    BY <1>30 DEF RollBackFails, Goto, Mishap, fileVars, ownerVars, jobVars
<1>31. ASSUME NEW w \in Workers, DeleteFileFails(w) PROVE OwnedFilesKept'
    BY <1>31 DEF DeleteFileFails, Goto, Mishap, AfterFiles, Deleting, fileVars,
       ownerVars, jobVars
<1>32. ASSUME NEW w \in Workers, SessionCleanupFails(w) PROVE OwnedFilesKept'
    BY <1>32 DEF SessionCleanupFails, Goto, Mishap, fileVars, ownerVars, jobVars
<1>33. ASSUME NEW j \in Jobs, Stall(j) PROVE OwnedFilesKept'
    BY <1>33 DEF Stall, Mishap, fileVars, ownerVars, taskVars
<1>34. ASSUME DeleteFails PROVE OwnedFilesKept'
    BY <1>34 DEF DeleteFails, Mishap, fileVars, jobVars, taskVars
<1>35. ASSUME Restart PROVE OwnedFilesKept'
    BY <1>35 DEF Restart, Mishap, fileVars, jobVars
<1>36. CASE UNCHANGED vars
    BY <1>36 DEF vars, fileVars, ownerVars, jobVars, taskVars
<1> HIDE DEF TypeOK, TaskInv, PathInv, FileInv, FenceInv, Owns, OwnedFilesKept, Jobs, Workers, Claimants
<1>q. QED
    BY <1>1, <1>2, <1>3, <1>4, <1>5, <1>6, <1>7, <1>8, <1>9, <1>10, <1>11, <1>12, <1>13,
       <1>14, <1>15, <1>16, <1>17, <1>18, <1>19, <1>20, <1>21, <1>22, <1>23, <1>24,
       <1>25, <1>26, <1>27, <1>28, <1>29, <1>30, <1>31, <1>32, <1>33, <1>34, <1>35,
       <1>36 DEF Next, RequestStep, WorkerStep, Settle, Fault


\* No step leaves a file without a row or a job.
LEMMA ForgottenStep ==
    ASSUME TypeOK, TaskInv, PathInv, FileInv, DoneInv, NoFileForgotten, [Next]_vars
    PROVE  NoFileForgotten'
<1> USE NamesAssumption, FilesAssumption DEF Jobs, Workers, Claimants, TypeOK, TaskInv,
   PathInv, FileInv, DoneInv, Owns, NoFileForgotten
<1>1. ASSUME NEW r \in Requests, Stage(r) PROVE NoFileForgotten'
    BY <1>1 DEF Stage, Goto, Insert, fileVars, ownerVars
<1>2. ASSUME NEW r \in Requests, WriteFile(r) PROVE NoFileForgotten'
    BY <1>2 DEF WriteFile, Goto, Written, ownerVars, jobVars
<1>3. ASSUME NEW r \in Requests, CommitMessage(r) PROVE NoFileForgotten'
    BY <1>3 DEF CommitMessage, Goto, Consume, fileVars
<1>4. ASSUME NEW r \in Requests, NEW p \in Requests, NEW d \in Removals, NEW gone \in
            SUBSET attach[p], CommitUpdate(r, p, gone, d)
      PROVE  NoFileForgotten'
    BY <1>4 DEF CommitUpdate, fileVars
<1>5. ASSUME NEW r \in Requests, CommitFails(r) PROVE NoFileForgotten'
    BY <1>5 DEF CommitFails, Goto, fileVars, ownerVars, jobVars
<1>6. ASSUME NEW r \in Requests, DropLost(r) PROVE NoFileForgotten'
    BY <1>6 DEF DropLost, Goto, fileVars, ownerVars, jobVars
<1>7. ASSUME NEW r \in Requests, DropOwned(r) PROVE NoFileForgotten'
    BY <1>7 DEF DropOwned, Goto, fileVars, ownerVars
<1>8. ASSUME NEW r \in Requests, RollBack(r) PROVE NoFileForgotten'
    BY <1>8 DEF RollBack, Goto, ownerVars, jobVars
<1>9. ASSUME NEW r \in Requests, Launch(r) PROVE NoFileForgotten'
    BY <1>9 DEF Launch, fileVars, jobVars, taskVars
<1>10. ASSUME NEW p \in Requests, NEW d \in Removals, NEW gone \in SUBSET attach[p],
            RemoveQueued(p, gone, d)
      PROVE  NoFileForgotten'
    BY <1>10 DEF RemoveQueued, Goto, Insert, fileVars
<1>11. ASSUME BeginDelete PROVE NoFileForgotten'
    BY <1>11 DEF BeginDelete, fileVars, jobVars, taskVars
<1>12. ASSUME CapturePaths PROVE NoFileForgotten'
    BY <1>12 DEF CapturePaths, fileVars, jobVars, taskVars
<1>13. ASSUME CommitDelete PROVE NoFileForgotten'
    BY <1>13 DEF CommitDelete, Goto, Insert, fileVars
<1>14. ASSUME NEW d \in Workers \ Retries, ClaimScheduled(d) PROVE NoFileForgotten'
    BY <1>14 DEF ClaimScheduled, Claim, Goto, Claimable, AfterFiles, fileVars, ownerVars
<1>15. ASSUME NEW d \in Workers \ Retries, NotClaimed(d) PROVE NoFileForgotten'
    BY <1>15 DEF NotClaimed, Goto, Claimable, fileVars, ownerVars, jobVars
<1>16. ASSUME NEW w \in Retries, NEW j \in Jobs, ClaimNext(w, j) PROVE NoFileForgotten'
    BY <1>16 DEF ClaimNext, Claim, Goto, Claimable, AfterFiles, fileVars, ownerVars
<1>17. ASSUME NEW j \in Jobs, DelayPasses(j) PROVE NoFileForgotten'
    BY <1>17 DEF DelayPasses, fileVars, ownerVars, taskVars
<1>18. ASSUME NEW j \in Jobs, LeaseRunsOut(j) PROVE NoFileForgotten'
    BY <1>18 DEF LeaseRunsOut, fileVars, ownerVars, taskVars
<1>19. ASSUME NEW w \in Workers, DeleteFile(w) PROVE NoFileForgotten'
    BY <1>19 DEF DeleteFile, Goto, AfterFiles, Deleting, ownerVars, jobVars
<1>20. ASSUME NEW w \in Workers, RemoveFromGit(w) PROVE NoFileForgotten'
    BY <1>20 DEF RemoveFromGit, Goto, ownerVars, jobVars
<1>21. ASSUME NEW w \in Workers, Interrupted(w) PROVE NoFileForgotten'
    BY <1>21 DEF Interrupted, Goto, fileVars, ownerVars, jobVars
<1>22. ASSUME NEW w \in Workers, Verify(w) PROVE NoFileForgotten'
    BY <1>22 DEF Verify, Goto, fileVars, ownerVars
<1>23. ASSUME NEW c \in Claimants, Heartbeat(c) PROVE NoFileForgotten'
    BY <1>23 DEF Heartbeat, Beating, fileVars, ownerVars
<1>24. ASSUME NEW c \in Claimants, Retire(c) PROVE NoFileForgotten'
    BY <1>24 DEF Retire, Goto, fileVars, ownerVars
<1>25. ASSUME NEW c \in Claimants, Release(c) PROVE NoFileForgotten'
    BY <1>25 DEF Release, Goto, fileVars, ownerVars
<1>26. ASSUME NEW c \in Claimants, RetireFails(c) PROVE NoFileForgotten'
    BY <1>26 DEF RetireFails, Goto, Mishap, fileVars, ownerVars, jobVars
<1>27. ASSUME NEW c \in Claimants, HeartbeatFails(c) PROVE NoFileForgotten'
    BY <1>27 DEF HeartbeatFails, Mishap, Beating, fileVars, ownerVars, jobVars
<1>28. ASSUME NEW r \in Requests, WriteFails(r) PROVE NoFileForgotten'
    BY <1>28 DEF WriteFails, Goto, Mishap, Written, fileVars, ownerVars, jobVars
<1>29. ASSUME NEW r \in Requests, DropUnsure(r) PROVE NoFileForgotten'
    BY <1>29 DEF DropUnsure, Goto, Mishap, fileVars, ownerVars, jobVars
<1>30. ASSUME NEW r \in Requests, RollBackFails(r) PROVE NoFileForgotten'
    BY <1>30 DEF RollBackFails, Goto, Mishap, fileVars, ownerVars, jobVars
<1>31. ASSUME NEW w \in Workers, DeleteFileFails(w) PROVE NoFileForgotten'
    BY <1>31 DEF DeleteFileFails, Goto, Mishap, AfterFiles, Deleting, fileVars,
       ownerVars, jobVars
<1>32. ASSUME NEW w \in Workers, SessionCleanupFails(w) PROVE NoFileForgotten'
    BY <1>32 DEF SessionCleanupFails, Goto, Mishap, fileVars, ownerVars, jobVars
<1>33. ASSUME NEW j \in Jobs, Stall(j) PROVE NoFileForgotten'
    BY <1>33 DEF Stall, Mishap, fileVars, ownerVars, taskVars
<1>34. ASSUME DeleteFails PROVE NoFileForgotten'
    BY <1>34 DEF DeleteFails, Mishap, fileVars, jobVars, taskVars
<1>35. ASSUME Restart PROVE NoFileForgotten'
    BY <1>35 DEF Restart, Mishap, fileVars, jobVars
<1>36. CASE UNCHANGED vars
    BY <1>36 DEF vars, fileVars, ownerVars, jobVars, taskVars
<1> HIDE DEF TypeOK, TaskInv, PathInv, FileInv, DoneInv, Owns, NoFileForgotten, Jobs, Workers, Claimants
<1>q. QED
    BY <1>1, <1>2, <1>3, <1>4, <1>5, <1>6, <1>7, <1>8, <1>9, <1>10, <1>11, <1>12, <1>13,
       <1>14, <1>15, <1>16, <1>17, <1>18, <1>19, <1>20, <1>21, <1>22, <1>23, <1>24,
       <1>25, <1>26, <1>27, <1>28, <1>29, <1>30, <1>31, <1>32, <1>33, <1>34, <1>35,
       <1>36 DEF Next, RequestStep, WorkerStep, Settle, Fault


\* The deletion job is not retired before the refs and the worktree are gone.
LEMMA SessionStep ==
    ASSUME TypeOK, TaskInv, PathInv, GitInv, SessionLeavesNothing, [Next]_vars
    PROVE  SessionLeavesNothing'
<1> USE NamesAssumption, FilesAssumption DEF Jobs, Workers, Claimants, TypeOK, TaskInv,
   PathInv, GitInv, Owns, SessionLeavesNothing
<1>1. ASSUME NEW r \in Requests, Stage(r) PROVE SessionLeavesNothing'
    BY <1>1 DEF Stage, Goto, Insert, fileVars, ownerVars
<1>2. ASSUME NEW r \in Requests, WriteFile(r) PROVE SessionLeavesNothing'
    BY <1>2 DEF WriteFile, Goto, Written, ownerVars, jobVars
<1>3. ASSUME NEW r \in Requests, CommitMessage(r) PROVE SessionLeavesNothing'
    BY <1>3 DEF CommitMessage, Goto, Consume, fileVars
<1>4. ASSUME NEW r \in Requests, NEW p \in Requests, NEW d \in Removals, NEW gone \in
            SUBSET attach[p], CommitUpdate(r, p, gone, d)
      PROVE  SessionLeavesNothing'
    BY <1>4 DEF CommitUpdate, fileVars
<1>5. ASSUME NEW r \in Requests, CommitFails(r) PROVE SessionLeavesNothing'
    BY <1>5 DEF CommitFails, Goto, fileVars, ownerVars, jobVars
<1>6. ASSUME NEW r \in Requests, DropLost(r) PROVE SessionLeavesNothing'
    BY <1>6 DEF DropLost, Goto, fileVars, ownerVars, jobVars
<1>7. ASSUME NEW r \in Requests, DropOwned(r) PROVE SessionLeavesNothing'
    BY <1>7 DEF DropOwned, Goto, fileVars, ownerVars
<1>8. ASSUME NEW r \in Requests, RollBack(r) PROVE SessionLeavesNothing'
    BY <1>8 DEF RollBack, Goto, ownerVars, jobVars
<1>9. ASSUME NEW r \in Requests, Launch(r) PROVE SessionLeavesNothing'
    BY <1>9 DEF Launch, fileVars, jobVars, taskVars
<1>10. ASSUME NEW p \in Requests, NEW d \in Removals, NEW gone \in SUBSET attach[p],
            RemoveQueued(p, gone, d)
      PROVE  SessionLeavesNothing'
    BY <1>10 DEF RemoveQueued, Goto, Insert, fileVars
<1>11. ASSUME BeginDelete PROVE SessionLeavesNothing'
    BY <1>11 DEF BeginDelete, fileVars, jobVars, taskVars
<1>12. ASSUME CapturePaths PROVE SessionLeavesNothing'
    BY <1>12 DEF CapturePaths, fileVars, jobVars, taskVars
<1>13. ASSUME CommitDelete PROVE SessionLeavesNothing'
    BY <1>13 DEF CommitDelete, Goto, Insert, fileVars
<1>14. ASSUME NEW d \in Workers \ Retries, ClaimScheduled(d) PROVE SessionLeavesNothing'
    BY <1>14 DEF ClaimScheduled, Claim, Goto, Claimable, AfterFiles, fileVars, ownerVars
<1>15. ASSUME NEW d \in Workers \ Retries, NotClaimed(d) PROVE SessionLeavesNothing'
    BY <1>15 DEF NotClaimed, Goto, Claimable, fileVars, ownerVars, jobVars
<1>16. ASSUME NEW w \in Retries, NEW j \in Jobs, ClaimNext(w, j)
      PROVE  SessionLeavesNothing'
    BY <1>16 DEF ClaimNext, Claim, Goto, Claimable, AfterFiles, fileVars, ownerVars
<1>17. ASSUME NEW j \in Jobs, DelayPasses(j) PROVE SessionLeavesNothing'
    BY <1>17 DEF DelayPasses, fileVars, ownerVars, taskVars
<1>18. ASSUME NEW j \in Jobs, LeaseRunsOut(j) PROVE SessionLeavesNothing'
    BY <1>18 DEF LeaseRunsOut, fileVars, ownerVars, taskVars
<1>19. ASSUME NEW w \in Workers, DeleteFile(w) PROVE SessionLeavesNothing'
    BY <1>19 DEF DeleteFile, Goto, AfterFiles, Deleting, ownerVars, jobVars
<1>20. ASSUME NEW w \in Workers, RemoveFromGit(w) PROVE SessionLeavesNothing'
    BY <1>20 DEF RemoveFromGit, Goto, ownerVars, jobVars
<1>21. ASSUME NEW w \in Workers, Interrupted(w) PROVE SessionLeavesNothing'
    BY <1>21 DEF Interrupted, Goto, fileVars, ownerVars, jobVars
<1>22. ASSUME NEW w \in Workers, Verify(w) PROVE SessionLeavesNothing'
    BY <1>22 DEF Verify, Goto, fileVars, ownerVars
<1>23. ASSUME NEW c \in Claimants, Heartbeat(c) PROVE SessionLeavesNothing'
    BY <1>23 DEF Heartbeat, Beating, fileVars, ownerVars
<1>24. ASSUME NEW c \in Claimants, Retire(c) PROVE SessionLeavesNothing'
    BY <1>24 DEF Retire, Goto, fileVars, ownerVars
<1>25. ASSUME NEW c \in Claimants, Release(c) PROVE SessionLeavesNothing'
    BY <1>25 DEF Release, Goto, fileVars, ownerVars
<1>26. ASSUME NEW c \in Claimants, RetireFails(c) PROVE SessionLeavesNothing'
    BY <1>26 DEF RetireFails, Goto, Mishap, fileVars, ownerVars, jobVars
<1>27. ASSUME NEW c \in Claimants, HeartbeatFails(c) PROVE SessionLeavesNothing'
    BY <1>27 DEF HeartbeatFails, Mishap, Beating, fileVars, ownerVars, jobVars
<1>28. ASSUME NEW r \in Requests, WriteFails(r) PROVE SessionLeavesNothing'
    BY <1>28 DEF WriteFails, Goto, Mishap, Written, fileVars, ownerVars, jobVars
<1>29. ASSUME NEW r \in Requests, DropUnsure(r) PROVE SessionLeavesNothing'
    BY <1>29 DEF DropUnsure, Goto, Mishap, fileVars, ownerVars, jobVars
<1>30. ASSUME NEW r \in Requests, RollBackFails(r) PROVE SessionLeavesNothing'
    BY <1>30 DEF RollBackFails, Goto, Mishap, fileVars, ownerVars, jobVars
<1>31. ASSUME NEW w \in Workers, DeleteFileFails(w) PROVE SessionLeavesNothing'
    BY <1>31 DEF DeleteFileFails, Goto, Mishap, AfterFiles, Deleting, fileVars,
       ownerVars, jobVars
<1>32. ASSUME NEW w \in Workers, SessionCleanupFails(w) PROVE SessionLeavesNothing'
    BY <1>32 DEF SessionCleanupFails, Goto, Mishap, fileVars, ownerVars, jobVars
<1>33. ASSUME NEW j \in Jobs, Stall(j) PROVE SessionLeavesNothing'
    BY <1>33 DEF Stall, Mishap, fileVars, ownerVars, taskVars
<1>34. ASSUME DeleteFails PROVE SessionLeavesNothing'
    BY <1>34 DEF DeleteFails, Mishap, fileVars, jobVars, taskVars
<1>35. ASSUME Restart PROVE SessionLeavesNothing'
    BY <1>35 DEF Restart, Mishap, fileVars, jobVars
<1>36. CASE UNCHANGED vars
    BY <1>36 DEF vars, fileVars, ownerVars, jobVars, taskVars
<1> HIDE DEF TypeOK, TaskInv, PathInv, GitInv, Owns, SessionLeavesNothing, Jobs, Workers, Claimants
<1>q. QED
    BY <1>1, <1>2, <1>3, <1>4, <1>5, <1>6, <1>7, <1>8, <1>9, <1>10, <1>11, <1>12, <1>13,
       <1>14, <1>15, <1>16, <1>17, <1>18, <1>19, <1>20, <1>21, <1>22, <1>23, <1>24,
       <1>25, <1>26, <1>27, <1>28, <1>29, <1>30, <1>31, <1>32, <1>33, <1>34, <1>35,
       <1>36 DEF Next, RequestStep, WorkerStep, Settle, Fault


--------------------------------------------------------------------------------
Inv ==
    /\ TypeOK /\ TaskInv /\ PathInv /\ FileInv /\ FenceInv /\ DoneInv /\ GitInv
    /\ OwnedFilesKept /\ NoFileForgotten /\ SessionLeavesNothing

\* The conjunction is an invariant of the specification.
LEMMA Invariance == Spec => []Inv
<1>1. Init => Inv
    BY NamesAssumption, FilesAssumption
    DEF Init, Inv, TypeOK, TaskInv, PathInv, FileInv, FenceInv, DoneInv, GitInv,
        OwnedFilesKept, NoFileForgotten, SessionLeavesNothing, Owns, Jobs, Workers,
        Claimants
<1>2. Inv /\ [Next]_vars => Inv'
    BY TypeStep, TaskStep, PathStep, FileStep, FenceStep, DoneStep, GitStep, KeptStep,
       ForgottenStep, SessionStep
    DEF Inv
<1>3. QED BY <1>1, <1>2, PTL DEF Spec

\* Every variable of the cleanup keeps its type.
THEOREM TypeCorrect == Spec => []TypeOK
<1>1. Inv => TypeOK
    BY DEF Inv
<1>2. QED BY <1>1, Invariance, PTL

\* The claim tokens of artifact_cleanup_jobs fence the lease: no interleaving
\* of slow requests, their rollbacks, cleanup tasks and retry workers deletes a
\* file of a committed attachment.
THEOREM OwnedFilesAreKept == Spec => []OwnedFilesKept
<1>1. Inv => OwnedFilesKept
    BY DEF Inv
<1>2. QED BY <1>1, Invariance, PTL

\* Recording paths before the first write and retiring jobs after the last
\* deletion leaves no file unaccounted for, at whatever step the process stops.
THEOREM NoFileIsForgotten == Spec => []NoFileForgotten
<1>1. Inv => NoFileForgotten
    BY DEF Inv
<1>2. QED BY <1>1, Invariance, PTL

\* However often the cleanup of a deleted session is retried or taken over, it
\* is not retired before refs and worktree are gone.
THEOREM DeletedSessionLeavesNothing == Spec => []SessionLeavesNothing
<1>1. Inv => SessionLeavesNothing
    BY DEF Inv
<1>2. QED BY <1>1, Invariance, PTL
================================================================================
