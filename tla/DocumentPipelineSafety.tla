------------------------ MODULE DocumentPipelineSafety ------------------------
(***************************************************************************)
(* The safety of claims, of the stored objects and of deletion, proved for *)
(* every value of the constants.  Each is made inductive by saying where   *)
(* the workers' knowledge comes from: AttemptsAreCounted for the claims,   *)
(* NoneToCommit for the results, TrustIsBacked for the objects and         *)
(* ObjectsGone for the deletions.                                          *)
(***************************************************************************)
EXTENDS DocumentPipelineProofs

------------------------------------------------------------------------------
(* The invariants *)

\* No job without a row has attempts.
AbsentIsBlank == \A j \in Jobs : ~Exists(job[j]) => job[j].attempts = 0

\* Attempt numbers were handed out by the row, until a deletion removes it; and
\* a row that somebody is claiming has not been removed, although the document
\* may have been deleted since the claim began.
AttemptsAreCounted ==
    \A w \in Workers : worker[w].attempt > 0 =>
        \/ worker[w].attempt <= job[JobOf(w)].attempts
        \/ /\ document.deleted
           /\ \A v \in Workers : worker[v].pc = "claiming" => JobOf(v) # JobOf(w)

ClaimInv == /\ Wellformed /\ AbsentIsBlank
            /\ AttemptsAreCounted /\ ClaimsAreExclusive

\* A _complete that gets as far as its commit holds off every deletion; one
\* that comes after a deletion does not get that far.
NoneToCommit ==
    document.deleted =>
        \A w \in Workers : ~(worker[w].op = "complete" /\ worker[w].pc = "committing")

\* The states in which a worker counts on the validated object.
Backed == "validated" \in objects \/ purging
Trusting(w) ==
    \/ worker[w].source = "validated"
    \/ worker[w].seenDoc.key = "validated"
    \/ worker[w].promoted
    \/ worker[w].pc = "clearing"
    \/ /\ worker[w].op = "complete"
       /\ worker[w].pc \in {"begin", "paging", "updating", "committing"}

TrustIsBacked == \A w \in Workers : Trusting(w) => Backed
ObjectsInv == UploadIsNeverLost /\ ValidatedKeyIsBacked /\ TrustIsBacked

\* A deletion that is through with a key finds it gone for good.
ObjectsGone ==
    \A d \in Deletions :
        /\ deletion[d].pc \in {"validated", "purge", "jobs", "locking", "marking"} =>
               "quarantine" \notin objects
        /\ deletion[d].pc \in {"purge", "jobs", "locking", "marking"} =>
               "validated" \notin objects
DeletionInv == DeletionLeavesNoObject /\ ObjectsGone

------------------------------------------------------------------------------
(* Claims *)

\* A document becomes a tombstone by a deletion's commit only, and stays one.
LEMMA DeletedByDeletion ==
  ASSUME Wellformed, [Next]_vars
  PROVE  /\ document.deleted => document'.deleted
         /\ document'.deleted => document.deleted \/ \E d \in Deletions : DeleteCommit(d)
<1>0. TypeOK /\ \A w \in Workers : worker[w].seenDoc \in DocumentRow /\ ~worker[w].seenDoc.deleted
  BY DEF Wellformed, TypeOK, SeenIsAlive, WorkerLocals
<1>1. ASSUME NEW w \in Workers, ClaimCommit(w)
      PROVE  document'.deleted = document.deleted
  <2>1. PICK image : /\ document' = Flush(document, worker[w].seenDoc, image)
                     /\ image.deleted = worker[w].seenDoc.deleted
    BY <1>0, <1>1, MarkedDeleted DEF ClaimCommit
  <2>2. QED
    BY <1>0, <2>1, FlushedDeleted DEF TypeOK, DocumentRow
<1>2. ASSUME NEW w \in Workers, RecordCommit(w)
      PROVE  document'.deleted = document.deleted
  <2>1. PICK image : /\ document' = Flush(document, worker[w].seenDoc, image)
                     /\ image.deleted = worker[w].seenDoc.deleted
    BY <1>0, <1>2, MarkedDeleted DEF RecordCommit, Recorded
  <2>2. QED
    BY <1>0, <2>1, FlushedDeleted DEF TypeOK, DocumentRow
<1>3. ASSUME NEW r \in Requests, DispatchSave(r)
      PROVE  document'.deleted = document.deleted
  BY <1>0, <1>3 DEF DispatchSave, TypeOK, DocumentRow
<1>4. ASSUME NEW j \in Jobs, ClaimGoesStale(j)
      PROVE  document'.deleted = document.deleted
  BY <1>4 DEF ClaimGoesStale
<1>5. ASSUME NEW d \in Deletions, DeleteCommit(d) PROVE document'.deleted
  BY <1>5 DEF DeleteCommit, Tombstone, MarkDeleted
<1>6. QED
  BY <1>1, <1>2, <1>3, <1>4, <1>5, JobRowActions

\* What any step may make of one job row.
LEMMA JobRowMoves ==
  ASSUME Wellformed, [Next]_vars, NEW j \in Jobs, job'[j] # job[j]
  PROVE  \/ job'[j].status = job[j].status /\ job'[j].attempts = job[j].attempts
         \/ \E w \in Workers : /\ ClaimCommit(w) /\ j = JobOf(w)
                               /\ Claimable(job[j])
                               /\ job'[j] = Claimed(job[j])
         \/ job'[j].status \in JobStatus \ {"processing"} /\ job'[j].attempts = job[j].attempts
         \/ ~Exists(job[j]) /\ job'[j] = NewRow
         \/ job'[j] = NoRow /\ \E d \in Deletions :
                                  DeleteCommit(d) /\ j \in deletion[d].sawJobs
<1> DEFINE Goal ==
         \/ job'[j].status = job[j].status /\ job'[j].attempts = job[j].attempts
         \/ \E w \in Workers : /\ ClaimCommit(w) /\ j = JobOf(w)
                               /\ Claimable(job[j])
                               /\ job'[j] = Claimed(job[j])
         \/ job'[j].status \in JobStatus \ {"processing"} /\ job'[j].attempts = job[j].attempts
         \/ ~Exists(job[j]) /\ job'[j] = NewRow
         \/ job'[j] = NoRow /\ \E d \in Deletions :
                                  DeleteCommit(d) /\ j \in deletion[d].sawJobs
<1> SUFFICES Goal
  OBVIOUS
<1> USE DEF database, storage, callers
<1>0. TypeOK
  BY DEF Wellformed
<1>1. ASSUME NEW i \in Jobs, ClaimGoesStale(i) PROVE Goal
  <2>1. job'[j].status = job[j].status /\ job'[j].attempts = job[j].attempts
    BY <1>0, <1>1 DEF ClaimGoesStale, TypeOK, JobRow
  <2>2. QED
    BY <2>1
<1>2. ASSUME NEW w \in Workers, ClaimCommit(w) PROVE Goal
  <2>1. j = JobOf(w) /\ job'[j] = Claimed(job[j])
    BY <1>0, <1>2 DEF ClaimCommit, TypeOK
  <2>2. Claimable(job[j])
    BY <1>2, <2>1 DEF ClaimCommit, Wellformed, ClaimStands
  <2>3. QED
    BY <1>2, <2>1, <2>2
<1>3. ASSUME NEW w \in Workers, RecordCommit(w) PROVE Goal
  <2>1. worker[w].op \in JobOp
    BY <1>3 DEF Wellformed, OpIsNamed, RecordCommit
  <2>2. Target[worker[w].op] \in JobStatus \ {"processing"}
    BY <2>1 DEF JobOp, Target, JobStatus
  <2>3. job'[j] = Updated(worker[w].op, worker[w].seenJob, job[j])
    BY <1>0, <1>3 DEF RecordCommit, TypeOK
  <2>4. job'[j].status = Target[worker[w].op] /\ job'[j].attempts = job[j].attempts
    BY <1>0, <2>3 DEF Updated, TypeOK, JobRow
  <2>5. QED
    BY <2>2, <2>4
<1>4. ASSUME NEW r \in Requests, DispatchSave(r) PROVE Goal
  <2>1. ~Exists(job[j]) /\ job'[j] = NewRow
    BY <1>0, <1>4 DEF DispatchSave, TypeOK
  <2>2. QED
    BY <2>1
<1>5. ASSUME NEW d \in Deletions, DeleteCommit(d) PROVE Goal
  <2>1. job'[j] = NoRow /\ j \in deletion[d].sawJobs
    BY <1>5 DEF DeleteCommit, Tombstone
  <2>2. QED
    BY <1>5, <2>1
<1>6. CASE UNCHANGED job
  BY <1>6
<1>7. QED
  BY <1>1, <1>2, <1>3, <1>4, <1>5, <1>6, JobRowActions

\* Every step keeps AbsentIsBlank.
LEMMA BlankStep == Wellformed /\ AbsentIsBlank /\ [Next]_vars => AbsentIsBlank'
<1> SUFFICES ASSUME Wellformed, AbsentIsBlank, [Next]_vars,
                    NEW j \in Jobs, ~Exists(job'[j])
             PROVE  job'[j].attempts = 0
  BY DEF AbsentIsBlank, Exists
<1>1. CASE ~Exists(job[j]) /\ job'[j].attempts = job[j].attempts
  BY <1>1 DEF AbsentIsBlank
<1>2. CASE job'[j] = NoRow
  BY <1>2 DEF NoRow
<1>3. Claimed(job[j]).status # "absent" /\ NewRow.status # "absent"
  BY DEF Claimed, NewRow
<1>4. QED
  BY <1>1, <1>2, <1>3, JobRowMoves DEF Exists, JobStatus

\* A worker has the attempt number it had, or the next one of its job.
LEMMA AttemptTaken ==
  ASSUME Wellformed, [Next]_vars, NEW v \in Workers, worker'[v].attempt > 0
  PROVE  /\ worker'[v].msg = worker[v].msg /\ Holding(v) /\ JobOf(v)' = JobOf(v)
         /\ \/ worker[v].attempt = worker'[v].attempt
            \/ /\ ClaimCommit(v)
               /\ worker'[v].attempt = job[JobOf(v)].attempts + 1
<1> DEFINE Goal == /\ worker'[v].msg = worker[v].msg /\ Holding(v)
                   /\ \/ worker[v].attempt = worker'[v].attempt
                      \/ /\ ClaimCommit(v)
                         /\ worker'[v].attempt = job[JobOf(v)].attempts + 1
<1> SUFFICES Goal
  BY JobOfKept
<1>0. worker \in [Workers -> WorkerLocals] /\ TypeOK
  BY DEF Wellformed, TypeOK
<1>1. CASE worker'[v] = worker[v]
  BY <1>1 DEF Wellformed, AttemptFollowsClaim, Claiming, Holding
<1>2. ASSUME NEW m \in Messages, Receive(v, m) PROVE Goal
  <2>1. worker[v].attempt = 0 /\ worker'[v].attempt = worker[v].attempt
    BY <1>0, <1>2 DEF Receive, Wellformed, AttemptFollowsClaim, Claiming,
       WorkerLocals
  <2>2. QED
    BY <2>1
<1>3. CASE ClaimUnknown(v) \/ ClaimRefused(v) \/ ClaimRow(v)
  BY <1>0, <1>3, IdleShape DEF ClaimUnknown, ClaimRefused, ClaimRow, Holding,
     WorkerLocals
<1>4. CASE ClaimCommit(v)
  BY <1>0, <1>4 DEF ClaimCommit, Holding, WorkerLocals
<1>5. CASE NotClaimed(v)
  BY <1>0, <1>5, IdleShape, UnclaimedStates DEF NotClaimed, Holding,
     WorkerLocals
<1>6. CASE LoadForExhaustion(v)
  BY <1>0, <1>6, IdleShape DEF LoadForExhaustion, Holding, WorkerLocals
<1>7. CASE Load(v) \/ Copy(v)
  BY <1>0, <1>7 DEF Load, Copy, Holding, WorkerLocals
<1>8. CASE Process(v) \/ ProcessRejects(v) \/ StepFails(v)
  BY <1>0, <1>8, BeginShape DEF Process, ProcessRejects, StepFails, Holding,
     WorkerLocals
<1>9. CASE Clear(v)
  BY <1>0, <1>9 DEF Clear, Begin, Holding, WorkerLocals
<1>10. CASE CompleteLoad(v) \/ RecordRead(v)
  BY <1>0, <1>10, BeginShape, IdleShape DEF CompleteLoad, RecordRead,
     RecordFailed, Holding, WorkerLocals
<1>11. CASE RecordUpdate(v)
  BY <1>0, <1>11, BeginShape, IdleShape DEF RecordUpdate, RecordFailed, Holding,
     WorkerLocals
<1>12. CASE RecordCommit(v)
  <2>1. worker[v].pc = "committing"
    BY <1>0, <1>12, RecordCommitShape
  <2>2. \/ worker'[v].attempt = 0
        \/ worker'[v].msg = worker[v].msg /\ worker'[v].attempt = worker[v].attempt
    BY <1>0, <1>12, RecordCommitFields, IdleShape
  <2>3. ~(0 > 0)
    OBVIOUS
  <2>4. QED
    BY <2>1, <2>2, <2>3 DEF Holding
<1>13. CASE CompleteFails(v)
  BY <1>0, <1>13, BeginShape DEF CompleteFails, Holding
<1>14. CASE Release(v) \/ Acknowledge(v) \/ Abandon(v)
  BY <1>0, <1>14, IdleShape DEF Release, Acknowledge, Abandon
<1>15. QED
  BY <1>1, <1>2, <1>3, <1>4, <1>5, <1>6, <1>7, <1>8, <1>9, <1>10, <1>11, <1>12,
     <1>13,
     <1>14, OneWorkerMoves DEF WorkerStep, WorkerProgress

\* A claim is begun on a document that is not deleted.
LEMMA ClaimBegun ==
  ASSUME Wellformed, [Next]_vars, NEW u \in Workers, worker'[u].pc = "claiming"
  PROVE  /\ JobOf(u)' = JobOf(u)
         /\ worker[u].pc = "claiming" \/ (~document.deleted /\ UNCHANGED document)
<1>1. JobOf(u)' = JobOf(u)
  BY RowTaken DEF HoldsRow
<1>2. CASE worker'[u] = worker[u]
  BY <1>1, <1>2
<1>3. CASE WorkerStep(u) \/ Abandon(u)
  BY <1>1, <1>3, LockTaken DEF ClaimRow, database
<1>4. QED
  BY <1>2, <1>3, OneWorkerMoves

\* Every step keeps AttemptsAreCounted.
LEMMA CountedStep ==
  Wellformed /\ AbsentIsBlank /\ AttemptsAreCounted /\ [Next]_vars
      => AttemptsAreCounted'
<1> SUFFICES ASSUME Wellformed, AbsentIsBlank, AttemptsAreCounted, [Next]_vars,
                    NEW v \in Workers, worker'[v].attempt > 0
             PROVE  \/ worker'[v].attempt <= job'[JobOf(v)'].attempts
                    \/ /\ document'.deleted
                       /\ \A u \in Workers :
                             worker'[u].pc = "claiming" => JobOf(u)' # JobOf(v)'
  BY DEF AttemptsAreCounted
<1>1. JobOf(v)' = JobOf(v) /\ JobOf(v) \in Jobs /\ job[JobOf(v)] \in JobRow
  BY AttemptTaken, HeldJob
<1>2. job'[JobOf(v)].attempts \in Nat /\ worker'[v].attempt \in Nat
  BY <1>1, TypeStep DEF TypeOK, JobRow, WorkerLocals
<1>3. CASE ClaimCommit(v) /\ worker'[v].attempt = job[JobOf(v)].attempts + 1
  <2>1. job'[JobOf(v)].attempts = job[JobOf(v)].attempts + 1
    BY <1>1, <1>3 DEF ClaimCommit, Wellformed, TypeOK, Claimed
  <2>2. QED
    BY <1>1, <1>3, <2>1 DEF JobRow
<1>4. ASSUME worker[v].attempt = worker'[v].attempt,
             worker[v].attempt <= job[JobOf(v)].attempts,
             job'[JobOf(v)] # NoRow \/ job'[JobOf(v)] = job[JobOf(v)]
      PROVE  worker'[v].attempt <= job'[JobOf(v)].attempts
  <2>1. worker[v].attempt \in Nat /\ job[JobOf(v)].attempts \in Nat
    BY <1>1 DEF Wellformed, TypeOK, WorkerLocals, JobRow
  <2>2. Exists(job[JobOf(v)])
    BY <1>1, <1>4, <2>1 DEF AbsentIsBlank
  <2>3. job'[JobOf(v)].attempts >= job[JobOf(v)].attempts
    <3>1. CASE job'[JobOf(v)].attempts = job[JobOf(v)].attempts
      BY <2>1, <3>1
    <3>2. CASE job'[JobOf(v)] = Claimed(job[JobOf(v)])
      BY <2>1, <3>2 DEF Claimed
    <3>3. QED
      BY <1>1, <1>4, <2>2, <3>1, <3>2, JobRowMoves
  <2>4. QED
    BY <1>2, <1>4, <2>1, <2>3
<1>5. ASSUME worker[v].attempt = worker'[v].attempt,
             worker[v].attempt <= job[JobOf(v)].attempts,
             job'[JobOf(v)] = NoRow, job'[JobOf(v)] # job[JobOf(v)]
      PROVE  /\ document'.deleted
             /\ \A u \in Workers :
                   worker'[u].pc = "claiming" => JobOf(u)' # JobOf(v)'
  <2>1. PICK d \in Deletions : DeleteCommit(d)
    <3>1. job[JobOf(v)].attempts # 0
      BY <1>1, <1>5 DEF Wellformed, TypeOK, WorkerLocals, JobRow
    <3>2. /\ job'[JobOf(v)].attempts = 0 /\ job'[JobOf(v)].status = "absent"
          /\ NewRow.status # "absent" /\ Claimed(job[JobOf(v)]).status # "absent"
      BY <1>5 DEF NoRow, NewRow, Claimed
    <3>3. QED
      BY <1>1, <1>5, <3>1, <3>2, JobRowMoves DEF JobStatus
  <2>2. document'.deleted /\ worker' = worker
    BY <2>1 DEF DeleteCommit, Tombstone, MarkDeleted
  <2>3. JobOf(v) \in deletion[d].sawJobs
    BY <1>1, <1>5, <2>1 DEF DeleteCommit, Tombstone
  <2>4. ASSUME NEW u \in Workers, worker'[u].pc = "claiming"
        PROVE  JobOf(u)' # JobOf(v)'
    BY <1>1, <2>1, <2>2, <2>3, <2>4, ClaimBegun
    DEF Wellformed, LocksAreExclusive, Purges, HoldsRow, DeleteCommit
  <2>5. QED
    BY <2>2, <2>4
<1>6. ASSUME worker[v].attempt = worker'[v].attempt, document.deleted,
             \A u \in Workers : worker[u].pc = "claiming" => JobOf(u) # JobOf(v)
      PROVE  /\ document'.deleted
             /\ \A u \in Workers :
                   worker'[u].pc = "claiming" => JobOf(u)' # JobOf(v)'
  BY <1>1, <1>6, ClaimBegun, DeletedByDeletion
<1>7. QED
  BY <1>1, <1>3, <1>4, <1>5, <1>6, AttemptTaken DEF AttemptsAreCounted

\* Every step keeps ClaimsAreExclusive.
LEMMA ExclusiveStep ==
  Wellformed /\ AttemptsAreCounted /\ ClaimsAreExclusive /\ [Next]_vars => ClaimsAreExclusive'
<1> SUFFICES ASSUME Wellformed, AttemptsAreCounted, ClaimsAreExclusive, [Next]_vars,
                    NEW u \in Workers, NEW v \in Workers, u # v,
                    worker'[u].attempt > 0, worker'[v].attempt > 0, JobOf(u)' = JobOf(v)'
             PROVE  worker'[u].attempt # worker'[v].attempt
  BY DEF ClaimsAreExclusive
<1>0. JobOf(u) = JobOf(v) /\ job[JobOf(u)] \in JobRow
      /\ worker[u] \in WorkerLocals /\ worker[v] \in WorkerLocals
  BY AttemptTaken, HeldJob DEF Wellformed, TypeOK
<1>1. ASSUME NEW x \in Workers, NEW y \in Workers, x # y, ClaimCommit(x), JobOf(x) = JobOf(y),
             job[JobOf(x)] \in JobRow,
             worker'[x].attempt = job[JobOf(x)].attempts + 1, worker'[y].attempt > 0
      PROVE  worker'[x].attempt # worker'[y].attempt
  <2>1. worker'[y] = worker[y] /\ worker[x].pc = "claiming"
    BY <1>1, OthersKeepLocals DEF WorkerStep, WorkerProgress, Wellformed, ClaimCommit
  <2>2. worker[y].attempt <= job[JobOf(x)].attempts
    BY <1>1, <2>1 DEF AttemptsAreCounted
  <2>3. worker[y].attempt \in Nat /\ job[JobOf(x)].attempts \in Nat
    BY <1>1 DEF Wellformed, TypeOK, WorkerLocals, JobRow
  <2>4. QED
    BY <1>1, <2>1, <2>2, <2>3
<1>2. CASE worker[u].attempt = worker'[u].attempt /\ worker[v].attempt = worker'[v].attempt
  BY <1>0, <1>2 DEF ClaimsAreExclusive
<1>3. QED
  BY <1>0, <1>1, <1>2, AttemptTaken

------------------------------------------------------------------------------
(* Results *)

\* Every step keeps NoneToCommit.
LEMMA NoneStep == Wellformed /\ NoneToCommit /\ [Next]_vars => NoneToCommit'
<1> SUFFICES ASSUME Wellformed, NoneToCommit, [Next]_vars, document'.deleted,
                    NEW w \in Workers,
                    worker'[w].op = "complete", worker'[w].pc = "committing"
             PROVE  FALSE
  BY DEF NoneToCommit
<1>1. CASE worker'[w] = worker[w] /\ document.deleted
  BY <1>1 DEF NoneToCommit
<1>2. ASSUME NEW d \in Deletions, DeleteCommit(d) PROVE FALSE
  BY <1>2 DEF DeleteCommit, SharesKey
<1>3. CASE (WorkerStep(w) \/ Abandon(w)) /\ document.deleted
  <2>1. RecordUpdate(w)
    BY <1>3, LockTaken DEF ClaimRow
  <2>2. worker'[w].pc \in {"begin", "idle"}
    BY <1>3, <2>1, BeginShape, IdleShape
    DEF RecordUpdate, RecordFailed, Wellformed, TypeOK
  <2>3. QED
    BY <2>2
<1>4. QED
  BY <1>1, <1>2, <1>3, OneWorkerMoves, DeletedByDeletion

\* The steps that write page rows.
LEMMA PageActions ==
  [Next]_vars =>
      \/ UNCHANGED pages
      \/ \E w \in Workers : RecordCommit(w) /\ worker[w].op = "complete"
      \/ \E d \in Deletions : DeleteCommit(d)
<1> SUFFICES ASSUME [Next]_vars
             PROVE  \/ UNCHANGED pages
                    \/ \E w \in Workers : RecordCommit(w) /\ worker[w].op = "complete"
                    \/ \E d \in Deletions : DeleteCommit(d)
  OBVIOUS
<1> USE DEF database
<1>1. ASSUME NEW w \in Workers, WorkerStep(w) \/ Abandon(w), ~RecordCommit(w)
      PROVE  UNCHANGED pages
  BY <1>1 DEF WorkerStep, WorkerProgress, Receive, ClaimUnknown, ClaimRefused,
     ClaimRow, ClaimCommit, NotClaimed, LoadForExhaustion, Load, Process,
     ProcessRejects, Copy, Clear, StepFails, CompleteLoad, RecordRead,
     RecordUpdate, CompleteFails, Release, Acknowledge, Abandon
<1>2. ASSUME NEW w \in Workers, RecordCommit(w), worker[w].op # "complete"
      PROVE  UNCHANGED pages
  BY <1>2 DEF RecordCommit
<1>3. ASSUME NEW r \in Requests, RequestStep(r) PROVE UNCHANGED pages
  BY <1>3 DEF RequestStep, DispatchRead, DispatchSave, DispatchSend, DispatchAbort
<1>4. ASSUME NEW d \in Deletions, DeletionStep(d), ~DeleteCommit(d)
      PROVE  UNCHANGED pages
  BY <1>4 DEF DeletionStep, DeletionProgress, DeleteCheck, DeleteQuarantined,
     DeleteValidated, PurgePages, PurgeJobs, LockJobs, DeleteAbort
<1>5. ASSUME NEW m \in Messages, VisibilityExpires(m) \/ Redrive(m)
      PROVE  UNCHANGED pages
  BY <1>5 DEF VisibilityExpires, Redrive
<1>6. ASSUME NEW j \in Jobs, ClaimGoesStale(j) PROVE UNCHANGED pages
  BY <1>6 DEF ClaimGoesStale
<1>7. CASE UNCHANGED vars
  BY <1>7 DEF vars
<1>8. QED
  BY <1>1, <1>2, <1>3, <1>4, <1>5, <1>6, <1>7, PlainSteps DEF PlainStep

\* A job is completed by the commit of a completion.
LEMMA CompletedByCommit ==
  ASSUME Wellformed, [Next]_vars, NEW j \in Jobs,
         job'[j].status = "completed", job[j].status # "completed"
  PROVE  \E w \in Workers : RecordCommit(w) /\ worker[w].op = "complete"
<1>0. job \in [Jobs -> JobRow]
  BY DEF Wellformed, TypeOK
<1>1. ASSUME NEW i \in Jobs, ClaimGoesStale(i) PROVE FALSE
  BY <1>0, <1>1 DEF ClaimGoesStale, JobRow
<1>2. ASSUME NEW w \in Workers, ClaimCommit(w) PROVE FALSE
  BY <1>0, <1>2 DEF ClaimCommit, Claimed
<1>3. ASSUME NEW w \in Workers, RecordCommit(w) PROVE worker[w].op = "complete"
  <2>1. worker[w].op \in JobOp
    BY <1>3 DEF Wellformed, OpIsNamed, RecordCommit
  <2>2. job'[j] = Updated(worker[w].op, worker[w].seenJob, job[j])
    BY <1>0, <1>3 DEF RecordCommit
  <2>3. Target[worker[w].op] = "completed"
    BY <1>0, <2>2 DEF Updated, JobRow
  <2>4. QED
    BY <2>1, <2>3 DEF JobOp, Target
<1>4. ASSUME NEW r \in Requests, DispatchSave(r) PROVE FALSE
  BY <1>0, <1>4 DEF DispatchSave, NewRow
<1>5. ASSUME NEW d \in Deletions, DeleteCommit(d) PROVE FALSE
  BY <1>5 DEF DeleteCommit, Tombstone, NoRow
<1>6. QED
  BY <1>1, <1>2, <1>3, <1>4, <1>5, JobRowActions

------------------------------------------------------------------------------
(* Objects *)

\* The steps that touch the bucket.
LEMMA ObjectActions ==
  [Next]_vars =>
      \/ UNCHANGED <<objects, purging>>
      \/ \E w \in Workers : Copy(w) \/ Clear(w) \/ StepFails(w)
      \/ \E d \in Deletions : DeleteQuarantined(d) \/ DeleteValidated(d)
<1> SUFFICES ASSUME [Next]_vars
             PROVE  \/ UNCHANGED <<objects, purging>>
                    \/ \E w \in Workers : Copy(w) \/ Clear(w) \/ StepFails(w)
                    \/ \E d \in Deletions : DeleteQuarantined(d) \/ DeleteValidated(d)
  OBVIOUS
<1> USE DEF database, storage, callers
<1>1. ASSUME NEW m \in Messages, VisibilityExpires(m) \/ Redrive(m)
      PROVE  UNCHANGED <<objects, purging>>
  BY <1>1 DEF VisibilityExpires, Redrive
<1>2. ASSUME NEW j \in Jobs, ClaimGoesStale(j)
      PROVE  UNCHANGED <<objects, purging>>
  BY <1>2 DEF ClaimGoesStale
<1>3. ASSUME NEW w \in Workers, WorkerStep(w) \/ Abandon(w), ~Copy(w), ~Clear(w), ~StepFails(w)
      PROVE  UNCHANGED <<objects, purging>>
  BY <1>3 DEF WorkerStep, WorkerProgress, Receive, ClaimUnknown, ClaimRefused,
     ClaimRow,
     ClaimCommit, NotClaimed,
     LoadForExhaustion, Load, Process, ProcessRejects,
     CompleteLoad, RecordRead, RecordUpdate, RecordCommit, CompleteFails,
     Release, Acknowledge, Abandon
<1>4. ASSUME NEW r \in Requests, RequestStep(r)
      PROVE  UNCHANGED <<objects, purging>>
  BY <1>4 DEF RequestStep, DispatchRead, DispatchSave, DispatchSend,
     DispatchAbort
<1>5. ASSUME NEW d \in Deletions, DeletionStep(d), ~DeleteQuarantined(d), ~DeleteValidated(d)
      PROVE  UNCHANGED <<objects, purging>>
  BY <1>5 DEF DeletionStep, DeletionProgress, DeleteCheck, PurgePages,
     PurgeJobs, LockJobs, DeleteCommit, DeleteAbort
<1>6. CASE UNCHANGED vars
  BY <1>6 DEF vars
<1>7. QED
  BY <1>1, <1>2, <1>3, <1>4, <1>5, <1>6, PlainSteps DEF PlainStep

\* What any step may do to the bucket.
LEMMA ObjectMoves ==
  ASSUME Wellformed, [Next]_vars
  PROVE  /\ "quarantine" \in objects' => "quarantine" \in objects
         /\ "validated" \in objects' => objects # {}
         /\ Backed => Backed'
         /\ objects' = {} => objects = {} \/ purging' \/ \E w \in Workers : Trusting(w)
<1> USE DEF Backed
<1>1. CASE UNCHANGED <<objects, purging>>
  BY <1>1
<1>2. ASSUME NEW w \in Workers, Copy(w) \/ Clear(w) \/ StepFails(w)
      PROVE  /\ "quarantine" \in objects' => "quarantine" \in objects
             /\ "validated" \in objects' => objects # {}
             /\ Backed => Backed'
             /\ objects' = {} => objects = {} \/ Trusting(w)
  BY <1>2 DEF Copy, Clear, StepFails, Trusting
<1>3. ASSUME NEW d \in Deletions, DeleteQuarantined(d) \/ DeleteValidated(d)
      PROVE  objects' \subseteq objects /\ purging'
  BY <1>3 DEF DeleteQuarantined, DeleteValidated
<1>4. QED
  BY <1>1, <1>2, <1>3, ObjectActions

\* A worker that comes to count on the validated object has it from the
\* documents row, or has just written it.
LEMMA TrustTaken ==
  ASSUME Wellformed, [Next]_vars, NEW v \in Workers, Trusting(v)'
  PROVE  Trusting(v) \/ document.key = "validated" \/ "validated" \in objects'
<1> DEFINE Goal == Trusting(v) \/ document.key = "validated" \/ "validated" \in objects'
<1> SUFFICES Goal
  OBVIOUS
<1>0. worker \in [Workers -> WorkerLocals] /\ TypeOK
  BY DEF Wellformed, TypeOK
<1> USE DEF Trusting
<1>1. CASE worker'[v] = worker[v]
  BY <1>1
<1>2. ASSUME NEW m \in Messages, Receive(v, m) PROVE Goal
  BY <1>0, <1>2 DEF Receive, WorkerLocals, TypeOK, MessageRow
<1>3. CASE ClaimUnknown(v) \/ ClaimRefused(v)
  BY <1>0, <1>3, IdleShape DEF ClaimUnknown, ClaimRefused, UploadedDocument,
     WorkerLocals, Idle
<1>4. CASE ClaimRow(v)
  BY <1>0, <1>4 DEF ClaimRow, WorkerLocals
<1>5. CASE ClaimCommit(v)
  BY <1>0, <1>5 DEF ClaimCommit, WorkerLocals
<1>6. CASE NotClaimed(v)
  BY <1>0, <1>6, IdleShape, UnclaimedStates DEF NotClaimed, WorkerLocals,
     UploadedDocument, Idle
<1>7. CASE LoadForExhaustion(v)
  BY <1>0, <1>7, IdleShape DEF LoadForExhaustion, WorkerLocals,
     UploadedDocument, Idle
<1>8. CASE Load(v)
  BY <1>0, <1>8 DEF Load, WorkerLocals, UploadedDocument
<1>9. CASE Copy(v)
  BY <1>0, <1>9 DEF Copy
<1>10. CASE Process(v)
  BY <1>0, <1>10, BeginShape DEF Process, WorkerLocals, UploadedDocument
<1>11. CASE ProcessRejects(v) \/ StepFails(v)
  BY <1>0, <1>11, BeginShape, RetryOpTyped DEF ProcessRejects, StepFails,
     WorkerLocals, UploadedDocument
<1>12. CASE Clear(v)
  BY <1>0, <1>12 DEF Clear
<1>13. CASE CompleteLoad(v) \/ RecordRead(v)
  BY <1>0, <1>13, BeginShape, IdleShape, RetryOpTyped DEF CompleteLoad,
     RecordRead, RecordFailed, UploadedDocument, WorkerLocals, Wellformed,
     OpIsNamed
<1>14. CASE RecordUpdate(v)
  BY <1>0, <1>14, BeginShape, IdleShape, RetryOpTyped DEF RecordUpdate,
     RecordFailed, UploadedDocument, WorkerLocals
<1>15. CASE RecordCommit(v)
  <2>1. UploadedDocument.key = "quarantine"
    BY DEF UploadedDocument
  <2>2. CASE worker'[v] = Idle
    BY <2>1, <2>2, IdleShape
  <2>3. CASE worker'[v] # Idle
    BY <1>0, <1>15, <2>1, <2>3, RecordCommitFields
  <2>4. QED
    BY <2>2, <2>3
<1>16. CASE CompleteFails(v)
  BY <1>0, <1>16, BeginShape DEF CompleteFails, UploadedDocument
<1>17. CASE Release(v) \/ Acknowledge(v) \/ Abandon(v)
  BY <1>0, <1>17, IdleShape DEF Release, Acknowledge, Abandon, UploadedDocument
<1>18. QED
  BY <1>1, <1>2, <1>3, <1>4, <1>5, <1>6, <1>7, <1>8, <1>9, <1>10, <1>11, <1>12,
     <1>13,
     <1>14, <1>15, <1>16, <1>17, OneWorkerMoves DEF WorkerStep, WorkerProgress

\* The documents row names the validated key because it did before, or
\* because a worker that counts on it says so.
LEMMA KeyTaken ==
  ASSUME Wellformed, [Next]_vars, document'.key = "validated"
  PROVE  document.key = "validated" \/ \E w \in Workers : Trusting(w)
<1>0. TypeOK /\ \A w \in Workers : worker[w].seenDoc \in DocumentRow
  BY DEF Wellformed, TypeOK, WorkerLocals
<1>1. ASSUME NEW w \in Workers, ClaimCommit(w)
      PROVE  document'.key = document.key
  BY <1>0, <1>1 DEF ClaimCommit, Flush, MarkProcessing, DocumentRow
<1>2. ASSUME NEW w \in Workers, RecordCommit(w)
      PROVE  document.key = "validated" \/ Trusting(w)
  <2> DEFINE key == IF worker[w].op = "complete" THEN "validated" ELSE RecordedKey(w)
  <2>1. document' = Flush(document, worker[w].seenDoc, Marked(worker[w].op, worker[w].seenDoc, key))
    BY <1>2 DEF RecordCommit, Recorded
  <2>2. Marked(worker[w].op, worker[w].seenDoc, key).key = key
    BY <1>0 DEF Marked, DocumentRow
  <2>3. document'.key = document.key \/ document'.key = key
    BY <2>1, <2>2 DEF Flush
  <2>4. key = "validated" => Trusting(w)
    BY <1>2 DEF RecordedKey, Trusting, RecordCommit
  <2>5. QED
    BY <2>3, <2>4
<1>3. ASSUME NEW r \in Requests, DispatchSave(r)
      PROVE  document'.key = document.key
  BY <1>0, <1>3 DEF DispatchSave, TypeOK, DocumentRow
<1>4. ASSUME NEW j \in Jobs, ClaimGoesStale(j) PROVE document' = document
  BY <1>4 DEF ClaimGoesStale
<1>5. ASSUME NEW d \in Deletions, DeleteCommit(d)
      PROVE  document'.key # "validated"
  BY <1>5 DEF DeleteCommit, Tombstone, MarkDeleted
<1>6. QED
  BY <1>1, <1>2, <1>3, <1>4, <1>5, JobRowActions

\* Every step keeps ObjectsInv.
LEMMA ObjectsStep == Wellformed /\ ObjectsInv /\ [Next]_vars => ObjectsInv'
<1> SUFFICES ASSUME Wellformed, ObjectsInv, [Next]_vars PROVE ObjectsInv'
  OBVIOUS
<1>1. (\E w \in Workers : Trusting(w)) \/ document.key = "validated" => Backed'
  BY ObjectMoves DEF ObjectsInv, TrustIsBacked, ValidatedKeyIsBacked, Backed
<1>2. UploadIsNeverLost'
  BY <1>1, ObjectMoves DEF ObjectsInv, UploadIsNeverLost, Backed
<1>3. ValidatedKeyIsBacked'
  BY <1>1, KeyTaken DEF ValidatedKeyIsBacked, Backed
<1>4. TrustIsBacked'
  BY <1>1, TrustTaken DEF TrustIsBacked, Backed
<1>5. QED
  BY <1>2, <1>3, <1>4 DEF ObjectsInv

\* A deletion gets on by its own steps only.
LEMMA DeletionMoves ==
  ASSUME TypeOK, [Next]_vars, NEW e \in Deletions
  PROVE  deletion'[e].pc = deletion[e].pc \/ DeletionStep(e)
<1>1. ASSUME NEW d \in Deletions, DeletionStep(d), d # e
      PROVE  deletion'[e].pc = deletion[e].pc
  BY <1>1 DEF DeletionStep, DeletionProgress, DeleteCheck, DeleteQuarantined,
     DeleteValidated, PurgePages, PurgeJobs, LockJobs, DeleteCommit, Tombstone,
     DeleteAbort, TypeOK, DeletionLocals
<1>2. QED
  BY <1>1, DeletionsStepAlone

\* Every step keeps DeletionInv.
LEMMA DeletionStepKeeps == Wellformed /\ DeletionInv /\ [Next]_vars => DeletionInv'
<1> SUFFICES ASSUME Wellformed, DeletionInv, [Next]_vars PROVE DeletionInv'
  OBVIOUS
<1>0. objects \subseteq {"quarantine", "validated"} /\ objects' \subseteq {"quarantine", "validated"}
      /\ deletion \in [Deletions -> DeletionLocals]
  BY TypeStep DEF Wellformed, TypeOK
<1>1. DeletionLeavesNoObject'
  <2>1. CASE document.deleted
    BY <1>0, <2>1, ObjectMoves DEF DeletionInv, DeletionLeavesNoObject
  <2>2. ASSUME NEW d \in Deletions, DeleteCommit(d) PROVE objects' = {}
    BY <1>0, <2>2 DEF DeleteCommit, storage, DeletionInv, ObjectsGone
  <2>3. QED
    BY <2>1, <2>2, DeletedByDeletion DEF DeletionLeavesNoObject
<1>2. ASSUME NEW e \in Deletions
      PROVE  /\ deletion'[e].pc \in {"validated", "purge", "jobs", "locking", "marking"} =>
                    "quarantine" \notin objects'
             /\ deletion'[e].pc \in {"purge", "jobs", "locking", "marking"} =>
                    "validated" \notin objects'
  <2>1. CASE deletion'[e].pc = deletion[e].pc
    BY <1>0, <2>1, ObjectMoves DEF DeletionInv, ObjectsGone
  <2>2. CASE DeleteCheck(e) \/ DeleteQuarantined(e) \/ DeleteValidated(e)
    BY <1>0, <2>2 DEF DeleteCheck, DeleteQuarantined, DeleteValidated,
       DeletionLocals, DeletionInv, ObjectsGone, storage
  <2>3. CASE PurgePages(e) \/ PurgeJobs(e) \/ LockJobs(e)
    BY <1>0, <2>3 DEF PurgePages, PurgeJobs, LockJobs, DeletionLocals,
       DeletionInv, ObjectsGone, storage
  <2>4. CASE DeleteCommit(e) \/ DeleteAbort(e)
    BY <1>0, <2>4 DEF DeleteCommit, Tombstone, DeleteAbort, NotDeleting
  <2>5. QED
    BY <2>1, <2>2, <2>3, <2>4, DeletionMoves
    DEF Wellformed, DeletionStep, DeletionProgress
<1>3. QED
  BY <1>1, <1>2 DEF DeletionInv, ObjectsGone

------------------------------------------------------------------------------
(* The theorems *)

\* The invariant about claims holds in every reachable state.
THEOREM ClaimInvHolds == Spec => []ClaimInv
<1>1. Init => AbsentIsBlank /\ AttemptsAreCounted /\ ClaimsAreExclusive
  BY DEF Init, AbsentIsBlank, AttemptsAreCounted, ClaimsAreExclusive, NoRow, Idle
<1>2. ClaimInv /\ [Next]_vars /\ Wellformed' => ClaimInv'
  BY BlankStep, CountedStep, ExclusiveStep DEF ClaimInv
<1>3. QED
  BY <1>1, <1>2, WellformedHolds, PTL DEF Spec, ClaimInv

\* No two workers ever hold the same attempt of a job, not even when a stale
\* claim is taken over from a worker that is still alive.
THEOREM ExclusiveClaims == Spec => []ClaimsAreExclusive
<1>1. ClaimInv => ClaimsAreExclusive
  BY DEF ClaimInv
<1>2. QED
  BY <1>1, ClaimInvHolds, PTL

\* A claim never brings back a completed, failed or dead-lettered job.
THEOREM SettledStaysUnclaimed == Spec => SettledJobIsNotClaimed
<1>1. ASSUME ClaimInv, [Next]_vars, NEW j \in Jobs, job[j].status \in SettledStatus
      PROVE  job'[j].status # "processing"
  <2>1. job[j].status # "processing" /\ ~Claimable(job[j])
    BY <1>1 DEF SettledStatus, ActiveStatus, JobStatus, Claimable
  <2>2. QED
    BY <1>1, <2>1, JobRowMoves DEF ClaimInv, NewRow, NoRow, JobStatus
<1>2. ClaimInv /\ [Next]_vars =>
        [\A j \in Jobs : job[j].status \in SettledStatus =>
             job'[j].status # "processing"]_vars
  BY <1>1
<1>3. QED
  BY <1>2, ClaimInvHolds, PTL DEF Spec, SettledJobIsNotClaimed

\* Nothing is recorded as a result of a deleted document, whenever its jobs
\* were saved or claimed: a _complete shares the documents row from its first
\* page to its commit, which the deletion has to wait for.
THEOREM TombstoneStaysEmpty == Spec => TombstoneTakesNoResult
<1>1. Init => NoneToCommit
  BY DEF Init, NoneToCommit, UploadedDocument
<1>2. ASSUME Wellformed, NoneToCommit, [Next]_vars, document.deleted
      PROVE  /\ pages' \in {pages, NoPages}
             /\ \A j \in Jobs : job'[j].status = "completed"
                                 => job[j].status = "completed"
  <2>1. ASSUME NEW w \in Workers, RecordCommit(w) PROVE worker[w].op # "complete"
    BY <1>2, <2>1 DEF NoneToCommit, RecordCommit
  <2>2. ASSUME NEW d \in Deletions, DeleteCommit(d)
        PROVE  pages' \in {pages, NoPages}
    BY <2>2 DEF DeleteCommit, Tombstone
  <2>3. QED
    BY <1>2, <2>1, <2>2, PageActions, CompletedByCommit
<1>3. Wellformed /\ NoneToCommit /\ [Next]_vars =>
        [document.deleted =>
             /\ pages' \in {pages, NoPages}
             /\ \A j \in Jobs : job'[j].status = "completed"
                                 => job[j].status = "completed"]_vars
  BY <1>2
<1>4. QED
  BY <1>1, <1>3, NoneStep, WellformedHolds, PTL DEF Spec, TombstoneTakesNoResult

\* The invariant about the bucket holds in every reachable state.
THEOREM ObjectsInvHolds == Spec => []ObjectsInv
<1>1. Init => ObjectsInv
  BY DEF Init, ObjectsInv, UploadIsNeverLost, ValidatedKeyIsBacked,
     TrustIsBacked, Trusting, Idle, UploadedDocument
<1>2. QED
  BY <1>1, ObjectsStep, WellformedHolds, PTL DEF Spec

\* Whatever fails between the two halves of any number of promotions, the
\* upload has a copy left unless a deletion has begun to remove it.
THEOREM UploadSurvives == Spec => []UploadIsNeverLost
<1>1. ObjectsInv => UploadIsNeverLost
  BY DEF ObjectsInv
<1>2. QED
  BY <1>1, ObjectsInvHolds, PTL

\* No interleaving of retries, zombies and lost commit answers leaves the
\* documents row at a validated key with nothing behind it.
THEOREM ValidatedKeyBacked == Spec => []ValidatedKeyIsBacked
<1>1. ObjectsInv => ValidatedKeyIsBacked
  BY DEF ObjectsInv
<1>2. QED
  BY <1>1, ObjectsInvHolds, PTL

\* No object outlives its document or comes back: the order in which a
\* deletion removes the two keys leaves a late promotion nothing to copy.
THEOREM TombstoneHasNoObject == Spec => []DeletionLeavesNoObject
<1>1. Init => DeletionInv
  BY DEF Init, DeletionInv, DeletionLeavesNoObject, ObjectsGone,
     UploadedDocument, NotDeleting
<1>2. DeletionInv => DeletionLeavesNoObject
  BY DEF DeletionInv
<1>3. QED
  BY <1>1, <1>2, DeletionStepKeeps, WellformedHolds, PTL DEF Spec

==============================================================================
