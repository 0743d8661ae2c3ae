------------------------ MODULE DocumentPipelineRecords ------------------------
(***************************************************************************)
(* What the database rows say of each other and of the queue, proved: an   *)
(* acknowledged message has its work saved, a dead letter is earned, and   *)
(* the documents row follows the processing_jobs row.                      *)
(*                                                                         *)
(* The first two hold for every value of the constants.  The third holds   *)
(* for one job and two workers, which is what the deployment runs          *)
(* (worker_desired_count is 1, and a rolling replacement doubles it); with *)
(* a third worker it fails, and RecorderIsAlone is where its proof breaks. *)
(***************************************************************************)
EXTENDS DocumentPipelineSafety

------------------------------------------------------------------------------
(* The invariants *)

\* The text is on record, or was until the document was deleted.
Saved == pages # NoPages \/ document.deleted

SavedInv ==
    /\ \A w \in Workers : worker[w].pc = "acking" => Saved
    /\ \A j \in Jobs : job[j].status = "completed" => Saved
    /\ AcknowledgedWorkIsSaved

\* A message counts its deliveries from zero, and no worker is ahead of it.
DeliveriesAreCounted ==
    /\ \A m \in Messages : message[m].state = "unsent" => message[m].receives = 0
    /\ \A w \in Workers : Holding(w) =>
           worker[w].count <= message[worker[w].msg].receives

\* A transaction that has updated the job row finds the row there until it
\* commits: a deletion that has found the row waits for its lock.  The document
\* may be deleted meanwhile, by a deletion that has not found it.
LockedRowStands == \A w \in Workers : HoldsRow(w) => Exists(job[JobOf(w)])

Earned(j) ==
    \/ job[j].attempts = MaxAttempts
    \/ \E m \in Messages : message[m].job = j /\ message[m].receives = RedriveMax

\* A worker about to declare a job dead is entitled to, if it gets as far as
\* the row.
Exhausting(w) ==
    \/ worker[w].pc = "exhausting"
    \/ /\ worker[w].pc \in {"begin", "updating", "committing"}
       /\ worker[w].op = "exhaust"
ExhaustionIsEarned ==
    \A w \in Workers : Exhausting(w) =>
        Earned(JobOf(w)) \/ (document.deleted /\ ~HoldsRow(w))

DeadLetterInv ==
    /\ DeliveriesAreCounted /\ LockedRowStands /\ ExhaustionIsEarned
    /\ DeadLetterIsEarned

OneKey == \A i, j \in Jobs : i = j
TwoWorkers == \A u, v, w \in Workers : u = v \/ u = w \/ v = w

\* The document's status will not change again, short of a deletion.
StatusIsFinal == document.deleted \/ document.status = "completed"

\* A worker that may open a recording transaction without a new claim, and
\* one that has read the job in such a transaction.
MayRecord(w) ==
    worker[w].pc \in {"loading", "reading", "copying", "clearing", "exhausting",
                      "begin", "paging", "updating", "committing"}
Recording(w) == worker[w].pc \in {"updating", "committing"}
ReadActive(w) == Recording(w) /\ worker[w].seenJob \in ActiveStatus
ReadSettled(w) == Recording(w) /\ worker[w].seenJob \in SettledStatus

\* Whoever holds on to the job as it was before it was settled is the last
\* worker that can record anything about it.
RecorderIsAlone ==
    \A v, w \in Workers :
        v # w /\ MayRecord(v) /\ ReadActive(w)
              /\ job[JobOf(w)].status \in SettledStatus => StatusIsFinal

\* A job read as settled stays settled, since nobody read it before.
SettledReadStands ==
    \A w \in Workers : ReadSettled(w) =>
        \/ StatusIsFinal
        \/ /\ worker[w].seenJob # "completed"
           /\ job[JobOf(w)].status \in SettledStatus
           /\ \A v \in Workers \ {w} : ~ReadActive(v)

\* The document is as the session remembers it when the session commits.
SeenIsCurrent ==
    \A w \in Workers :
        /\ worker[w].pc = "claiming" => ReadyForProcessing(worker[w].seenDoc)
        /\ \/ worker[w].pc = "claiming"
           \/ worker[w].pc = "committing" /\ worker[w].op # "complete"
           \/ /\ worker[w].pc = "paging" \/ Recording(w)
              /\ worker[w].op = "complete"
              /\ worker[w].seenDoc.status = "completed"
           => document.deleted \/ document.status = worker[w].seenDoc.status
        /\ Recording(w) => worker[w].seenJob # "absent"
                           /\ ~Conflicts(worker[w].op, worker[w].seenJob)

FollowInv ==
    /\ LockedRowStands
    /\ RecorderIsAlone /\ SettledReadStands /\ SeenIsCurrent
    /\ DocumentFollowsJob

------------------------------------------------------------------------------
(* How a worker comes to a state *)

\* A worker whose locals change has taken a step itself.
LEMMA StepsAreOwn ==
  ASSUME Wellformed, [Next]_vars, NEW v \in Workers
  PROVE  worker'[v] = worker[v] \/ WorkerStep(v) \/ Abandon(v)
  BY OneWorkerMoves

\* It is about to acknowledge because it has recorded a completion, or has
\* found one on record.
LEMMA AckingTaken ==
  ASSUME Wellformed, [Next]_vars, NEW v \in Workers,
         worker'[v] # worker[v], worker'[v].pc = "acking"
  PROVE  \/ RecordCommit(v) /\ worker[v].op = "complete"
         \/ Holding(v) /\ job[JobOf(v)].status = "completed" /\ NotClaimed(v)
<1> DEFINE Goal == \/ RecordCommit(v) /\ worker[v].op = "complete"
                   \/ /\ Holding(v) /\ job[JobOf(v)].status = "completed"
                      /\ NotClaimed(v)
<1> SUFFICES Goal
  OBVIOUS
<1>0. worker \in [Workers -> WorkerLocals] /\ TypeOK
  BY DEF Wellformed, TypeOK
<1>1. ASSUME NEW m \in Messages, Receive(v, m) PROVE Goal
  BY <1>0, <1>1 DEF Receive, WorkerLocals
<1>2. CASE ClaimUnknown(v) \/ ClaimRefused(v)
  BY <1>0, <1>2, IdleShape DEF ClaimUnknown, ClaimRefused, WorkerLocals
<1>3. CASE ClaimRow(v) \/ ClaimCommit(v)
  BY <1>0, <1>3 DEF ClaimRow, ClaimCommit, WorkerLocals
<1>4. CASE NotClaimed(v)
  BY <1>0, <1>4, IdleShape DEF NotClaimed, WorkerLocals, UnclaimedState, Holding
<1>5. CASE LoadForExhaustion(v)
  BY <1>0, <1>5, IdleShape DEF LoadForExhaustion, WorkerLocals
<1>6. CASE Load(v) \/ Copy(v)
  BY <1>0, <1>6 DEF Load, Copy, WorkerLocals
<1>7. CASE Process(v) \/ ProcessRejects(v) \/ StepFails(v) \/ CompleteFails(v)
  BY <1>0, <1>7, BeginShape DEF Process, ProcessRejects, StepFails,
     CompleteFails, WorkerLocals
<1>8. CASE Clear(v)
  BY <1>0, <1>8 DEF Clear, Begin, WorkerLocals
<1>9. CASE CompleteLoad(v) \/ RecordRead(v) \/ RecordUpdate(v)
  BY <1>0, <1>9, BeginShape, IdleShape DEF CompleteLoad, RecordRead, RecordUpdate,
     RecordFailed, WorkerLocals
<1>10. CASE RecordCommit(v)
  BY <1>0, <1>10, IdleShape, BeginShape DEF RecordCommit, Delivery, Idle
<1>11. CASE Release(v) \/ Acknowledge(v) \/ Abandon(v)
  BY <1>0, <1>11, IdleShape DEF Release, Acknowledge, Abandon
<1>12. WorkerStep(v) \/ Abandon(v)
  BY StepsAreOwn
<1>13. QED
  BY <1>1, <1>2, <1>3, <1>4, <1>5, <1>6, <1>7, <1>8, <1>9, <1>10, <1>11, <1>12
  DEF WorkerStep, WorkerProgress

------------------------------------------------------------------------------
(* Acknowledged work is saved *)

\* A completion files the text under the claim it owns.
LEMMA CompletionSaves ==
  ASSUME Wellformed, NEW w \in Workers, RecordCommit(w)
  PROVE  IF worker[w].op = "complete" THEN pages' # NoPages
                                      ELSE pages' = pages
<1>1. CASE worker[w].op = "complete"
  <2>1. Holding(w) /\ worker[w].attempt > 0 /\ worker[w] \in WorkerLocals
    BY <1>1 DEF RecordCommit, Holding, Wellformed, TypeOK, AttemptFollowsClaim, Owning
  <2>2. [job |-> JobOf(w), attempt |-> worker[w].attempt]
            \in [job : Jobs, attempt : 1..MaxAttempts]
    BY <2>1, HeldJob, MaxAttemptsAssumption DEF WorkerLocals
  <2>3. QED
    BY <1>1, <2>2, NullAssumption DEF RecordCommit
<1>2. CASE worker[w].op # "complete"
  BY <1>2 DEF RecordCommit
<1>3. QED
  BY <1>1, <1>2

\* What is saved stays saved, short of a deletion.
LEMMA SavedStays ==
  ASSUME Wellformed, [Next]_vars, Saved
  PROVE  Saved'
<1>1. CASE UNCHANGED pages
  BY <1>1, DeletedByDeletion DEF Saved
<1>2. ASSUME NEW w \in Workers, RecordCommit(w) PROVE Saved'
  BY <1>2, CompletionSaves, DeletedByDeletion DEF Saved
<1>3. ASSUME NEW d \in Deletions, DeleteCommit(d) PROVE Saved'
  BY <1>3 DEF Saved, DeleteCommit, Tombstone, MarkDeleted
<1>4. QED
  BY <1>1, <1>2, <1>3, PageActions

\* A job is settled by a recording transaction that has its row lock.
LEMMA SettledByRecording ==
  ASSUME Wellformed, [Next]_vars, NEW j \in Jobs,
         job'[j].status \in SettledStatus, job'[j].status # job[j].status
  PROVE  \E w \in Workers : /\ RecordCommit(w) /\ JobOf(w) = j /\ HoldsRow(w)
                            /\ worker[w].op \in JobOp
                            /\ job'[j].status = Target[worker[w].op]
<1> DEFINE Goal == \E w \in Workers :
                       /\ RecordCommit(w) /\ JobOf(w) = j /\ HoldsRow(w)
                       /\ worker[w].op \in JobOp
                       /\ job'[j].status = Target[worker[w].op]
<1> SUFFICES Goal
  OBVIOUS
<1> USE DEF SettledStatus, JobStatus, ActiveStatus
<1>0. job \in [Jobs -> JobRow]
  BY DEF Wellformed, TypeOK
<1>1. ASSUME NEW i \in Jobs, ClaimGoesStale(i) PROVE FALSE
  BY <1>0, <1>1 DEF ClaimGoesStale, JobRow
<1>2. ASSUME NEW w \in Workers, ClaimCommit(w) PROVE FALSE
  BY <1>0, <1>2 DEF ClaimCommit, Claimed
<1>3. ASSUME NEW w \in Workers, RecordCommit(w) PROVE Goal
  <2>1. worker[w].op \in JobOp /\ worker[w].pc = "committing"
    BY <1>3 DEF Wellformed, OpIsNamed, RecordCommit
  <2>2. j = JobOf(w) /\ job'[j] = Updated(worker[w].op, worker[w].seenJob, job[j])
    BY <1>0, <1>3 DEF RecordCommit
  <2>3. /\ job'[j].status = Target[worker[w].op]
        /\ Updates(worker[w].op, worker[w].seenJob)
    BY <1>0, <2>2 DEF Updated, JobRow
  <2>4. HoldsRow(w)
    BY <2>1, <2>3 DEF HoldsRow
  <2>5. QED
    BY <1>3, <2>1, <2>2, <2>3, <2>4
<1>4. ASSUME NEW r \in Requests, DispatchSave(r) PROVE FALSE
  BY <1>0, <1>4 DEF DispatchSave, NewRow
<1>5. ASSUME NEW d \in Deletions, DeleteCommit(d) PROVE FALSE
  BY <1>5 DEF DeleteCommit, Tombstone, NoRow
<1>6. QED
  BY <1>1, <1>2, <1>3, <1>4, <1>5, JobRowActions

\* It is completed by a completion, and dead-lettered by an exhaustion.
LEMMA TargetsDiffer ==
  ASSUME NEW op \in JobOp
  PROVE  /\ Target[op] = "completed" => op = "complete"
         /\ Target[op] = "dead_lettered" => op = "exhaust"
  BY DEF Target, JobOp

\* A message leaves the queue for good by an acknowledgement only.
LEMMA DeletedByAcknowledge ==
  ASSUME Wellformed, [Next]_vars, NEW m \in Messages,
         message'[m].state = "deleted", message[m].state # "deleted"
  PROVE  \E w \in Workers : worker[w].pc = "acking"
<1>0. message \in [Messages -> MessageRow]
  BY DEF Wellformed, TypeOK
<1>1. ASSUME NEW n \in Messages, VisibilityExpires(n) \/ Redrive(n) PROVE FALSE
  BY <1>0, <1>1 DEF VisibilityExpires, Redrive, MessageRow
<1>2. ASSUME NEW w \in Workers, NEW n \in Messages, Receive(w, n) PROVE FALSE
  BY <1>0, <1>2 DEF Receive, MessageRow
<1>3. ASSUME NEW w \in Workers, Release(w) PROVE FALSE
  BY <1>0, <1>3 DEF Release, MessageRow
<1>4. ASSUME NEW r \in Requests, NEW n \in Messages, DispatchSend(r, n) PROVE FALSE
  BY <1>0, <1>4 DEF DispatchSend
<1>5. QED
  BY <1>1, <1>2, <1>3, <1>4, MessageActions DEF Acknowledge

\* Every step keeps SavedInv.
LEMMA SavedStep == Wellformed /\ SavedInv /\ [Next]_vars => SavedInv'
<1> SUFFICES ASSUME Wellformed, SavedInv, [Next]_vars PROVE SavedInv'
  OBVIOUS
<1>1. ASSUME NEW w \in Workers, RecordCommit(w), worker[w].op = "complete"
      PROVE  Saved'
  BY <1>1, CompletionSaves DEF Saved
<1>2. ASSUME NEW v \in Workers, worker'[v].pc = "acking" PROVE Saved'
  <2>1. CASE worker'[v] = worker[v]
    BY <1>2, <2>1, SavedStays DEF SavedInv
  <2>2. CASE Holding(v) /\ job[JobOf(v)].status = "completed"
    BY <2>2, HeldJob, SavedStays DEF SavedInv
  <2>3. QED
    BY <1>1, <1>2, <2>1, <2>2, AckingTaken
<1>3. ASSUME NEW j \in Jobs, job'[j].status = "completed" PROVE Saved'
  <2>1. CASE job[j].status = "completed"
    BY <2>1, SavedStays DEF SavedInv
  <2>2. CASE job[j].status # "completed"
    BY <1>1, <1>3, <2>2, SettledByRecording, TargetsDiffer
    DEF SettledStatus, JobStatus, ActiveStatus
  <2>3. QED
    BY <2>1, <2>2
<1>4. ASSUME NEW m \in Messages, message'[m].state = "deleted" PROVE Saved'
  BY <1>4, DeletedByAcknowledge, SavedStays DEF SavedInv, AcknowledgedWorkIsSaved, Saved
<1>5. QED
  BY <1>2, <1>3, <1>4 DEF SavedInv, AcknowledgedWorkIsSaved, Saved

\* A message is deleted from the queue only after the text and the result of
\* its document are on record: neither a lost answer to the commit nor a
\* delivery to another worker makes a worker acknowledge work not done.
THEOREM AcknowledgedIsSaved == Spec => []AcknowledgedWorkIsSaved
<1>1. Init => SavedInv
  BY DEF Init, SavedInv, AcknowledgedWorkIsSaved, Idle, NoRow
<1>2. SavedInv => AcknowledgedWorkIsSaved
  BY DEF SavedInv
<1>3. QED
  BY <1>1, <1>2, SavedStep, WellformedHolds, PTL DEF Spec

------------------------------------------------------------------------------
(* A dead letter is earned *)

\* A message that was sent counts its deliveries upwards.
LEMMA ReceivesGrow ==
  ASSUME Wellformed, [Next]_vars, NEW n \in Messages
  PROVE  /\ message[n].state # "unsent" => message'[n].receives >= message[n].receives
         /\ message'[n].state = "unsent" => message'[n] = message[n]
<1> DEFINE Grows(p, q) ==
      /\ p.state # "unsent" => q.receives >= p.receives
      /\ q.state = "unsent" => q = p
<1> SUFFICES Grows(message[n], message'[n])
  OBVIOUS
<1>0. /\ message \in [Messages -> MessageRow]
      /\ message[n].receives \in Nat
  BY RedriveAssumption DEF Wellformed, TypeOK, MessageRow
<1>1. CASE UNCHANGED message
  BY <1>0, <1>1
<1>2. ASSUME NEW m \in Messages, VisibilityExpires(m) \/ Redrive(m)
      PROVE  Grows(message[n], message'[n])
  BY <1>0, <1>2 DEF VisibilityExpires, Redrive, MessageRow
<1>3. ASSUME NEW w \in Workers, NEW m \in Messages, Receive(w, m)
      PROVE  Grows(message[n], message'[n])
  BY <1>0, <1>3 DEF Receive, MessageRow
<1>4. ASSUME NEW w \in Workers, Release(w)
      PROVE  Grows(message[n], message'[n])
  BY <1>0, <1>4 DEF Release, MessageRow
<1>5. ASSUME NEW w \in Workers, Acknowledge(w)
      PROVE  Grows(message[n], message'[n])
  <2>1. CASE UNCHANGED message
    BY <1>0, <2>1
  <2>2. CASE /\ message[worker[w].msg].state \in {"visible", "inflight"}
             /\ message' = [message EXCEPT ![worker[w].msg].state = "deleted"]
    BY <1>0, <2>2 DEF MessageRow
  <2>3. QED
    BY <1>5, <2>1, <2>2 DEF Acknowledge
<1>6. ASSUME NEW r \in Requests, NEW m \in Messages, DispatchSend(r, m)
      PROVE  Grows(message[n], message'[n])
  BY <1>0, <1>6 DEF DispatchSend
<1>7. QED
  BY <1>1, <1>2, <1>3, <1>4, <1>5, <1>6, MessageActions

\* A worker keeps the delivery it has, or takes a new one.
LEMMA DeliveryTaken ==
  ASSUME Wellformed, [Next]_vars, NEW v \in Workers, Holding(v)'
  PROVE  \/ Holding(v) /\ worker'[v].msg = worker[v].msg
                       /\ worker'[v].count = worker[v].count
         \/ \E m \in Messages : /\ Receive(v, m) /\ worker'[v].msg = m
                                /\ worker'[v].count = message[m].receives + 1
<1> DEFINE Goal ==
         \/ Holding(v) /\ worker'[v].msg = worker[v].msg
                       /\ worker'[v].count = worker[v].count
         \/ \E m \in Messages : /\ Receive(v, m) /\ worker'[v].msg = m
                                /\ worker'[v].count = message[m].receives + 1
<1> SUFFICES Goal
  OBVIOUS
<1> USE DEF Holding
<1>0. worker \in [Workers -> WorkerLocals] /\ TypeOK
  BY DEF Wellformed, TypeOK
<1>1. CASE worker'[v] = worker[v]
  BY <1>1
<1>2. ASSUME NEW m \in Messages, Receive(v, m) PROVE Goal
  <2>1. worker'[v].msg = m /\ worker'[v].count = message[m].receives + 1
    BY <1>0, <1>2 DEF Receive, WorkerLocals
  <2>2. QED
    BY <1>2, <2>1
<1>3. CASE ClaimUnknown(v) \/ ClaimRefused(v)
  BY <1>0, <1>3, IdleShape DEF ClaimUnknown, ClaimRefused, WorkerLocals
<1>4. CASE ClaimRow(v) \/ ClaimCommit(v)
  BY <1>0, <1>4 DEF ClaimRow, ClaimCommit, WorkerLocals
<1>5. CASE NotClaimed(v)
  BY <1>0, <1>5, IdleShape, UnclaimedStates DEF NotClaimed, WorkerLocals
<1>6. CASE LoadForExhaustion(v)
  BY <1>0, <1>6, IdleShape DEF LoadForExhaustion, WorkerLocals
<1>7. CASE Load(v) \/ Copy(v)
  BY <1>0, <1>7 DEF Load, Copy, WorkerLocals
<1>8. CASE Process(v) \/ ProcessRejects(v) \/ StepFails(v) \/ CompleteFails(v)
  BY <1>0, <1>8, BeginShape DEF Process, ProcessRejects, StepFails,
     CompleteFails, WorkerLocals
<1>9. CASE Clear(v)
  BY <1>0, <1>9 DEF Clear, Begin, WorkerLocals
<1>10. CASE CompleteLoad(v) \/ RecordRead(v) \/ RecordUpdate(v)
  BY <1>0, <1>10, BeginShape, IdleShape DEF CompleteLoad, RecordRead, RecordUpdate,
     RecordFailed, WorkerLocals
<1>11. CASE RecordCommit(v)
  <2>1. worker[v].pc = "committing"
    BY <1>0, <1>11, RecordCommitShape
  <2>2. CASE worker'[v] = Idle
    BY <2>2, IdleShape
  <2>3. ASSUME NEW pc, worker'[v] = Delivery(v, pc) PROVE Goal
    BY <2>1, <2>3 DEF Delivery, Idle
  <2>4. CASE worker' = Begin(v, RetryOp(v))
    BY <1>0, <2>1, <2>4, BeginShape
  <2>5. QED
    BY <1>0, <1>11, <2>2, <2>3, <2>4, RecordCommitShape
<1>12. CASE Release(v) \/ Acknowledge(v) \/ Abandon(v)
  BY <1>0, <1>12, IdleShape DEF Release, Acknowledge, Abandon
<1>13. worker'[v] = worker[v] \/ WorkerStep(v) \/ Abandon(v)
  BY StepsAreOwn
<1>14. CASE WorkerStep(v) \/ Abandon(v)
  BY <1>2, <1>3, <1>4, <1>5, <1>6, <1>7, <1>8, <1>9, <1>10, <1>11, <1>12, <1>14
  DEF WorkerStep, WorkerProgress
<1>15. QED
  BY <1>1, <1>13, <1>14

\* Every step keeps DeliveriesAreCounted.
LEMMA DeliveriesStep ==
  Wellformed /\ DeliveriesAreCounted /\ [Next]_vars => DeliveriesAreCounted'
<1> SUFFICES ASSUME Wellformed, DeliveriesAreCounted, [Next]_vars
             PROVE  DeliveriesAreCounted'
  OBVIOUS
<1>0. TypeOK /\ TypeOK'
  BY TypeStep DEF Wellformed
<1>1. ASSUME NEW m \in Messages, message'[m].state = "unsent"
      PROVE  message'[m].receives = 0
  BY <1>1, ReceivesGrow DEF DeliveriesAreCounted
<1>2. ASSUME NEW v \in Workers, Holding(v)'
      PROVE  worker'[v].count <= message'[worker'[v].msg].receives
  <2>1. CASE Holding(v) /\ worker'[v].msg = worker[v].msg
                        /\ worker'[v].count = worker[v].count
    <3>1. worker[v].msg \in Messages /\ message[worker[v].msg].state # "unsent"
      BY <2>1 DEF Wellformed, HeldMessageIsSent
    <3>2. /\ message[worker[v].msg].receives \in Nat
          /\ message'[worker[v].msg].receives \in Nat
          /\ worker[v].count \in Nat
      BY <1>0, <3>1 DEF TypeOK, MessageRow, WorkerLocals
    <3>3. QED
      BY <2>1, <3>1, <3>2, ReceivesGrow DEF DeliveriesAreCounted
  <2>2. ASSUME NEW m \in Messages, Receive(v, m), worker'[v].msg = m,
               worker'[v].count = message[m].receives + 1
        PROVE  worker'[v].count <= message'[worker'[v].msg].receives
    <3>1. message'[m].receives = message[m].receives + 1
      BY <1>0, <2>2 DEF Receive, TypeOK, MessageRow
    <3>2. message[m].receives \in Nat
      BY <1>0 DEF TypeOK, MessageRow
    <3>3. QED
      BY <2>2, <3>1, <3>2
  <2>3. QED
    BY <1>2, <2>1, <2>2, DeliveryTaken
<1>3. QED
  BY <1>1, <1>2 DEF DeliveriesAreCounted

\* A row that exists goes on existing, short of a deletion's commit.
LEMMA RowsStay ==
  ASSUME Wellformed, [Next]_vars, NEW j \in Jobs, Exists(job[j])
  PROVE  \/ Exists(job'[j])
         \/ \E d \in Deletions : DeleteCommit(d) /\ j \in deletion[d].sawJobs
<1>1. /\ Claimed(job[j]).status # "absent"
      /\ "absent" \notin JobStatus \ {"processing"}
  BY DEF Claimed, JobStatus
<1>2. CASE job'[j] = job[j]
  BY <1>2
<1>3. CASE job'[j] # job[j]
  BY <1>1, <1>3, JobRowMoves DEF Exists
<1>4. QED
  BY <1>2, <1>3

\* Every step keeps LockedRowStands.
LEMMA LockedRowStep ==
  Wellformed /\ LockedRowStands /\ [Next]_vars => LockedRowStands'
<1> SUFFICES ASSUME Wellformed, LockedRowStands, [Next]_vars,
                    NEW v \in Workers, HoldsRow(v)'
             PROVE  Exists(job'[JobOf(v)'])
  BY DEF LockedRowStands, Exists
<1>1. CASE worker'[v] = worker[v]
  <2>1. /\ HoldsRow(v) /\ Holding(v) /\ JobOf(v)' = JobOf(v) /\ JobOf(v) \in Jobs
        /\ Exists(job[JobOf(v)])
    BY <1>1, JobOfKept, HeldJob DEF HoldsRow, Holding, LockedRowStands
  <2>2. ASSUME NEW d \in Deletions, DeleteCommit(d)
        PROVE  JobOf(v) \notin deletion[d].sawJobs
    BY <2>1, <2>2 DEF DeleteCommit, Purges, Wellformed, LocksAreExclusive
  <2>3. QED
    BY <2>1, <2>2, RowsStay
<1>2. CASE WorkerStep(v) \/ Abandon(v)
  <2>1. worker'[v].pc \in {"claiming", "committing"}
    BY DEF HoldsRow
  <2>2. JobOf(v)' = JobOf(v)
    BY <1>2, <2>1, LockTaken, JobOfKept
  <2>3. CASE ClaimRow(v)
    BY <2>2, <2>3 DEF ClaimRow, database, Claimable, Exists
  <2>4. CASE /\ RecordUpdate(v) /\ worker'[v].pc = "committing"
             /\ worker'[v].op = worker[v].op
             /\ worker'[v].seenJob = worker[v].seenJob
    <3>1. Updates(worker[v].op, worker[v].seenJob)
      BY <2>4 DEF HoldsRow
    <3>2. /\ UNCHANGED <<document, job>>
          /\ worker \in [Workers -> WorkerLocals]
      BY <2>4 DEF RecordUpdate, database, Wellformed, TypeOK
    <3>3. worker' # RecordFailed(v)
      BY <2>4, <3>2, BeginShape, IdleShape DEF RecordFailed
    <3>4. QED
      BY <2>2, <2>4, <3>1, <3>2, <3>3 DEF RecordUpdate
  <2>5. QED
    BY <1>2, <2>1, <2>3, <2>4, LockTaken
<1>3. QED
  BY <1>1, <1>2, StepsAreOwn

\* _schedule_retry gives up for one of two reasons.
LEMMA GivingUp ==
  ASSUME worker \in [Workers -> WorkerLocals], NEW w \in Workers,
         RetryOp(w) = "exhaust"
  PROVE  worker[w].attempt = MaxAttempts \/ worker[w].count = RedriveMax
<1>1. worker[w].attempt \in 0..MaxAttempts /\ worker[w].count \in 0..RedriveMax
  BY DEF WorkerLocals
<1>2. worker[w].attempt >= MaxAttempts \/ worker[w].count >= RedriveMax
  BY DEF RetryOp, ExhaustedDelivery
<1>3. QED
  BY <1>1, <1>2, MaxAttemptsAssumption, RedriveAssumption

\* A worker comes to declare a job dead because the row says its attempts are
\* used up, or because its own attempt or delivery was the last.
LEMMA ExhaustingTaken ==
  ASSUME Wellformed, [Next]_vars, NEW v \in Workers, Exhausting(v)'
  PROVE  /\ Holding(v) /\ worker'[v].msg = worker[v].msg
         /\ \/ Exhausting(v)
            \/ job[JobOf(v)].attempts = MaxAttempts
            \/ worker[v].attempt = MaxAttempts
            \/ worker[v].count = RedriveMax
<1> DEFINE Goal ==
         /\ Holding(v) /\ worker'[v].msg = worker[v].msg
         /\ \/ Exhausting(v)
            \/ job[JobOf(v)].attempts = MaxAttempts
            \/ worker[v].attempt = MaxAttempts
            \/ worker[v].count = RedriveMax
<1> SUFFICES Goal
  OBVIOUS
<1> USE DEF Exhausting, Holding
<1>0. worker \in [Workers -> WorkerLocals] /\ TypeOK
  BY DEF Wellformed, TypeOK
<1>1. CASE worker'[v] = worker[v]
  BY <1>1
<1>2. ASSUME NEW m \in Messages, Receive(v, m) PROVE Goal
  BY <1>0, <1>2 DEF Receive, WorkerLocals
<1>3. CASE ClaimUnknown(v) \/ ClaimRefused(v)
  BY <1>0, <1>3, IdleShape DEF ClaimUnknown, ClaimRefused, WorkerLocals
<1>4. CASE ClaimRow(v) \/ ClaimCommit(v)
  BY <1>0, <1>4 DEF ClaimRow, ClaimCommit, WorkerLocals
<1>5. CASE NotClaimed(v)
  <2>1. job[JobOf(v)] \in JobRow
    BY <1>5, HeldJob DEF NotClaimed
  <2>2. UnclaimedState(job[JobOf(v)]) = "exhausted"
        /\ job[JobOf(v)].status # "dead_lettered"
        => job[JobOf(v)].attempts = MaxAttempts
    BY <2>1, MaxAttemptsAssumption DEF UnclaimedState, JobRow
  <2>3. QED
    BY <1>0, <1>5, <2>2, IdleShape, UnclaimedStates DEF NotClaimed, WorkerLocals
<1>6. CASE LoadForExhaustion(v)
  BY <1>0, <1>6, IdleShape DEF LoadForExhaustion, WorkerLocals
<1>7. CASE Load(v) \/ Copy(v)
  BY <1>0, <1>7 DEF Load, Copy, WorkerLocals
<1>8. CASE StepFails(v) \/ CompleteFails(v)
  BY <1>0, <1>8, BeginShape, GivingUp DEF StepFails, CompleteFails
<1>9. CASE Process(v) \/ ProcessRejects(v)
  BY <1>0, <1>9, BeginShape DEF Process, ProcessRejects, WorkerLocals
<1>10. CASE Clear(v)
  BY <1>0, <1>10 DEF Clear, Begin, WorkerLocals
<1>11. CASE CompleteLoad(v) \/ RecordRead(v) \/ RecordUpdate(v)
  <2>1. CASE worker' = RecordFailed(v)
    <3>1. CASE worker[v].op = "complete"
      BY <1>0, <1>11, <2>1, <3>1, BeginShape, GivingUp
      DEF RecordFailed, CompleteLoad, RecordRead, RecordUpdate
    <3>2. CASE worker[v].op # "complete"
      BY <1>0, <2>1, <3>2, IdleShape DEF RecordFailed
    <3>3. QED
      BY <3>1, <3>2
  <2>2. CASE worker' # RecordFailed(v)
    BY <1>0, <1>11, <2>2 DEF CompleteLoad, RecordRead, RecordUpdate, WorkerLocals
  <2>3. QED
    BY <2>1, <2>2
<1>12. CASE RecordCommit(v)
  <2>1. worker[v].pc = "committing"
    BY <1>0, <1>12, RecordCommitShape
  <2>2. CASE worker'[v] = Idle
    BY <2>2, IdleShape
  <2>3. CASE worker' = Begin(v, RetryOp(v))
    BY <1>0, <2>1, <2>3, BeginShape, GivingUp
  <2>4. CASE worker'[v].pc \in {"acking", "releasing"}
    BY <2>4
  <2>5. \/ worker'[v] = Idle \/ worker' = Begin(v, RetryOp(v))
        \/ worker'[v].pc \in {"acking", "releasing"}
    <3>1. \A pc : Delivery(v, pc).pc = pc
      BY DEF Delivery, Idle
    <3>2. QED
      BY <1>0, <1>12, <3>1, RecordCommitShape
  <2>6. QED
    BY <2>2, <2>3, <2>4, <2>5
<1>13. CASE Release(v) \/ Acknowledge(v) \/ Abandon(v)
  BY <1>0, <1>13, IdleShape DEF Release, Acknowledge, Abandon
<1>14. worker'[v] = worker[v] \/ WorkerStep(v) \/ Abandon(v)
  BY StepsAreOwn
<1>15. CASE WorkerStep(v) \/ Abandon(v)
  BY <1>2, <1>3, <1>4, <1>5, <1>6, <1>7, <1>8, <1>9, <1>10, <1>11, <1>12,
     <1>13, <1>15 DEF WorkerStep, WorkerProgress
<1>16. QED
  BY <1>1, <1>14, <1>15

\* What has earned a job its dead letter goes on doing so until a deletion
\* removes the row.
LEMMA EarnedStays ==
  ASSUME Wellformed, AbsentIsBlank, DeliveriesAreCounted, [Next]_vars,
         NEW j \in Jobs, Earned(j)
  PROVE  Earned(j)' \/ (document'.deleted /\ job'[j] = NoRow)
<1>0. /\ TypeOK /\ TypeOK' /\ job[j] \in JobRow
      /\ MaxAttempts # 0 /\ RedriveMax # 0
  BY TypeStep, MaxAttemptsAssumption, RedriveAssumption DEF Wellformed, TypeOK
<1>1. ASSUME NEW m \in Messages, message[m].job = j,
             message[m].receives = RedriveMax
      PROVE  Earned(j)'
  <2>1. message[m].state # "unsent"
    BY <1>0, <1>1 DEF DeliveriesAreCounted
  <2>2. /\ message'[m].job = j
        /\ message'[m].receives >= RedriveMax
        /\ message'[m].receives \in 0..RedriveMax
    BY <1>0, <1>1, <2>1, SentKept, ReceivesGrow DEF TypeOK, MessageRow
  <2>3. message'[m].receives = RedriveMax
    BY <2>2, RedriveAssumption
  <2>4. QED
    BY <2>2, <2>3 DEF Earned
<1>2. CASE job[j].attempts = MaxAttempts
  <2>1. Exists(job[j]) /\ ~Claimable(job[j])
    BY <1>0, <1>2, MaxAttemptsAssumption DEF AbsentIsBlank, Claimable
  <2>2. job'[j].attempts = MaxAttempts
        \/ (job'[j] = NoRow /\ \E d \in Deletions : DeleteCommit(d))
    <3>1. CASE job'[j] = job[j]
      BY <1>2, <3>1
    <3>2. CASE job'[j] # job[j]
      BY <1>2, <2>1, <3>2, JobRowMoves
    <3>3. QED
      BY <3>1, <3>2
  <2>3. ASSUME NEW d \in Deletions, DeleteCommit(d) PROVE document'.deleted
    BY <2>3 DEF DeleteCommit, Tombstone, MarkDeleted
  <2>4. QED
    BY <2>2, <2>3 DEF Earned
<1>3. \/ job[j].attempts = MaxAttempts
      \/ \E m \in Messages : message[m].job = j /\ message[m].receives = RedriveMax
  BY DEF Earned
<1>4. QED
  BY <1>1, <1>2, <1>3

\* A row that is locked, or whose document is there, keeps what it has earned.
LEMMA EarnedAndLocked ==
  ASSUME Wellformed, AbsentIsBlank, DeliveriesAreCounted, LockedRowStands,
         [Next]_vars, NEW v \in Workers, Earned(JobOf(v)),
         JobOf(v)' = JobOf(v), JobOf(v) \in Jobs,
         ~document'.deleted \/ HoldsRow(v)'
  PROVE  Earned(JobOf(v))'
<1>1. HoldsRow(v)' => job'[JobOf(v)] # NoRow
  BY LockedRowStep DEF LockedRowStands, Exists, NoRow
<1>2. ASSUME NEW j \in Jobs, j = JobOf(v) PROVE Earned(j)'
  BY <1>1, <1>2, EarnedStays
<1>3. QED
  BY <1>2 DEF Earned

\* Every step keeps ExhaustionIsEarned.
LEMMA ExhaustionStep ==
  Wellformed /\ AbsentIsBlank /\ AttemptsAreCounted /\ DeliveriesAreCounted
      /\ LockedRowStands /\ ExhaustionIsEarned /\ [Next]_vars
      => ExhaustionIsEarned'
<1> SUFFICES ASSUME Wellformed, AbsentIsBlank, AttemptsAreCounted,
                    DeliveriesAreCounted, LockedRowStands, ExhaustionIsEarned,
                    [Next]_vars, NEW v \in Workers, Exhausting(v)',
                    ~document'.deleted \/ HoldsRow(v)'
             PROVE  Earned(JobOf(v))'
  BY DEF ExhaustionIsEarned
<1>1. /\ Holding(v) /\ JobOf(v)' = JobOf(v) /\ JobOf(v) \in Jobs
      /\ worker[v].msg \in Messages
      /\ message[worker[v].msg] \in MessageRow
      /\ worker[v] \in WorkerLocals /\ job[JobOf(v)] \in JobRow
  BY ExhaustingTaken, JobOfKept, HeldJob DEF Wellformed, TypeOK
<1>2. CASE ~document.deleted
  <2>1. Earned(JobOf(v))
    <3>1. CASE Exhausting(v)
      BY <1>2, <3>1 DEF ExhaustionIsEarned
    <3>2. CASE job[JobOf(v)].attempts = MaxAttempts
      BY <3>2 DEF Earned
    <3>3. CASE worker[v].attempt = MaxAttempts
      <4>1. MaxAttempts <= job[JobOf(v)].attempts
        BY <1>2, <3>3, MaxAttemptsAssumption DEF AttemptsAreCounted
      <4>2. job[JobOf(v)].attempts = MaxAttempts
        BY <1>1, <4>1, MaxAttemptsAssumption DEF JobRow
      <4>3. QED
        BY <4>2 DEF Earned
    <3>4. CASE worker[v].count = RedriveMax
      <4>1. RedriveMax <= message[worker[v].msg].receives
        BY <1>1, <3>4 DEF DeliveriesAreCounted
      <4>2. message[worker[v].msg].receives = RedriveMax
        BY <1>1, <4>1, RedriveAssumption DEF MessageRow
      <4>3. QED
        BY <1>1, <4>2 DEF Earned, JobOf
    <3>5. QED
      BY <3>1, <3>2, <3>3, <3>4, ExhaustingTaken
  <2>2. QED
    BY <1>1, <2>1, EarnedAndLocked
<1>3. CASE document.deleted
  <2>1. HoldsRow(v)'
    BY <1>3, DeletedByDeletion
  <2>2. CASE HoldsRow(v) /\ worker'[v] = worker[v]
    <3>1. Exhausting(v)
      BY <2>2 DEF Exhausting
    <3>2. Earned(JobOf(v))
      BY <2>2, <3>1 DEF ExhaustionIsEarned
    <3>3. QED
      BY <1>1, <3>2, EarnedAndLocked
  <2>3. CASE WorkerStep(v) \/ Abandon(v)
    <3>1. worker'[v].pc = "committing"
      BY <2>1 DEF HoldsRow, Exhausting
    <3>2. RecordUpdate(v)
      <4>1. \/ RecordUpdate(v)
            \/ ClaimRow(v)
        BY <2>3, <3>1, LockTaken
      <4>2. CASE ClaimRow(v)
        BY <1>3, <4>2 DEF ClaimRow
      <4>3. QED
        BY <4>1, <4>2
    <3>3. worker' = RecordFailed(v)
      BY <1>3, <3>2 DEF RecordUpdate
    <3>4. worker'[v].pc \in {"begin", "idle"}
      BY <3>3, BeginShape, IdleShape DEF RecordFailed, Wellformed, TypeOK
    <3>5. QED
      BY <3>1, <3>4
  <2>4. QED
    BY <2>1, <2>2, <2>3, RowTaken
<1>4. QED
  BY <1>2, <1>3

\* Every step keeps DeadLetterIsEarned.
LEMMA DeadLetterStep ==
  Wellformed /\ AbsentIsBlank /\ DeadLetterInv /\ [Next]_vars => DeadLetterIsEarned'
<1> SUFFICES ASSUME Wellformed, AbsentIsBlank, DeadLetterInv, [Next]_vars,
                    NEW j \in Jobs, job'[j].status = "dead_lettered"
             PROVE  Earned(j)'
  BY DEF DeadLetterIsEarned, Earned
<1>1. CASE job[j].status = "dead_lettered"
  <2>1. Earned(j)
    BY <1>1 DEF DeadLetterInv, DeadLetterIsEarned, Earned
  <2>2. QED
    BY <2>1, EarnedStays DEF DeadLetterInv, NoRow
<1>2. CASE job[j].status # "dead_lettered"
  <2>1. PICK w \in Workers : /\ RecordCommit(w) /\ JobOf(w) = j /\ HoldsRow(w)
                             /\ worker[w].op = "exhaust"
    BY <1>2, SettledByRecording, TargetsDiffer
    DEF SettledStatus, JobStatus, ActiveStatus
  <2>2. Exhausting(w)
    BY <2>1 DEF RecordCommit, Exhausting
  <2>3. Earned(j)
    BY <2>1, <2>2 DEF DeadLetterInv, ExhaustionIsEarned
  <2>4. QED
    BY <2>3, EarnedStays DEF DeadLetterInv, NoRow
<1>3. QED
  BY <1>1, <1>2

\* The invariant about row locks holds in every reachable state: the row that
\* a claim or a recording has updated is not deleted under it, not even when
\* its document is deleted before it commits.
THEOREM LockedRowsStand == Spec => []LockedRowStands
<1>1. Init => LockedRowStands
  BY DEF Init, LockedRowStands, HoldsRow, Idle
<1>2. QED
  BY <1>1, LockedRowStep, WellformedHolds, PTL DEF Spec

\* A job is dead-lettered only with its attempts used up or with a message of
\* it received for the last time, whoever recorded it, however late, and
\* however often claims and deliveries changed hands before.
THEOREM DeadLettersAreEarned == Spec => []DeadLetterIsEarned
<1>1. Init => DeadLetterInv
  BY DEF Init, DeadLetterInv, DeliveriesAreCounted, LockedRowStands,
     ExhaustionIsEarned, DeadLetterIsEarned, Exhausting, Holding, HoldsRow,
     Idle, NoRow
<1>2. ClaimInv /\ DeadLetterInv /\ [Next]_vars => DeadLetterInv'
  BY DeliveriesStep, LockedRowStep, ExhaustionStep, DeadLetterStep
  DEF ClaimInv, DeadLetterInv
<1>3. DeadLetterInv => DeadLetterIsEarned
  BY DEF DeadLetterInv
<1>4. QED
  BY <1>1, <1>2, <1>3, ClaimInvHolds, PTL DEF Spec

------------------------------------------------------------------------------
(* The document follows its job *)

\* A worker comes to a recording transaction with the document or the job as it
\* reads it, and to its commit with the document as it loads it.
LEMMA RecordingTaken ==
  ASSUME Wellformed, [Next]_vars, NEW v \in Workers,
         worker'[v].pc = "paging" \/ Recording(v)', worker'[v] # worker[v]
  PROVE  /\ Holding(v) /\ worker'[v].msg = worker[v].msg
         /\ worker'[v].op = worker[v].op
         /\ UNCHANGED <<job, document>>
         /\ \/ /\ CompleteLoad(v) /\ worker[v].op = "complete"
               /\ worker'[v].pc = "paging"
               /\ worker'[v].seenDoc = document
            \/ /\ RecordRead(v) /\ MayRecord(v)
               /\ worker'[v].pc = "updating"
               /\ worker'[v].seenJob = job[JobOf(v)].status
               /\ worker'[v].seenJob # "absent"
               /\ ~Conflicts(worker[v].op, worker'[v].seenJob)
               /\ worker[v].op = "complete" => worker[v].pc = "paging"
               /\ worker'[v].seenDoc = worker[v].seenDoc
            \/ /\ RecordUpdate(v) /\ worker[v].pc = "updating"
               /\ worker'[v].pc = "committing"
               /\ worker'[v].seenJob = worker[v].seenJob
               /\ worker'[v].seenDoc = IF worker[v].op = "complete"
                                       THEN worker[v].seenDoc ELSE document
<1> DEFINE Goal ==
         /\ Holding(v) /\ worker'[v].msg = worker[v].msg
         /\ worker'[v].op = worker[v].op
         /\ UNCHANGED <<job, document>>
         /\ \/ /\ CompleteLoad(v) /\ worker[v].op = "complete"
               /\ worker'[v].pc = "paging"
               /\ worker'[v].seenDoc = document
            \/ /\ RecordRead(v) /\ MayRecord(v)
               /\ worker'[v].pc = "updating"
               /\ worker'[v].seenJob = job[JobOf(v)].status
               /\ worker'[v].seenJob # "absent"
               /\ ~Conflicts(worker[v].op, worker'[v].seenJob)
               /\ worker[v].op = "complete" => worker[v].pc = "paging"
               /\ worker'[v].seenDoc = worker[v].seenDoc
            \/ /\ RecordUpdate(v) /\ worker[v].pc = "updating"
               /\ worker'[v].pc = "committing"
               /\ worker'[v].seenJob = worker[v].seenJob
               /\ worker'[v].seenDoc = IF worker[v].op = "complete"
                                       THEN worker[v].seenDoc ELSE document
<1> SUFFICES Goal
  OBVIOUS
<1> USE DEF Recording
<1>0. worker \in [Workers -> WorkerLocals] /\ TypeOK
  BY DEF Wellformed, TypeOK
<1>1. ASSUME NEW m \in Messages, Receive(v, m) PROVE Goal
  BY <1>0, <1>1 DEF Receive, WorkerLocals
<1>2. CASE ClaimUnknown(v) \/ ClaimRefused(v)
  BY <1>0, <1>2, IdleShape DEF ClaimUnknown, ClaimRefused, WorkerLocals
<1>3. CASE ClaimRow(v) \/ ClaimCommit(v)
  BY <1>0, <1>3 DEF ClaimRow, ClaimCommit, WorkerLocals
<1>4. CASE NotClaimed(v)
  BY <1>0, <1>4, IdleShape, UnclaimedStates DEF NotClaimed, WorkerLocals
<1>5. CASE LoadForExhaustion(v)
  BY <1>0, <1>5, IdleShape DEF LoadForExhaustion, WorkerLocals
<1>6. CASE Load(v) \/ Copy(v)
  BY <1>0, <1>6 DEF Load, Copy, WorkerLocals
<1>7. CASE Process(v) \/ ProcessRejects(v) \/ StepFails(v) \/ CompleteFails(v)
  BY <1>0, <1>7, BeginShape DEF Process, ProcessRejects, StepFails,
     CompleteFails, WorkerLocals
<1>8. CASE Clear(v)
  BY <1>0, <1>8 DEF Clear, Begin, WorkerLocals
<1>9. ASSUME worker' = RecordFailed(v) PROVE FALSE
  BY <1>0, <1>9, BeginShape, IdleShape DEF RecordFailed
<1>16. CASE CompleteLoad(v)
  BY <1>0, <1>9, <1>16 DEF CompleteLoad, WorkerLocals, Holding, database
<1>10. CASE RecordRead(v)
  BY <1>0, <1>9, <1>10 DEF RecordRead, WorkerLocals, Holding, database, MayRecord
<1>11. CASE RecordUpdate(v)
  BY <1>0, <1>9, <1>11 DEF RecordUpdate, WorkerLocals, Holding, database
<1>12. CASE RecordCommit(v)
  BY <1>0, <1>12, RecordCommitFields, IdleShape
<1>13. CASE Release(v) \/ Acknowledge(v) \/ Abandon(v)
  BY <1>0, <1>13, IdleShape DEF Release, Acknowledge, Abandon
<1>14. WorkerStep(v) \/ Abandon(v)
  BY StepsAreOwn
<1>15. QED
  BY <1>1, <1>2, <1>3, <1>4, <1>5, <1>6, <1>7, <1>8, <1>10, <1>11, <1>12,
     <1>13, <1>14, <1>16 DEF WorkerStep, WorkerProgress

\* A worker comes to where it may record by a claim, or because it finds an
\* active job whose attempts are used up; a commit ends it, unless its answer
\* is lost.
LEMMA MayRecordTaken ==
  ASSUME Wellformed, [Next]_vars, NEW v \in Workers, MayRecord(v)'
  PROVE  /\ Holding(v) /\ worker'[v].msg = worker[v].msg
         /\ RecordCommit(v) => worker[v].op = "complete"
         /\ \/ MayRecord(v)
            \/ ClaimCommit(v)
            \/ NotClaimed(v) /\ job[JobOf(v)].status \in ActiveStatus
<1> DEFINE Goal ==
         /\ Holding(v) /\ worker'[v].msg = worker[v].msg
         /\ \/ MayRecord(v)
            \/ ClaimCommit(v)
            \/ NotClaimed(v) /\ job[JobOf(v)].status \in ActiveStatus
<1> USE DEF MayRecord, Holding
<1>0. worker \in [Workers -> WorkerLocals] /\ TypeOK
  BY DEF Wellformed, TypeOK
<1> SUFFICES Goal
  BY <1>0, RecordCommitFields, IdleShape
<1>1. CASE worker'[v] = worker[v]
  BY <1>1
<1>2. ASSUME NEW m \in Messages, Receive(v, m) PROVE Goal
  BY <1>0, <1>2 DEF Receive, WorkerLocals
<1>3. CASE ClaimUnknown(v) \/ ClaimRefused(v)
  BY <1>0, <1>3, IdleShape DEF ClaimUnknown, ClaimRefused, WorkerLocals
<1>4. CASE ClaimRow(v) \/ ClaimCommit(v)
  BY <1>0, <1>4 DEF ClaimRow, ClaimCommit, WorkerLocals
<1>5. CASE NotClaimed(v)
  <2>1. job[JobOf(v)] \in JobRow
    BY <1>5, HeldJob DEF NotClaimed
  <2>2. /\ Exists(job[JobOf(v)])
        /\ UnclaimedState(job[JobOf(v)]) = "exhausted"
        /\ job[JobOf(v)].status # "dead_lettered"
        => job[JobOf(v)].status \in ActiveStatus
    BY <2>1 DEF UnclaimedState, JobRow, Exists, JobStatus, ActiveStatus
  <2>3. QED
    BY <1>0, <1>5, <2>2, IdleShape, UnclaimedStates DEF NotClaimed, WorkerLocals
<1>6. CASE LoadForExhaustion(v)
  BY <1>0, <1>6, IdleShape DEF LoadForExhaustion, WorkerLocals
<1>7. CASE Load(v) \/ Copy(v)
  BY <1>0, <1>7 DEF Load, Copy, WorkerLocals
<1>8. CASE Process(v) \/ ProcessRejects(v) \/ StepFails(v) \/ CompleteFails(v)
  BY <1>0, <1>8, BeginShape DEF Process, ProcessRejects, StepFails,
     CompleteFails, WorkerLocals
<1>9. CASE Clear(v)
  BY <1>0, <1>9 DEF Clear, Begin, WorkerLocals
<1>10. CASE CompleteLoad(v) \/ RecordRead(v) \/ RecordUpdate(v)
  BY <1>0, <1>10, BeginShape, IdleShape DEF CompleteLoad, RecordRead, RecordUpdate,
     RecordFailed, WorkerLocals
<1>11. CASE RecordCommit(v)
  <2>1. worker[v].pc = "committing"
    BY <1>0, <1>11, RecordCommitShape
  <2>2. worker'[v].msg = worker[v].msg /\ worker[v].op = "complete"
    BY <1>0, <1>11, RecordCommitFields, IdleShape
  <2>3. QED
    BY <2>1, <2>2
<1>12. CASE Release(v) \/ Acknowledge(v) \/ Abandon(v)
  BY <1>0, <1>12, IdleShape DEF Release, Acknowledge, Abandon
<1>13. worker'[v] = worker[v] \/ WorkerStep(v) \/ Abandon(v)
  BY StepsAreOwn
<1>14. CASE WorkerStep(v) \/ Abandon(v)
  BY <1>2, <1>3, <1>4, <1>5, <1>6, <1>7, <1>8, <1>9, <1>10, <1>11, <1>12, <1>14
  DEF WorkerStep, WorkerProgress
<1>15. QED
  BY <1>1, <1>13, <1>14

\* The worker that commits is not left where its reading of the rows counts.
LEMMA CommitterLetsGo ==
  ASSUME Wellformed, NEW w \in Workers, RecordCommit(w) \/ ClaimCommit(w)
  PROVE  worker'[w].pc \notin {"claiming", "paging", "updating", "committing"}
<1>0. worker \in [Workers -> WorkerLocals] /\ TypeOK
  BY DEF Wellformed, TypeOK
<1>1. CASE ClaimCommit(w)
  BY <1>0, <1>1 DEF ClaimCommit, WorkerLocals
<1>2. CASE RecordCommit(w)
  BY <1>0, <1>2, RecordCommitFields, IdleShape
<1>3. QED
  BY <1>1, <1>2

\* What a recording transaction makes of the status of a document that is
\* still as the transaction remembers it.
LEMMA RecordedStatus ==
  ASSUME Wellformed, SeenIsCurrent, ~document.deleted,
         NEW w \in Workers, RecordCommit(w)
  PROVE  /\ document'.status =
              IF \/ worker[w].op = "complete" \/ document.status = "completed"
              THEN "completed"
              ELSE IF worker[w].op = "retry" THEN "queued" ELSE "failed"
         /\ \A j \in Jobs : job'[j].status =
              IF /\ j = JobOf(w)
                 /\ Updates(worker[w].op, worker[w].seenJob)
                 /\ Target[worker[w].op] # worker[w].seenJob
              THEN Target[worker[w].op] ELSE job[j].status
<1> DEFINE seen == worker[w].seenDoc
           image == Recorded(w)
<1>0. /\ worker[w].pc = "committing" /\ worker[w].op \in JobOp
      /\ seen \in DocumentRow /\ job \in [Jobs -> JobRow]
  BY DEF Wellformed, TypeOK, OpIsNamed, RecordCommit, WorkerLocals
<1>1. document'.status = IF image.status = seen.status
                         THEN document.status ELSE image.status
  BY DEF RecordCommit, Flush
<1>2. CASE worker[w].op = "complete"
  <2>1. image.status = "completed"
    BY <1>0, <1>2 DEF Recorded, Marked, DocumentRow
  <2>2. seen.status = "completed" => document.status = "completed"
    BY <1>0, <1>2 DEF SeenIsCurrent, Recording
  <2>3. QED
    BY <1>0, <1>1, <1>2, <2>1, <2>2 DEF RecordCommit, Updated, JobRow
<1>3. CASE worker[w].op # "complete"
  <2>1. document.status = seen.status
    BY <1>0, <1>3 DEF SeenIsCurrent
  <2>2. image.status = IF seen.status = "completed" THEN "completed"
                       ELSE IF worker[w].op = "retry" THEN "queued" ELSE "failed"
    BY <1>0, <1>3 DEF Recorded, Marked, DocumentRow
  <2>3. QED
    BY <1>0, <1>1, <1>3, <2>1, <2>2 DEF RecordCommit, Updated, JobRow
<1>4. QED
  BY <1>2, <1>3

\* What a claim makes of it.
LEMMA ClaimedStatus ==
  ASSUME Wellformed, SeenIsCurrent, ~document.deleted,
         NEW w \in Workers, ClaimCommit(w)
  PROVE  /\ document.status \in {"queued", "processing"}
         /\ document'.status = "processing"
<1>1. worker[w].pc = "claiming" /\ worker[w].seenDoc \in DocumentRow
  BY DEF Wellformed, TypeOK, WorkerLocals, ClaimCommit
<1>2. /\ document.status = worker[w].seenDoc.status
      /\ document.status \in {"queued", "processing"}
  BY <1>1 DEF SeenIsCurrent, ReadyForProcessing
<1>3. QED
  BY <1>1, <1>2 DEF ClaimCommit, Flush, MarkProcessing, DocumentRow

\* How the statuses of the two rows change while the document is there: a
\* claim, a recording, or the insertion of a job for a quarantined document.
LEMMA StatusMoves ==
  ASSUME Wellformed, FollowInv, [Next]_vars, ~document'.deleted
  PROVE  /\ ~document.deleted
         /\ \/ /\ document'.status = document.status
               /\ \A j \in Jobs : job'[j].status = job[j].status
            \/ \E w \in Workers : ClaimCommit(w) \/ RecordCommit(w)
            \/ /\ document.status = "quarantined"
               /\ document'.status = "queued"
               /\ \E j \in Jobs : ~Exists(job[j])
                                  /\ job' = [job EXCEPT ![j] = NewRow]
<1> DEFINE Goal ==
         \/ /\ document'.status = document.status
            /\ \A j \in Jobs : job'[j].status = job[j].status
         \/ \E w \in Workers : ClaimCommit(w) \/ RecordCommit(w)
         \/ /\ document.status = "quarantined"
            /\ document'.status = "queued"
            /\ \E j \in Jobs : ~Exists(job[j])
                               /\ job' = [job EXCEPT ![j] = NewRow]
<1> SUFFICES Goal
  BY DeletedByDeletion
<1>0. /\ ~document.deleted /\ document \in DocumentRow
      /\ job \in [Jobs -> JobRow]
  BY DeletedByDeletion DEF Wellformed, TypeOK
<1>1. ASSUME NEW i \in Jobs, ClaimGoesStale(i) PROVE Goal
  BY <1>0, <1>1 DEF ClaimGoesStale, JobRow
<1>2. ASSUME NEW r \in Requests, DispatchSave(r) PROVE Goal
  <2>1. request[r].job \in Jobs
    BY <1>2 DEF DispatchSave, Wellformed, SentMessageHasJob
  <2>2. CASE Exists(job[request[r].job])
    BY <1>2, <2>2 DEF DispatchSave
  <2>3. CASE ~Exists(job[request[r].job])
    <3>1. document.status = "quarantined"
      BY <1>0, <2>1, <2>3 DEF FollowInv, DocumentFollowsJob, Counterpart, Exists
    <3>2. QED
      BY <1>0, <1>2, <2>1, <2>3, <3>1 DEF DispatchSave, DocumentRow
  <2>4. QED
    BY <2>2, <2>3
<1>3. ASSUME NEW d \in Deletions, DeleteCommit(d) PROVE FALSE
  BY <1>3 DEF DeleteCommit, Tombstone, MarkDeleted
<1>4. QED
  BY <1>1, <1>2, <1>3, JobRowActions

\* A status that is final stays as it is.
LEMMA FinalStays ==
  ASSUME Wellformed, FollowInv, [Next]_vars, StatusIsFinal
  PROVE  StatusIsFinal'
<1> SUFFICES ASSUME ~document'.deleted
             PROVE  document'.status = "completed"
  BY DEF StatusIsFinal
<1>0. ~document.deleted /\ document.status = "completed" /\ SeenIsCurrent
  BY StatusMoves DEF StatusIsFinal, FollowInv
<1>1. ASSUME NEW w \in Workers, ClaimCommit(w) PROVE FALSE
  BY <1>0, <1>1, ClaimedStatus
<1>2. ASSUME NEW w \in Workers, RecordCommit(w)
      PROVE  document'.status = "completed"
  BY <1>0, <1>2, RecordedStatus
<1>3. QED
  BY <1>0, <1>1, <1>2, StatusMoves

\* A recording transaction that does not write the job row has read it as
\* settled.
LEMMA NotUpdating ==
  ASSUME Wellformed, SeenIsCurrent, NEW w \in Workers,
         worker[w].pc = "committing", ~HoldsRow(w)
  PROVE  ReadSettled(w)
<1>1. /\ worker[w].op \in JobOp /\ worker[w].seenJob \in JobStatus
      /\ ~Conflicts(worker[w].op, worker[w].seenJob)
      /\ ~Updates(worker[w].op, worker[w].seenJob)
  BY DEF Wellformed, TypeOK, WorkerLocals, OpIsNamed, SeenIsCurrent, Recording,
     HoldsRow
<1>2. QED
  BY <1>1 DEF ReadSettled, Recording, JobOp, JobStatus, SettledStatus,
     ActiveStatus, Conflicts, Updates

\* With one key, every worker at work has the same job in hand.
LEMMA SameJob ==
  ASSUME Wellformed, OneKey, NEW w \in Workers, Holding(w), NEW j \in Jobs
  PROVE  JobOf(w) = j
  BY HeldJob DEF OneKey

\* A recording of a job that was settled already leaves the document alone.
LEMMA SettledWrite ==
  ASSUME Wellformed, FollowInv, NEW w \in Workers, RecordCommit(w),
         ReadSettled(w), ~StatusIsFinal
  PROVE  document'.status = document.status
<1>1. /\ worker[w].seenJob # "completed"
      /\ job[JobOf(w)].status \in SettledStatus
      /\ JobOf(w) \in Jobs
      /\ SeenIsCurrent /\ ~document.deleted
  BY HeldJob DEF FollowInv, SettledReadStands, RecordCommit, Holding, StatusIsFinal
<1>2. worker[w].op \notin {"complete", "retry"}
  BY <1>1 DEF SeenIsCurrent, ReadSettled, Conflicts, SettledStatus, ActiveStatus,
     JobStatus
<1>3. document.status = "failed"
  BY <1>1 DEF FollowInv, DocumentFollowsJob, StatusIsFinal, Counterpart,
     SettledStatus, ActiveStatus, JobStatus
<1>4. QED
  BY <1>1, <1>2, <1>3, RecordedStatus

\* Every step keeps DocumentFollowsJob.
LEMMA FollowsStep ==
  Wellformed /\ OneKey /\ FollowInv /\ [Next]_vars => DocumentFollowsJob'
<1> SUFFICES ASSUME Wellformed, OneKey, FollowInv, [Next]_vars,
                    NEW j \in Jobs, ~document'.deleted
             PROVE  \/ document'.status = Counterpart[job'[j].status]
                    \/ document'.status = "completed" /\ Exists(job'[j])
  BY DEF DocumentFollowsJob, Counterpart, Exists
<1> DEFINE Goal == \/ document'.status = Counterpart[job'[j].status]
                   \/ document'.status = "completed" /\ Exists(job'[j])
<1>0. /\ ~document.deleted /\ job \in [Jobs -> JobRow]
      /\ \/ document.status = Counterpart[job[j].status]
         \/ document.status = "completed" /\ Exists(job[j])
  BY StatusMoves DEF FollowInv, DocumentFollowsJob, Wellformed, TypeOK
<1>1. CASE /\ document'.status = document.status
           /\ \A i \in Jobs : job'[i].status = job[i].status
  BY <1>0, <1>1 DEF Exists
<1>2. ASSUME NEW w \in Workers, ClaimCommit(w) PROVE Goal
  <2>1. JobOf(w) = j
    BY <1>2, SameJob DEF ClaimCommit, Holding
  <2>2. document'.status = "processing"
    BY <1>0, <1>2, ClaimedStatus DEF FollowInv
  <2>3. job'[j].status = "processing"
    BY <1>0, <1>2, <2>1 DEF ClaimCommit, Claimed
  <2>4. QED
    BY <2>2, <2>3 DEF Counterpart
<1>3. ASSUME NEW w \in Workers, RecordCommit(w) PROVE Goal
  <2> DEFINE op == worker[w].op
             read == worker[w].seenJob
  <2>1. JobOf(w) = j
    BY <1>3, SameJob DEF RecordCommit, Holding
  <2>2. /\ worker[w].pc = "committing" /\ op \in JobOp
        /\ read \in JobStatus /\ ~Conflicts(op, read)
    BY <1>3 DEF Wellformed, TypeOK, WorkerLocals, OpIsNamed, RecordCommit,
       FollowInv, SeenIsCurrent, Recording
  <2>3. /\ document'.status =
              IF op = "complete" \/ document.status = "completed" THEN "completed"
              ELSE IF op = "retry" THEN "queued" ELSE "failed"
        /\ job'[j].status = IF Updates(op, read) /\ Target[op] # read
                            THEN Target[op] ELSE job[j].status
    BY <1>0, <1>3, <2>1, RecordedStatus DEF FollowInv
  <2>4. Exists(job[j]) => Exists(job'[j])
    BY RowsStay DEF DeleteCommit, Tombstone, MarkDeleted
  <2>5. CASE op = "complete"
    <3>1. CASE Updates(op, read)
      BY <2>1, <2>2, <2>3, <2>4, <2>5, <3>1
      DEF FollowInv, LockedRowStands, HoldsRow
    <3>2. CASE ~Updates(op, read)
      <4>1. read = "completed"
        BY <2>2, <2>5, <3>2 DEF Conflicts, Updates
      <4>2. document.status = "completed"
        BY <1>0, <2>2, <4>1 DEF FollowInv, SettledReadStands, ReadSettled,
           Recording, StatusIsFinal, SettledStatus, ActiveStatus, JobStatus
      <4>3. Exists(job[j])
        BY <1>0, <4>2 DEF Counterpart, Exists
      <4>4. QED
        BY <2>3, <2>4, <2>5, <4>3
    <3>3. QED
      BY <3>1, <3>2
  <2>6. CASE document.status = "completed"
    <3>1. Exists(job[j])
      BY <1>0, <2>6 DEF Counterpart, Exists
    <3>2. QED
      BY <2>3, <2>4, <2>6, <3>1
  <2>7. CASE op = "retry" /\ document.status # "completed"
    BY <2>2, <2>3, <2>7 DEF Conflicts, Updates, Target, Counterpart
  <2>8. CASE op \in {"exhaust", "fail"} /\ document.status # "completed"
    <3>1. CASE Updates(op, read) /\ Target[op] # read
      BY <2>3, <2>8, <3>1 DEF Target, Counterpart
    <3>2. CASE ~(Updates(op, read) /\ Target[op] # read)
      <4>1. ReadSettled(w)
        BY <2>2, <2>8, <3>2 DEF ReadSettled, Recording, Updates, Target,
           SettledStatus, ActiveStatus, JobStatus
      <4>2. ~StatusIsFinal
        BY <1>0, <2>8 DEF StatusIsFinal
      <4>3. job[j].status \in SettledStatus
        BY <2>1, <4>1, <4>2 DEF FollowInv, SettledReadStands
      <4>4. document.status = Counterpart[job[j].status]
        BY <1>0, <2>8
      <4>5. QED
        BY <1>3, <2>3, <3>2, <4>1, <4>2, <4>4, SettledWrite
    <3>3. QED
      BY <3>1, <3>2
  <2>9. QED
    BY <2>2, <2>5, <2>6, <2>7, <2>8 DEF JobOp
<1>4. ASSUME document'.status = "queued", NEW i \in Jobs,
             job' = [job EXCEPT ![i] = NewRow]
      PROVE  Goal
  BY <1>0, <1>4 DEF OneKey, NewRow, Counterpart
<1>5. QED
  BY <1>1, <1>2, <1>3, <1>4, StatusMoves

\* Every step keeps RecorderIsAlone.  Of two workers one has settled the job:
\* not the one that still holds on to the job as it was before, so the other,
\* and what lets a worker go on after its commit is a lost completion.  This
\* is where a third worker would break the proof.
LEMMA AloneStep ==
  Wellformed /\ OneKey /\ TwoWorkers /\ FollowInv /\ [Next]_vars
      => RecorderIsAlone'
<1> SUFFICES ASSUME Wellformed, OneKey, TwoWorkers, FollowInv, [Next]_vars,
                    NEW v \in Workers, NEW w \in Workers, v # w,
                    MayRecord(v)', ReadActive(w)',
                    job'[JobOf(w)'].status \in SettledStatus,
                    ~StatusIsFinal'
             PROVE  FALSE
  BY DEF RecorderIsAlone
<1>0. ~StatusIsFinal /\ SeenIsCurrent /\ ~document'.deleted /\ Recording(w)'
  BY FinalStays DEF FollowInv, StatusIsFinal, ReadActive
<1>1. Holding(w) /\ worker'[w].msg = worker[w].msg
  BY <1>0, RecordingTaken DEF Recording, Holding
<1>2. JobOf(w)' = JobOf(w) /\ JobOf(w) \in Jobs /\ JobOf(v) = JobOf(w)
  BY <1>1, JobOfKept, HeldJob, MayRecordTaken, SameJob
<1>3. ASSUME ReadActive(w), job[JobOf(w)].status \in SettledStatus PROVE FALSE
  <2>1. CASE MayRecord(v)
    BY <1>0, <1>3, <2>1 DEF FollowInv, RecorderIsAlone
  <2>2. CASE ClaimCommit(v)
    BY <1>2, <1>3, <2>2
    DEF ClaimCommit, Wellformed, ClaimStands, Claimable, SettledStatus, ActiveStatus
  <2>3. CASE job[JobOf(v)].status \in ActiveStatus
    BY <1>2, <1>3, <2>3 DEF SettledStatus
  <2>4. QED
    BY <2>1, <2>2, <2>3, MayRecordTaken
<1>4. CASE worker'[w] = worker[w]
  <2>1. ReadActive(w)
    BY <1>4 DEF ReadActive, Recording
  <2>2. CASE job'[JobOf(w)].status = job[JobOf(w)].status
    BY <1>2, <1>3, <2>1, <2>2
  <2>3. CASE job'[JobOf(w)].status # job[JobOf(w)].status
    <3>1. PICK u \in Workers : RecordCommit(u)
                               /\ job'[JobOf(w)].status = Target[worker[u].op]
      BY <1>2, <2>3, SettledByRecording
    <3>2. u # w
      BY <1>0, <3>1, CommitterLetsGo DEF Recording
    <3>3. u = v
      BY <3>2 DEF TwoWorkers
    <3>4. document'.status = "completed"
      BY <1>0, <3>1, <3>3, MayRecordTaken, RecordedStatus DEF StatusIsFinal
    <3>5. QED
      BY <3>4 DEF StatusIsFinal
  <2>4. QED
    BY <2>2, <2>3
<1>5. CASE worker'[w] # worker[w]
  <2>1. /\ job' = job
        /\ \/ worker'[w].seenJob = job[JobOf(w)].status
           \/ worker[w].pc = "updating" /\ worker'[w].seenJob = worker[w].seenJob
    BY <1>0, <1>5, RecordingTaken DEF Recording
  <2>2. CASE worker'[w].seenJob = job[JobOf(w)].status
    BY <1>2, <2>1, <2>2 DEF ReadActive, SettledStatus
  <2>3. CASE worker[w].pc = "updating" /\ worker'[w].seenJob = worker[w].seenJob
    BY <1>2, <1>3, <2>1, <2>3 DEF ReadActive, Recording
  <2>4. QED
    BY <2>1, <2>2, <2>3
<1>6. QED
  BY <1>4, <1>5

\* Every step keeps SettledReadStands: only a retry takes a job out of its
\* settled state, and it would have to have read the job before.
LEMMA SettledReadStep ==
  Wellformed /\ OneKey /\ FollowInv /\ [Next]_vars => SettledReadStands'
<1> SUFFICES ASSUME Wellformed, OneKey, FollowInv, [Next]_vars,
                    NEW w \in Workers, ReadSettled(w)', ~StatusIsFinal'
             PROVE  /\ worker'[w].seenJob # "completed"
                    /\ job'[JobOf(w)'].status \in SettledStatus
                    /\ \A v \in Workers \ {w} : ~ReadActive(v)'
  BY DEF SettledReadStands
<1>0. /\ ~StatusIsFinal /\ SeenIsCurrent
      /\ ~document.deleted /\ ~document'.deleted /\ Recording(w)'
      /\ job \in [Jobs -> JobRow]
  BY FinalStays DEF FollowInv, StatusIsFinal, ReadSettled, Wellformed, TypeOK
<1>1. Holding(w) /\ worker'[w].msg = worker[w].msg
  BY <1>0, RecordingTaken DEF Recording, Holding
<1>2. JobOf(w)' = JobOf(w) /\ JobOf(w) \in Jobs
  BY <1>1, JobOfKept, HeldJob
<1> DEFINE Settled == /\ worker'[w].seenJob # "completed"
                      /\ job[JobOf(w)].status \in SettledStatus
                      /\ \A v \in Workers \ {w} : ~ReadActive(v)
<1>3. Settled
  <2>1. CASE ReadSettled(w) /\ worker'[w].seenJob = worker[w].seenJob
    BY <1>0, <2>1 DEF FollowInv, SettledReadStands
  <2>2. CASE /\ MayRecord(w)
             /\ worker'[w].seenJob = job[JobOf(w)].status
    <3>1. job[JobOf(w)].status \in SettledStatus
      BY <2>2 DEF ReadSettled
    <3>2. job[JobOf(w)].status # "completed"
      BY <1>0, <1>2 DEF FollowInv, DocumentFollowsJob, StatusIsFinal, Counterpart
    <3>3. ASSUME NEW v \in Workers, v # w, ReadActive(v) PROVE FALSE
      <4>1. JobOf(v) = JobOf(w)
        BY <1>2, <3>3, SameJob DEF ReadActive, Recording, Holding
      <4>2. QED
        BY <1>0, <2>2, <3>1, <3>3, <4>1 DEF FollowInv, RecorderIsAlone, MayRecord
    <3>4. QED
      BY <2>2, <3>1, <3>2, <3>3
  <2>3. CASE worker'[w] = worker[w]
    BY <2>1, <2>3 DEF ReadSettled, Recording
  <2>4. CASE worker'[w] # worker[w]
    <3>1. \/ MayRecord(w) /\ worker'[w].seenJob = job[JobOf(w)].status
          \/ worker[w].pc = "updating" /\ worker'[w].seenJob = worker[w].seenJob
      BY <1>0, <2>4, RecordingTaken DEF Recording
    <3>2. QED
      BY <2>1, <2>2, <3>1 DEF ReadSettled, Recording
  <2>5. QED
    BY <2>3, <2>4
<1>4. ASSUME NEW v \in Workers, v # w, ReadActive(v)' PROVE FALSE
  <2>1. CASE worker'[v] = worker[v]
    BY <1>3, <1>4, <2>1 DEF ReadActive, Recording
  <2>2. CASE worker'[v] # worker[v]
    <3>1. /\ Holding(v)
          /\ \/ worker'[v].seenJob = job[JobOf(v)].status
             \/ worker[v].pc = "updating" /\ worker'[v].seenJob = worker[v].seenJob
      BY <1>4, <2>2, RecordingTaken DEF ReadActive, Recording
    <3>2. JobOf(v) = JobOf(w)
      BY <1>2, <3>1, SameJob
    <3>3. QED
      BY <1>3, <1>4, <3>1, <3>2 DEF ReadActive, Recording, SettledStatus
  <2>3. QED
    BY <2>1, <2>2
<1>5. job'[JobOf(w)].status \in SettledStatus
  <2>1. ASSUME NEW u \in Workers, ClaimCommit(u) PROVE FALSE
    <3>1. JobOf(u) = JobOf(w)
      BY <1>2, <2>1, SameJob DEF ClaimCommit, Holding
    <3>2. QED
      BY <1>3, <2>1, <3>1
      DEF ClaimCommit, Wellformed, ClaimStands, Claimable, SettledStatus, ActiveStatus
  <2>2. ASSUME NEW u \in Workers, RecordCommit(u)
        PROVE  job'[JobOf(w)].status \in SettledStatus
    <3>1. u # w
      BY <1>0, <2>2, CommitterLetsGo DEF Recording
    <3>2. /\ Recording(u) /\ worker[u].op \in JobOp
          /\ ~Conflicts(worker[u].op, worker[u].seenJob)
      BY <1>0, <2>2 DEF RecordCommit, Recording, SeenIsCurrent, Wellformed, OpIsNamed
    <3>3. worker[u].op # "retry"
      BY <1>3, <3>1, <3>2 DEF ReadActive, Conflicts, ActiveStatus
    <3>4. Target[worker[u].op] \in SettledStatus
      BY <3>2, <3>3 DEF Target, JobOp, SettledStatus, ActiveStatus, JobStatus
    <3>5. QED
      BY <1>0, <1>2, <1>3, <2>2, <3>4, RecordedStatus
  <2>3. ASSUME NEW i \in Jobs, ~Exists(job[i]) PROVE FALSE
    BY <1>2, <1>3, <2>3 DEF OneKey, Exists, SettledStatus, JobStatus
  <2>4. QED
    BY <1>0, <1>2, <1>3, <2>1, <2>2, <2>3, StatusMoves
<1>6. QED
  BY <1>2, <1>3, <1>4, <1>5

\* Nobody changes the status of a document under a transaction that counts
\* on it.
LEMMA StatusHeld ==
  ASSUME Wellformed, OneKey, FollowInv, [Next]_vars, ~document'.deleted,
         NEW w \in Workers, worker'[w] = worker[w],
         \/ worker[w].pc = "claiming"
         \/ worker[w].pc = "committing" /\ worker[w].op # "complete"
         \/ /\ worker[w].pc = "paging" \/ Recording(w)
            /\ document.status = "completed"
  PROVE  document'.status = document.status
<1>0. /\ SeenIsCurrent /\ ~document.deleted /\ Holding(w)
      /\ worker[w].pc \in {"claiming", "paging", "updating", "committing"}
      /\ JobOf(w) \in Jobs
  BY StatusMoves, HeldJob DEF FollowInv, Recording, Holding
<1>1. CASE document.status = "completed"
  BY <1>0, <1>1, FinalStays DEF StatusIsFinal
<1>2. CASE document.status # "completed"
  <2>0. ~StatusIsFinal
    BY <1>0, <1>2 DEF StatusIsFinal
  <2>1. HoldsRow(w) \/ ReadSettled(w)
    BY <1>0, <1>2, NotUpdating DEF HoldsRow
  <2>2. HoldsRow(w) => Exists(job[JobOf(w)])
    BY DEF FollowInv, LockedRowStands
  <2>3. ReadSettled(w) => /\ job[JobOf(w)].status \in SettledStatus
                          /\ \A v \in Workers \ {w} : ~ReadActive(v)
    BY <2>0 DEF FollowInv, SettledReadStands
  <2>4. ASSUME NEW u \in Workers, ClaimCommit(u) PROVE FALSE
    <3>1. /\ u # w /\ JobOf(u) = JobOf(w) /\ HoldsRow(u)
          /\ Claimable(job[JobOf(u)])
      BY <1>0, <2>4, SameJob, CommitterLetsGo
      DEF ClaimCommit, Holding, HoldsRow, Wellformed, ClaimStands
    <3>2. ~HoldsRow(w)
      BY <3>1 DEF Wellformed, LocksAreExclusive
    <3>3. QED
      BY <2>1, <2>3, <3>1, <3>2 DEF Claimable, SettledStatus, ActiveStatus
  <2>5. ASSUME NEW u \in Workers, RecordCommit(u)
        PROVE  document'.status = document.status
    <3>1. /\ u # w /\ JobOf(u) = JobOf(w) /\ worker[u].pc = "committing"
      BY <1>0, <2>5, SameJob, CommitterLetsGo DEF RecordCommit, Holding
    <3>2. ReadSettled(u)
      <4>1. CASE HoldsRow(w)
        BY <1>0, <3>1, <4>1, NotUpdating DEF Wellformed, LocksAreExclusive
      <4>2. CASE ReadSettled(w)
        BY <1>0, <2>3, <3>1, <4>2
        DEF ReadActive, ReadSettled, Recording, SettledStatus, Wellformed,
            TypeOK, WorkerLocals, SeenIsCurrent
      <4>3. QED
        BY <2>1, <4>1, <4>2
    <3>3. QED
      BY <2>0, <2>5, <3>2, SettledWrite
  <2>6. ASSUME NEW i \in Jobs, ~Exists(job[i]) PROVE FALSE
    BY <1>0, <2>1, <2>2, <2>3, <2>6 DEF OneKey, Exists, SettledStatus, JobStatus
  <2>7. QED
    BY <2>4, <2>5, <2>6, StatusMoves
<1>3. QED
  BY <1>1, <1>2

\* Every step keeps SeenIsCurrent.
LEMMA CurrentStep ==
  Wellformed /\ OneKey /\ FollowInv /\ [Next]_vars => SeenIsCurrent'
<1> SUFFICES ASSUME Wellformed, OneKey, FollowInv, [Next]_vars,
                    NEW w \in Workers
             PROVE  /\ worker'[w].pc = "claiming" =>
                           ReadyForProcessing(worker'[w].seenDoc)
                    /\ \/ worker'[w].pc = "claiming"
                       \/ worker'[w].pc = "committing" /\ worker'[w].op # "complete"
                       \/ /\ worker'[w].pc = "paging" \/ Recording(w)'
                          /\ worker'[w].op = "complete"
                          /\ worker'[w].seenDoc.status = "completed"
                       => document'.deleted
                          \/ document'.status = worker'[w].seenDoc.status
                    /\ Recording(w)' =>
                           /\ worker'[w].seenJob # "absent"
                           /\ ~Conflicts(worker'[w].op, worker'[w].seenJob)
  BY DEF SeenIsCurrent, ReadyForProcessing, Conflicts
<1>0. /\ SeenIsCurrent /\ (document.deleted => document'.deleted)
      /\ worker \in [Workers -> WorkerLocals]
  BY DeletedByDeletion DEF FollowInv, Wellformed, TypeOK
<1>1. CASE worker'[w] = worker[w]
  <2>1. \/ worker[w].pc = "claiming"
        \/ worker[w].pc = "committing" /\ worker[w].op # "complete"
        \/ /\ worker[w].pc = "paging" \/ Recording(w)
           /\ worker[w].op = "complete"
           /\ worker[w].seenDoc.status = "completed"
        => document'.deleted \/ document'.status = worker[w].seenDoc.status
    BY <1>0, <1>1, StatusHeld DEF SeenIsCurrent
  <2>2. QED
    BY <1>0, <1>1, <2>1 DEF SeenIsCurrent, Recording
<1>2. CASE worker'[w] # worker[w] /\ worker'[w].pc = "claiming"
  <2>1. ClaimRow(w)
    BY <1>2, StepsAreOwn, LockTaken
  <2>2. /\ worker'[w].seenDoc = document /\ document' = document
        /\ ReadyForProcessing(document)
    BY <1>0, <2>1 DEF ClaimRow, database
  <2>3. QED
    BY <1>2, <2>2 DEF Recording
<1>3. CASE worker'[w] # worker[w] /\ (worker'[w].pc = "paging" \/ Recording(w)')
  <2>1. /\ worker'[w].op = worker[w].op /\ document' = document
        /\ worker'[w].pc # "claiming"
    BY <1>3, RecordingTaken DEF Recording
  <2>2. CASE worker'[w].pc = "paging" /\ worker'[w].seenDoc = document
    BY <2>1, <2>2 DEF Recording
  <2>3. CASE /\ worker'[w].pc = "updating"
             /\ worker'[w].seenJob # "absent"
             /\ ~Conflicts(worker[w].op, worker'[w].seenJob)
             /\ worker[w].op = "complete" => worker[w].pc = "paging"
             /\ worker'[w].seenDoc = worker[w].seenDoc
    BY <1>0, <2>1, <2>3 DEF SeenIsCurrent
  <2>4. CASE /\ worker[w].pc = "updating" /\ worker'[w].pc = "committing"
             /\ worker'[w].seenJob = worker[w].seenJob
             /\ worker'[w].seenDoc = IF worker[w].op = "complete"
                                     THEN worker[w].seenDoc ELSE document
    BY <1>0, <2>1, <2>4 DEF SeenIsCurrent, Recording
  <2>5. QED
    BY <1>3, <2>2, <2>3, <2>4, RecordingTaken
<1>4. QED
  BY <1>1, <1>2, <1>3 DEF Recording

\* The documents row tells the story of the processing_jobs row in every
\* reachable state of one document with one key and two workers, however their
\* claims, late recordings, lost commit answers and deletions interleave.
THEOREM DocumentAgrees ==
  ASSUME OneKey, TwoWorkers
  PROVE  Spec => []DocumentFollowsJob
<1>1. Init => FollowInv
  BY DEF Init, FollowInv, LockedRowStands, RecorderIsAlone, SettledReadStands,
     SeenIsCurrent, DocumentFollowsJob, HoldsRow, MayRecord, Recording,
     ReadActive, ReadSettled, Idle, NoRow, UploadedDocument, Counterpart
<1>2. Wellformed /\ FollowInv /\ [Next]_vars => FollowInv'
  BY LockedRowStep, AloneStep, SettledReadStep, CurrentStep, FollowsStep
  DEF FollowInv
<1>3. FollowInv => DocumentFollowsJob
  BY DEF FollowInv
<1>4. QED
  BY <1>1, <1>2, <1>3, WellformedHolds, PTL DEF Spec

================================================================================
