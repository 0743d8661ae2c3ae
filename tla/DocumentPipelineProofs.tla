------------------------ MODULE DocumentPipelineProofs ------------------------
(***************************************************************************)
(* The inductive invariant under every theorem about DocumentPipeline, and *)
(* its type correctness.                                                   *)
(*                                                                         *)
(* TypeOK alone is not inductive: that a claim keeps the attempts within   *)
(* MaxAttempts depends on the row being claimable still when the claim     *)
(* commits, so on the row locks, so on what a worker between its UPDATE    *)
(* and its commit holds.  Wellformed says all that.                        *)
(***************************************************************************)
EXTENDS DocumentPipeline, TLAPS

------------------------------------------------------------------------------
(* The invariant *)

Holding(w) == worker[w].pc # "idle"

\* A worker that is not idle has a message, and it was sent.
HeldMessageIsSent ==
    \A w \in Workers : Holding(w) =>
        /\ worker[w].msg \in Messages
        /\ message[worker[w].msg].state # "unsent"

\* Messages that were sent, and calls about to save or send, name a job.
SentMessageHasJob ==
    /\ \A m \in Messages : message[m].state # "unsent" => message[m].job \in Jobs
    /\ \A r \in Requests :
           request[r].pc \in {"saving", "sending"} => request[r].job \in Jobs

\* In a recording transaction a worker knows which.
OpIsNamed ==
    \A w \in Workers :
        /\ worker[w].pc \in {"begin", "paging", "updating", "committing"} =>
               worker[w].op \in JobOp
        /\ worker[w].pc = "paging" => worker[w].op = "complete"

Claiming(w) == worker[w].pc \in {"idle", "received", "claiming"}
Owning(w) ==
    \/ worker[w].pc \in {"loading", "reading", "copying", "clearing"}
    \/ /\ worker[w].pc \in {"begin", "paging", "updating", "committing"}
       /\ worker[w].op = "complete"

\* The attempt number comes with the claim.
AttemptFollowsClaim ==
    \A w \in Workers : /\ Claiming(w) => worker[w].attempt = 0
                       /\ Owning(w) => worker[w].attempt > 0

\* No session holds on to a document it found deleted.
SeenIsAlive == \A w \in Workers : ~worker[w].seenDoc.deleted

\* A row is locked by one transaction at most.
LocksAreExclusive ==
    \A w \in Workers : HoldsRow(w) =>
        /\ \A v \in Workers : HoldsRow(v) /\ JobOf(v) = JobOf(w) => v = w
        /\ \A d \in Deletions : ~Purges(d, JobOf(w))

\* What the conditional UPDATE found of the job is still so when the claim
\* commits.  Of the document it need not be: a deletion that did not find the
\* job may have come in between.
ClaimStands ==
    \A w \in Workers : worker[w].pc = "claiming" => Claimable(job[JobOf(w)])

Wellformed ==
    /\ TypeOK
    /\ HeldMessageIsSent /\ SentMessageHasJob
    /\ OpIsNamed /\ AttemptFollowsClaim
    /\ SeenIsAlive /\ LocksAreExclusive /\ ClaimStands

------------------------------------------------------------------------------
(* Deadlocks *)

\* A step that the detection of deadlocks has no part in.
PlainStep ==
    \/ \E m \in Messages : VisibilityExpires(m) \/ Redrive(m)
    \/ \E j \in Jobs : ClaimGoesStale(j)
    \/ \E w \in Workers : WorkerStep(w) \/ Abandon(w)
    \/ \E r \in Requests : RequestStep(r)
    \/ \E d \in Deletions : DeletionStep(d)
    \/ UNCHANGED vars

\* A statement that PostgreSQL makes fail is an error that its transaction can
\* run into anyway: it adds no step, only the certainty that one is taken.
LEMMA PlainSteps == [Next]_vars => PlainStep
<1> SUFFICES ASSUME NEW w \in Workers, BreakDeadlock(w) PROVE PlainStep
  BY DEF Next, PlainStep
<1>1. ASSUME NEW v \in Workers, worker[v].pc \in {"updating", "committing"},
             worker' = RecordFailed(v),
             UNCHANGED <<database, storage, message, callers>>
      PROVE  CompleteFails(v) \/ Abandon(v)
  BY <1>1 DEF RecordFailed, CompleteFails, Abandon
<1>2. ASSUME NEW v \in Workers, v = w \/ DeadlockedWith(w, v), AwaitsJob(w)
      PROVE  worker[v].pc \in {"updating", "committing"}
  BY <1>2 DEF DeadlockedWith, AwaitsJob, AwaitsDocument
<1>3. QED
  BY <1>1, <1>2 DEF BreakDeadlock, PlainStep, WorkerStep, DeletionStep,
     DeadlockedWith, DeadlockedByDeletion

------------------------------------------------------------------------------
(* The operators keep to their types *)

\* A deletion that is not under way has seen no rows.
LEMMA NotDeletingTyped ==
  ASSUME NEW pc \in {"start", "done"}
  PROVE  NotDeleting(pc) \in DeletionLocals
  BY DEF NotDeleting, DeletionLocals, PageRows

\* A document as uploaded is a documents row.
LEMMA UploadedTyped == UploadedDocument \in DocumentRow
  BY DEF UploadedDocument, DocumentRow, DocumentStatus, StorageKey

\* A worker between two messages has well-typed locals.
LEMMA IdleTyped == Idle \in WorkerLocals
  BY UploadedTyped, MaxAttemptsAssumption, RedriveAssumption DEF Idle,
     WorkerLocals, WorkerPc, StorageKey

\* _schedule_retry opens one of two transactions.
LEMMA RetryOpTyped ==
  ASSUME NEW w
  PROVE  RetryOp(w) \in {"retry", "exhaust"} /\ RetryOp(w) \in JobOp
  BY DEF RetryOp, JobOp

\* Opening a transaction keeps the locals well typed.
LEMMA BeginTyped ==
  ASSUME worker \in [Workers -> WorkerLocals], NEW w \in Workers, NEW op \in JobOp
  PROVE Begin(w, op) \in [Workers -> WorkerLocals]
 <1>1. worker[w] \in WorkerLocals OBVIOUS
 <1>2. [worker[w] EXCEPT !.pc = "begin", !.op = op, !.seenJob = "absent",
                         !.seenDoc = UploadedDocument] \in WorkerLocals
   BY <1>1, UploadedTyped DEF WorkerLocals, WorkerPc
 <1> QED BY <1>2 DEF Begin

\* So does giving one up.
LEMMA RecordFailedTyped ==
  ASSUME worker \in [Workers -> WorkerLocals], NEW w \in Workers
  PROVE RecordFailed(w) \in [Workers -> WorkerLocals]
  BY BeginTyped, RetryOpTyped, IdleTyped DEF RecordFailed

\* And so does forgetting all but the delivery.
LEMMA DeliveryTyped ==
  ASSUME worker \in [Workers -> WorkerLocals], NEW w \in Workers, NEW pc \in WorkerPc
  PROVE Delivery(w, pc) \in WorkerLocals
  BY IdleTyped DEF Delivery, WorkerLocals

\* A flush of well-typed rows is a well-typed row.
LEMMA FlushTyped == ASSUME NEW row \in DocumentRow, NEW read \in DocumentRow, NEW image \in DocumentRow
   PROVE Flush(row, read, image) \in DocumentRow
  BY DEF Flush, DocumentRow

\* The mark_ methods of the document repository return documents rows.
LEMMA MarkedTyped == ASSUME NEW doc \in DocumentRow, NEW op, NEW key \in StorageKey
   PROVE Marked(op, doc, key) \in DocumentRow
  BY DEF Marked, DocumentRow, DocumentStatus

\* mark_processing returns a documents row.
LEMMA MarkProcessingTyped ==
  ASSUME NEW doc \in DocumentRow
  PROVE  MarkProcessing(doc) \in DocumentRow
  BY DEF MarkProcessing, DocumentRow, DocumentStatus

\* A claim of a claimable row stays within the attempts allowed.
LEMMA ClaimedTyped ==
  ASSUME NEW row \in JobRow, Claimable(row)
  PROVE  Claimed(row) \in JobRow
  BY MaxAttemptsAssumption DEF Claimed, Claimable, JobRow, JobStatus

\* The four recording methods return processing_jobs rows.
LEMMA UpdatedTyped ==
  ASSUME NEW row \in JobRow, NEW op \in JobOp, NEW read
  PROVE  Updated(op, read, row) \in JobRow
<1>1. Target[op] \in JobStatus BY DEF Target, JobOp, JobStatus
<1> QED BY <1>1 DEF Updated, JobRow

------------------------------------------------------------------------------
(* Types *)

\* The initial state is well typed.
LEMMA TypeInit == Init => TypeOK
<1> USE MaxAttemptsAssumption, RedriveAssumption
<1> SUFFICES ASSUME Init PROVE TypeOK OBVIOUS
<1>1. document \in DocumentRow BY UploadedTyped DEF Init
<1>2. job \in [Jobs -> JobRow] BY DEF Init, JobRow, NoRow
<1>3. worker \in [Workers -> WorkerLocals] BY IdleTyped DEF Init
<1>4. message \in [Messages -> MessageRow] BY DEF Init, MessageRow
<1>5. request \in [Requests -> RequestLocals] BY DEF Init, RequestLocals
<1>6. deletion \in [Deletions -> DeletionLocals] BY NotDeletingTyped DEF Init
<1> QED BY <1>1, <1>2, <1>3, <1>4, <1>5, <1>6 DEF Init, TypeOK, PageRows

\* A worker with a message in hand has a job to look up.
LEMMA HeldJob ==
  ASSUME Wellformed, NEW w \in Workers, Holding(w)
  PROVE  /\ worker[w].msg \in Messages
         /\ message[worker[w].msg] \in MessageRow
         /\ message[worker[w].msg].state # "unsent"
         /\ JobOf(w) \in Jobs
         /\ job[JobOf(w)] \in JobRow
  BY DEF Wellformed, TypeOK, HeldMessageIsSent, SentMessageHasJob, Holding,
     JobOf

\* Every step of the pipeline keeps the types.
LEMMA TypeStep == Wellformed /\ [Next]_vars => TypeOK'
<1> SUFFICES ASSUME Wellformed, [Next]_vars PROVE TypeOK'
  OBVIOUS
<1> USE DEF database, storage, callers
<1> USE MaxAttemptsAssumption, RedriveAssumption
<1>0. TypeOK BY DEF Wellformed
<1>1. ASSUME NEW m \in Messages, VisibilityExpires(m) PROVE TypeOK'
  BY <1>0, <1>1 DEF TypeOK, VisibilityExpires, MessageRow
<1>2. ASSUME NEW m \in Messages, Redrive(m) PROVE TypeOK'
  BY <1>0, <1>2 DEF TypeOK, Redrive, MessageRow
<1>3. ASSUME NEW j \in Jobs, ClaimGoesStale(j) PROVE TypeOK'
  BY <1>0, <1>3 DEF TypeOK, ClaimGoesStale, JobRow
<1>4. ASSUME NEW w \in Workers, NEW m \in Messages, Receive(w, m) PROVE TypeOK'
  BY <1>0, <1>4 DEF TypeOK, Receive, WorkerLocals, WorkerPc, MessageRow
<1>5. ASSUME NEW w \in Workers, ClaimUnknown(w) PROVE TypeOK'
  BY <1>0, <1>5, IdleTyped DEF TypeOK, ClaimUnknown, WorkerLocals, WorkerPc
<1>6. ASSUME NEW w \in Workers, ClaimRefused(w) PROVE TypeOK'
  BY <1>0, <1>6, IdleTyped DEF TypeOK, ClaimRefused
<1>7. ASSUME NEW w \in Workers, ClaimRow(w) PROVE TypeOK'
  <2>1. worker[w] \in WorkerLocals
    BY <1>0 DEF TypeOK
  <2>2. [worker[w] EXCEPT !.pc = "claiming", !.seenDoc = document] \in WorkerLocals
    BY <1>0, <2>1 DEF TypeOK, WorkerLocals, WorkerPc
  <2>3. QED BY <1>0, <1>7, <2>2 DEF TypeOK, ClaimRow
<1>8. ASSUME NEW w \in Workers, ClaimCommit(w) PROVE TypeOK'
  <2>1. /\ Holding(w) /\ worker[w] \in WorkerLocals
    BY <1>0, <1>8 DEF ClaimCommit, Holding, TypeOK
  <2>2. /\ Claimed(job[JobOf(w)]) \in JobRow
        /\ job[JobOf(w)].attempts + 1 \in 0..MaxAttempts
    BY <1>8, <2>1, HeldJob, ClaimedTyped
    DEF Wellformed, ClaimStands, ClaimCommit, JobRow, Claimable
  <2>3. job' \in [Jobs -> JobRow]
    BY <1>0, <1>8, <2>2 DEF ClaimCommit, TypeOK
  <2>4. document' \in DocumentRow
    BY <1>0, <1>8, <2>1, FlushTyped, MarkProcessingTyped
    DEF ClaimCommit, TypeOK, WorkerLocals
  <2>5. worker' \in [Workers -> WorkerLocals]
    BY <1>0, <1>8, <2>1, <2>2 DEF ClaimCommit, TypeOK, WorkerLocals, WorkerPc
  <2>6. QED BY <1>0, <1>8, <2>3, <2>4, <2>5 DEF ClaimCommit, TypeOK
<1>9. ASSUME NEW w \in Workers, NotClaimed(w) PROVE TypeOK'
  <2>1. worker[w] \in WorkerLocals
    BY <1>0 DEF TypeOK
  <2>2. \A pc \in WorkerPc : [worker[w] EXCEPT !.pc = pc] \in WorkerLocals
    BY <2>1 DEF WorkerLocals
  <2>3. UnclaimedState(job[JobOf(w)]) \in {"completed", "terminal", "unavailable", "exhausted"}
    BY DEF UnclaimedState
  <2>4. QED BY <1>0, <1>9, <2>2, <2>3, IdleTyped DEF TypeOK, NotClaimed, WorkerPc
<1>10. ASSUME NEW w \in Workers, LoadForExhaustion(w) PROVE TypeOK'
  <2>1. worker[w] \in WorkerLocals
    BY <1>0 DEF TypeOK
  <2>2. [worker[w] EXCEPT !.pc = "begin", !.op = "exhaust",
                         !.source = document.key] \in WorkerLocals
    BY <1>0, <2>1, IdleTyped DEF TypeOK, WorkerLocals, WorkerPc, DocumentRow,
       JobOp
  <2>3. QED BY <1>0, <1>10, <2>2, IdleTyped DEF TypeOK, LoadForExhaustion
<1>11. ASSUME NEW w \in Workers, Load(w) PROVE TypeOK'
  <2>1. worker[w] \in WorkerLocals
    BY <1>0 DEF TypeOK
  <2>2. [worker[w] EXCEPT !.pc = "reading", !.source = document.key,
                         !.promoted = (document.key = "validated"),
                         !.seenDoc = UploadedDocument] \in WorkerLocals
    BY <1>0, <2>1, UploadedTyped DEF TypeOK, WorkerLocals, WorkerPc, DocumentRow
  <2>3. QED BY <1>0, <1>11, <2>2, UploadedTyped DEF TypeOK, Load
<1>12. ASSUME NEW w \in Workers, Process(w) PROVE TypeOK'
  <2>1. worker[w] \in WorkerLocals
    BY <1>0 DEF TypeOK
  <2>2. [worker[w] EXCEPT !.pc = "copying"] \in WorkerLocals
    BY <2>1 DEF WorkerLocals, WorkerPc
  <2>3. QED BY <1>0, <1>12, <2>2, BeginTyped DEF TypeOK, Process, JobOp
<1>13. ASSUME NEW w \in Workers, ProcessRejects(w) PROVE TypeOK'
  BY <1>0, <1>13, BeginTyped DEF TypeOK, ProcessRejects, JobOp
<1>14. ASSUME NEW w \in Workers, Copy(w) PROVE TypeOK'
  BY <1>0, <1>14 DEF TypeOK, Copy, WorkerLocals, WorkerPc
<1>15. ASSUME NEW w \in Workers, Clear(w) PROVE TypeOK'
  <2>1. Begin(w, "complete") \in [Workers -> WorkerLocals]
    BY <1>0, BeginTyped DEF TypeOK, JobOp
  <2>2. [Begin(w, "complete")[w] EXCEPT !.promoted = TRUE] \in WorkerLocals
    BY <2>1 DEF WorkerLocals
  <2>3. QED BY <1>0, <1>15, <2>1, <2>2 DEF TypeOK, Clear
<1>16. ASSUME NEW w \in Workers, StepFails(w) PROVE TypeOK'
  BY <1>0, <1>16, BeginTyped, RetryOpTyped DEF TypeOK, StepFails
<1>17. ASSUME NEW w \in Workers, RecordRead(w) PROVE TypeOK'
  <2>1. worker[w] \in WorkerLocals
    BY <1>0 DEF TypeOK
  <2>2. job[JobOf(w)].status \in JobStatus \cup {"absent"}
    BY <1>17, HeldJob DEF RecordRead, Holding, JobRow
  <2>3. [worker[w] EXCEPT !.pc = "updating", !.seenJob = job[JobOf(w)].status]
            \in WorkerLocals
    BY <2>1, <2>2 DEF WorkerLocals, WorkerPc
  <2>4. QED BY <1>0, <1>17, <2>3, RecordFailedTyped DEF TypeOK, RecordRead
<1>18. ASSUME NEW w \in Workers, RecordUpdate(w) PROVE TypeOK'
  <2>1. worker[w] \in WorkerLocals
    BY <1>0 DEF TypeOK
  <2>2. \A doc \in DocumentRow :
          [worker[w] EXCEPT !.pc = "committing", !.seenDoc = doc] \in WorkerLocals
    BY <2>1 DEF WorkerLocals, WorkerPc
  <2>3. worker[w].seenDoc \in DocumentRow
    BY <2>1 DEF WorkerLocals
  <2>4. QED BY <1>0, <1>18, <2>2, <2>3, RecordFailedTyped DEF TypeOK, RecordUpdate
<1>19. ASSUME NEW w \in Workers, RecordCommit(w) PROVE TypeOK'
  <2>1. Holding(w) BY <1>19 DEF RecordCommit, Holding
  <2> DEFINE op == worker[w].op
  <2>2. op \in JobOp
    BY <1>0, <1>19 DEF Wellformed, OpIsNamed, RecordCommit
  <2>3. worker[w] \in WorkerLocals BY <1>0 DEF TypeOK
  <2>4. Recorded(w) \in DocumentRow
    BY <2>3, MarkedTyped DEF Recorded, RecordedKey, WorkerLocals, StorageKey
  <2>5. job' \in [Jobs -> JobRow]
    BY <1>0, <1>19, <2>1, <2>2, HeldJob, UpdatedTyped DEF TypeOK, RecordCommit
  <2>6. document' \in DocumentRow
    BY <1>0, <1>19, <2>3, <2>4, FlushTyped DEF TypeOK, RecordCommit, WorkerLocals
  <2>7. pages' \in PageRows
    BY <1>0, <1>19, <2>1, <2>3, HeldJob
    DEF TypeOK, RecordCommit, Wellformed, AttemptFollowsClaim, Owning, PageRows, WorkerLocals
  <2>8. worker' \in [Workers -> WorkerLocals]
    BY <1>0, <1>19, BeginTyped, RetryOpTyped, DeliveryTyped, IdleTyped
    DEF TypeOK, RecordCommit, WorkerPc
  <2>9. QED BY <1>0, <1>19, <2>5, <2>6, <2>7, <2>8 DEF TypeOK, RecordCommit
<1>20. ASSUME NEW w \in Workers, CompleteFails(w) PROVE TypeOK'
  BY <1>0, <1>20, BeginTyped, RetryOpTyped DEF TypeOK, CompleteFails
<1>21. ASSUME NEW w \in Workers, Release(w) PROVE TypeOK'
  <2>1. message' \in [Messages -> MessageRow]
    <3>1. \/ message' = message
          \/ message' = [message EXCEPT ![worker[w].msg].state = "visible"]
      BY <1>21 DEF Release
    <3>2. QED
      BY <1>0, <3>1 DEF TypeOK, MessageRow
  <2>2. worker' \in [Workers -> WorkerLocals]
    BY <1>0, <1>21, IdleTyped DEF TypeOK, Release
  <2>3. QED BY <1>0, <1>21, <2>1, <2>2 DEF TypeOK, Release
<1>22. ASSUME NEW w \in Workers, Acknowledge(w) PROVE TypeOK'
  BY <1>0, <1>22, IdleTyped DEF TypeOK, Acknowledge, MessageRow
<1>23. ASSUME NEW w \in Workers, Abandon(w) PROVE TypeOK'
  BY <1>0, <1>23, IdleTyped DEF TypeOK, Abandon
<1>24. ASSUME NEW r \in Requests, NEW j \in Jobs, DispatchRead(r, j)
       PROVE  TypeOK'
  BY <1>0, <1>24 DEF TypeOK, DispatchRead, RequestLocals
<1>25. ASSUME NEW r \in Requests, DispatchSave(r) PROVE TypeOK'
  <2>1. job' \in [Jobs -> JobRow]
    <3>1. NewRow \in JobRow
      BY DEF NewRow, JobRow, JobStatus
    <3>2. QED BY <1>0, <1>25, <3>1 DEF TypeOK, DispatchSave
  <2>2. document' \in DocumentRow
    BY <1>0, <1>25 DEF TypeOK, DispatchSave, DocumentRow, DocumentStatus
  <2>3. request' \in [Requests -> RequestLocals]
    BY <1>0, <1>25 DEF TypeOK, DispatchSave, RequestLocals
  <2>4. QED BY <1>0, <1>25, <2>1, <2>2, <2>3 DEF TypeOK, DispatchSave
<1>26. ASSUME NEW r \in Requests, NEW m \in Messages, DispatchSend(r, m)
       PROVE  TypeOK'
  BY <1>0, <1>26 DEF TypeOK, DispatchSend, RequestLocals, MessageRow
<1>27. ASSUME NEW r \in Requests, DispatchAbort(r) PROVE TypeOK'
  BY <1>0, <1>27 DEF TypeOK, DispatchAbort, RequestLocals
<1>28. ASSUME NEW d \in Deletions, DeleteCheck(d) PROVE TypeOK'
  BY <1>0, <1>28 DEF TypeOK, DeleteCheck, DeletionLocals
<1>29. ASSUME NEW d \in Deletions, DeleteQuarantined(d) PROVE TypeOK'
  BY <1>0, <1>29 DEF TypeOK, DeleteQuarantined, DeletionLocals
<1>30. ASSUME NEW d \in Deletions, DeleteValidated(d) PROVE TypeOK'
  BY <1>0, <1>30 DEF TypeOK, DeleteValidated, DeletionLocals
<1>31. ASSUME NEW d \in Deletions, PurgePages(d) PROVE TypeOK'
  BY <1>0, <1>31 DEF TypeOK, PurgePages, DeletionLocals
<1>32. ASSUME NEW d \in Deletions, DeleteCommit(d) PROVE TypeOK'
  <2>1. job' \in [Jobs -> JobRow] /\ pages' \in PageRows /\ document' \in DocumentRow
    BY <1>0, <1>32 DEF TypeOK, DeleteCommit, Tombstone, JobRow, NoRow, PageRows,
       MarkDeleted, DocumentRow, DocumentStatus, StorageKey
  <2>2. deletion' \in [Deletions -> DeletionLocals]
    BY <1>0, <1>32, NotDeletingTyped DEF TypeOK, DeleteCommit, Tombstone, DeletionLocals
  <2>3. QED BY <1>0, <1>32, <2>1, <2>2 DEF TypeOK, DeleteCommit
<1>33. ASSUME NEW d \in Deletions, DeleteAbort(d) PROVE TypeOK'
  BY <1>0, <1>33, NotDeletingTyped DEF TypeOK, DeleteAbort
<1>34. CASE UNCHANGED vars
  BY <1>0, <1>34 DEF TypeOK, vars
<1>36. ASSUME NEW w \in Workers, CompleteLoad(w) PROVE TypeOK'
  <2>1. worker[w] \in WorkerLocals
    BY <1>0 DEF TypeOK
  <2>2. [worker[w] EXCEPT !.pc = "paging", !.seenDoc = document] \in WorkerLocals
    BY <1>0, <2>1 DEF TypeOK, WorkerLocals, WorkerPc
  <2>3. QED BY <1>0, <1>36, <2>2, RecordFailedTyped DEF TypeOK, CompleteLoad
<1>37. ASSUME NEW d \in Deletions, PurgeJobs(d) \/ LockJobs(d) PROVE TypeOK'
  BY <1>0, <1>37 DEF TypeOK, PurgeJobs, LockJobs, DeletionLocals
<1>35. QED
  BY <1>1, <1>2, <1>3, <1>4, <1>5, <1>6, <1>7, <1>8, <1>9, <1>10, <1>11,
     <1>12, <1>13, <1>14, <1>15, <1>16, <1>17, <1>18, <1>19, <1>20, <1>21,
     <1>22, <1>23, <1>24, <1>25, <1>26, <1>27, <1>28, <1>29, <1>30, <1>31,
     <1>32, <1>33, <1>34, <1>36, <1>37, PlainSteps
  DEF PlainStep, WorkerStep, WorkerProgress, RequestStep, DeletionStep,
     DeletionProgress

------------------------------------------------------------------------------
(* What a step does to a worker *)

\* A worker that could not claim is told one of four things.
LEMMA UnclaimedStates == ASSUME NEW row
  PROVE UnclaimedState(row) \in {"completed", "terminal", "unavailable", "exhausted"}
  BY DEF UnclaimedState

\* What opening a transaction changes of the locals, and what it keeps.
LEMMA BeginShape ==
  ASSUME worker \in [Workers -> WorkerLocals], NEW w \in Workers, NEW op
  PROVE  /\ \A v \in Workers \ {w} : Begin(w, op)[v] = worker[v]
         /\ Begin(w, op)[w].pc = "begin"
         /\ Begin(w, op)[w].op = op
         /\ Begin(w, op)[w].seenDoc = UploadedDocument
         /\ Begin(w, op)[w].msg = worker[w].msg
         /\ Begin(w, op)[w].count = worker[w].count
         /\ Begin(w, op)[w].attempt = worker[w].attempt
         /\ Begin(w, op)[w].source = worker[w].source
         /\ Begin(w, op)[w].promoted = worker[w].promoted
  BY DEF Begin, WorkerLocals

\* What is left of the locals when only the queue is to be told.
LEMMA DeliveryShape ==
  ASSUME NEW w \in Workers, NEW pc
  PROVE  /\ Delivery(w, pc).pc = pc
         /\ Delivery(w, pc).msg = worker[w].msg
         /\ Delivery(w, pc).op = "none"
         /\ Delivery(w, pc).attempt = 0
         /\ Delivery(w, pc).promoted = FALSE
         /\ Delivery(w, pc).source = "quarantine"
         /\ Delivery(w, pc).seenDoc = UploadedDocument
  BY DEF Delivery, Idle

\* What the locals are when nothing is left to do.
LEMMA IdleShape ==
  /\ Idle.pc = "idle" /\ Idle.op = "none" /\ Idle.attempt = 0
  /\ Idle.promoted = FALSE /\ Idle.source = "quarantine"
  /\ Idle.seenDoc = UploadedDocument
  BY DEF Idle

\* A recording transaction that commits leads to one of three control
\* states.
LEMMA RecordCommitShape ==
  ASSUME TypeOK, NEW w \in Workers, RecordCommit(w)
  PROVE  /\ worker[w].pc = "committing"
         /\ \A v \in Workers \ {w} : worker'[v] = worker[v]
         /\ \/ worker'[w] = Idle
            \/ \E pc \in {"acking", "releasing"} : worker'[w] = Delivery(w, pc)
            \/ worker' = Begin(w, RetryOp(w)) /\ worker[w].op = "complete"
  BY BeginShape DEF TypeOK, RecordCommit

\* The same, field by field.
LEMMA RecordCommitFields ==
  ASSUME TypeOK, NEW w \in Workers, RecordCommit(w)
  PROVE  \/ worker'[w] = Idle
         \/ /\ worker'[w].pc \in {"acking", "releasing"}
            /\ worker'[w].msg = worker[w].msg
            /\ worker'[w].op = "none"
            /\ worker'[w].attempt = 0
            /\ worker'[w].promoted = FALSE
            /\ worker'[w].source = "quarantine"
            /\ worker'[w].seenDoc = UploadedDocument
         \/ /\ worker[w].op = "complete"
            /\ worker'[w].pc = "begin"
            /\ worker'[w].op \in {"retry", "exhaust"}
            /\ worker'[w].msg = worker[w].msg
            /\ worker'[w].attempt = worker[w].attempt
            /\ worker'[w].promoted = worker[w].promoted
            /\ worker'[w].source = worker[w].source
            /\ worker'[w].seenDoc = UploadedDocument
<1>1. CASE worker'[w] = Idle
  BY <1>1
<1>2. ASSUME NEW pc \in {"acking", "releasing"}, worker'[w] = Delivery(w, pc)
      PROVE  /\ worker'[w].pc \in {"acking", "releasing"}
             /\ worker'[w].msg = worker[w].msg
             /\ worker'[w].op = "none"
             /\ worker'[w].attempt = 0
             /\ worker'[w].promoted = FALSE
             /\ worker'[w].source = "quarantine"
             /\ worker'[w].seenDoc = UploadedDocument
  BY <1>2 DEF Delivery, Idle
<1>3. CASE worker' = Begin(w, RetryOp(w)) /\ worker[w].op = "complete"
  BY <1>3, BeginShape, RetryOpTyped DEF TypeOK
<1>4. QED
  BY <1>1, <1>2, <1>3, RecordCommitShape

\* A step of one worker leaves the locals of the others alone.
LEMMA OthersKeepLocals ==
  ASSUME TypeOK, NEW w \in Workers, WorkerStep(w) \/ Abandon(w)
  PROVE  \A v \in Workers \ {w} : worker'[v] = worker[v]
<1>1. ASSUME NEW op PROVE \A v \in Workers \ {w} : Begin(w, op)[v] = worker[v]
  BY BeginShape DEF TypeOK
<1>2. CASE \/ \E m \in Messages : Receive(w, m)
           \/ ClaimUnknown(w) \/ ClaimRefused(w) \/ ClaimRow(w) \/ ClaimCommit(w)
           \/ NotClaimed(w) \/ LoadForExhaustion(w)
  BY <1>2 DEF TypeOK, Receive, ClaimUnknown, ClaimRefused, ClaimRow,
     ClaimCommit,
              NotClaimed, LoadForExhaustion
<1>3. CASE \/ Load(w) \/ Process(w) \/ ProcessRejects(w) \/ Copy(w) \/ StepFails(w)
  BY <1>1, <1>3 DEF TypeOK, Load, Process, ProcessRejects, Copy, StepFails
<1>8. CASE Clear(w)
  BY <1>8 DEF TypeOK, Clear, Begin
<1>4. CASE CompleteLoad(w) \/ RecordRead(w) \/ RecordUpdate(w) \/ CompleteFails(w)
  BY <1>1, <1>4 DEF TypeOK, CompleteLoad, RecordRead, RecordUpdate,
     CompleteFails, RecordFailed
<1>5. CASE RecordCommit(w)
  BY <1>5, RecordCommitShape
<1>6. CASE Release(w) \/ Acknowledge(w) \/ Abandon(w)
  BY <1>6 DEF TypeOK, Release, Acknowledge, Abandon
<1>7. QED
  BY <1>2, <1>3, <1>4, <1>5, <1>6, <1>8 DEF WorkerStep, WorkerProgress

\* A worker gets to where it may hold a row lock by ClaimRow or RecordUpdate
\* only.
LEMMA LockTaken ==
  ASSUME Wellformed, NEW w \in Workers, WorkerStep(w) \/ Abandon(w),
         worker'[w].pc \in {"claiming", "committing"}
  PROVE  /\ worker'[w].msg = worker[w].msg
         /\ Holding(w)
         /\ \/ ClaimRow(w)
            \/ /\ RecordUpdate(w)
               /\ worker'[w].pc = "committing"
               /\ worker'[w].op = worker[w].op
               /\ worker'[w].seenJob = worker[w].seenJob
<1>0. worker \in [Workers -> WorkerLocals]
  BY DEF Wellformed, TypeOK
<1>1. ASSUME NEW op PROVE Begin(w, op)[w].pc = "begin"
  BY <1>0, BeginShape
<1>2. CASE ClaimRow(w)
  BY <1>0, <1>2 DEF ClaimRow, Holding, WorkerLocals
<1>3. CASE RecordUpdate(w)
  BY <1>0, <1>1, <1>3, IdleShape DEF RecordUpdate, RecordFailed, Holding,
     WorkerLocals
<1>4. ASSUME NEW m \in Messages, Receive(w, m) PROVE FALSE
  <2>1. worker'[w].pc = "received"
    BY <1>0, <1>4 DEF Receive, WorkerLocals
  <2>2. QED
    BY <2>1
<1>12. CASE ClaimUnknown(w) \/ ClaimRefused(w)
  BY <1>0, <1>12, IdleShape DEF ClaimUnknown, ClaimRefused, WorkerLocals
<1>13. CASE ClaimCommit(w)
  BY <1>0, <1>13 DEF ClaimCommit, WorkerLocals
<1>14. CASE LoadForExhaustion(w)
  BY <1>0, <1>14, IdleShape DEF LoadForExhaustion, WorkerLocals
<1>5. CASE NotClaimed(w)
  BY <1>0, <1>5, IdleShape, UnclaimedStates DEF NotClaimed, WorkerLocals
<1>6. CASE \/ Load(w) \/ Process(w) \/ ProcessRejects(w) \/ Copy(w) \/ StepFails(w)
  BY <1>0, <1>1, <1>6 DEF Load, Process, ProcessRejects, Copy, StepFails,
     WorkerLocals
<1>7. CASE Clear(w)
  BY <1>0, <1>7 DEF Clear, Begin, WorkerLocals
<1>8. CASE CompleteLoad(w) \/ RecordRead(w) \/ CompleteFails(w)
  BY <1>0, <1>1, <1>8, IdleShape DEF CompleteLoad, RecordRead, CompleteFails,
     RecordFailed, WorkerLocals
<1>9. CASE RecordCommit(w)
  BY <1>9, RecordCommitFields, IdleShape DEF Wellformed
<1>10. CASE Release(w) \/ Acknowledge(w) \/ Abandon(w)
  BY <1>0, <1>10, IdleShape DEF Release, Acknowledge, Abandon
<1>11. QED
  BY <1>2, <1>3, <1>4, <1>5, <1>6, <1>7, <1>8, <1>9, <1>10,
     <1>12, <1>13, <1>14 DEF WorkerStep, WorkerProgress

\* In every step of the pipeline one worker moves, or none.
LEMMA OneWorkerMoves ==
  Wellformed /\ [Next]_vars =>
     \/ worker' = worker
     \/ \E w \in Workers : /\ WorkerStep(w) \/ Abandon(w)
                          /\ \A v \in Workers \ {w} : worker'[v] = worker[v]
<1> SUFFICES ASSUME Wellformed, [Next]_vars
             PROVE  worker' = worker
                    \/ \E w \in Workers : WorkerStep(w) \/ Abandon(w)
  BY OthersKeepLocals DEF Wellformed
<1>1. ASSUME NEW m \in Messages, VisibilityExpires(m) \/ Redrive(m)
      PROVE  worker' = worker
  BY <1>1 DEF VisibilityExpires, Redrive
<1>2. ASSUME NEW j \in Jobs, ClaimGoesStale(j) PROVE worker' = worker
  BY <1>2 DEF ClaimGoesStale
<1>3. ASSUME NEW r \in Requests, RequestStep(r) PROVE worker' = worker
  BY <1>3 DEF RequestStep, DispatchRead, DispatchSave, DispatchSend,
     DispatchAbort
<1>4. ASSUME NEW d \in Deletions, DeletionStep(d) PROVE worker' = worker
  BY <1>4 DEF DeletionStep, DeletionProgress, DeleteCheck, DeleteQuarantined,
     DeleteValidated, PurgePages, PurgeJobs, LockJobs, DeleteCommit, DeleteAbort
<1>5. CASE UNCHANGED vars
  BY <1>5 DEF vars
<1>6. QED
  BY <1>1, <1>2, <1>3, <1>4, <1>5, PlainSteps DEF PlainStep

\* The calls move by their own steps only.
LEMMA RequestsStepAlone ==
  [Next]_vars => UNCHANGED request \/ \E r \in Requests : RequestStep(r)
<1> SUFFICES ASSUME [Next]_vars
             PROVE  UNCHANGED request \/ \E r \in Requests : RequestStep(r)
  OBVIOUS
<1> USE DEF callers
<1>1. ASSUME NEW w \in Workers, WorkerStep(w) \/ Abandon(w)
      PROVE  UNCHANGED request
  BY <1>1 DEF WorkerStep, WorkerProgress, Receive, ClaimUnknown, ClaimRefused,
     ClaimRow,
     ClaimCommit, NotClaimed, LoadForExhaustion, Load, Process, ProcessRejects,
     Copy, Clear, StepFails, CompleteLoad, RecordRead, RecordUpdate,
     RecordCommit, CompleteFails, Release, Acknowledge, Abandon
<1>2. ASSUME NEW d \in Deletions, DeletionStep(d) PROVE UNCHANGED request
  BY <1>2 DEF DeletionStep, DeletionProgress, DeleteCheck, DeleteQuarantined,
     DeleteValidated, PurgePages, PurgeJobs, LockJobs, DeleteCommit, DeleteAbort
<1>3. ASSUME NEW j \in Jobs, ClaimGoesStale(j) PROVE UNCHANGED request
  BY <1>3 DEF ClaimGoesStale
<1>4. ASSUME NEW m \in Messages, VisibilityExpires(m) \/ Redrive(m)
      PROVE  UNCHANGED request
  BY <1>4 DEF VisibilityExpires, Redrive
<1>5. CASE UNCHANGED vars
  BY <1>5 DEF vars
<1>6. QED
  BY <1>1, <1>2, <1>3, <1>4, <1>5, PlainSteps DEF PlainStep

\* So do the deletions.
LEMMA DeletionsStepAlone ==
  [Next]_vars => UNCHANGED deletion \/ \E d \in Deletions : DeletionStep(d)
<1> SUFFICES ASSUME [Next]_vars
             PROVE  UNCHANGED deletion \/ \E d \in Deletions : DeletionStep(d)
  OBVIOUS
<1> USE DEF callers
<1>1. ASSUME NEW w \in Workers, WorkerStep(w) \/ Abandon(w)
      PROVE  UNCHANGED deletion
  BY <1>1 DEF WorkerStep, WorkerProgress, Receive, ClaimUnknown, ClaimRefused,
     ClaimRow,
     ClaimCommit, NotClaimed, LoadForExhaustion, Load, Process, ProcessRejects,
     Copy, Clear, StepFails, CompleteLoad, RecordRead, RecordUpdate,
     RecordCommit, CompleteFails, Release, Acknowledge, Abandon
<1>2. ASSUME NEW r \in Requests, RequestStep(r) PROVE UNCHANGED deletion
  BY <1>2 DEF RequestStep, DispatchRead, DispatchSave, DispatchSend,
     DispatchAbort
<1>3. ASSUME NEW j \in Jobs, ClaimGoesStale(j) PROVE UNCHANGED deletion
  BY <1>3 DEF ClaimGoesStale
<1>4. ASSUME NEW m \in Messages, VisibilityExpires(m) \/ Redrive(m)
      PROVE  UNCHANGED deletion
  BY <1>4 DEF VisibilityExpires, Redrive
<1>5. CASE UNCHANGED vars
  BY <1>5 DEF vars
<1>6. QED
  BY <1>1, <1>2, <1>3, <1>4, <1>5, PlainSteps DEF PlainStep

------------------------------------------------------------------------------
(* Messages, attempts, locks *)

\* The steps that write the queue.
LEMMA MessageActions ==
  [Next]_vars =>
      \/ UNCHANGED message
      \/ \E m \in Messages : VisibilityExpires(m) \/ Redrive(m)
      \/ \E w \in Workers, m \in Messages : Receive(w, m)
      \/ \E w \in Workers : Release(w) \/ Acknowledge(w)
      \/ \E r \in Requests, m \in Messages : DispatchSend(r, m)
<1> SUFFICES ASSUME [Next]_vars
             PROVE  \/ UNCHANGED message
                    \/ \E m \in Messages : VisibilityExpires(m) \/ Redrive(m)
                    \/ \E w \in Workers, m \in Messages : Receive(w, m)
                    \/ \E w \in Workers : Release(w) \/ Acknowledge(w)
                    \/ \E r \in Requests, m \in Messages : DispatchSend(r, m)
  OBVIOUS
<1>1. ASSUME NEW w \in Workers, WorkerStep(w) \/ Abandon(w),
             \A m \in Messages : ~Receive(w, m), ~Release(w), ~Acknowledge(w)
      PROVE  UNCHANGED message
  BY <1>1 DEF WorkerStep, WorkerProgress, ClaimUnknown, ClaimRefused, ClaimRow,
     ClaimCommit,
     NotClaimed, LoadForExhaustion, Load, Process, ProcessRejects, Copy, Clear,
     StepFails, CompleteLoad, RecordRead, RecordUpdate, RecordCommit,
     CompleteFails, Abandon
<1>2. ASSUME NEW r \in Requests, RequestStep(r),
             \A m \in Messages : ~DispatchSend(r, m)
      PROVE  UNCHANGED message
  BY <1>2 DEF RequestStep, DispatchRead, DispatchSave, DispatchAbort
<1>3. ASSUME NEW d \in Deletions, DeletionStep(d) PROVE UNCHANGED message
  BY <1>3 DEF DeletionStep, DeletionProgress, DeleteCheck, DeleteQuarantined,
     DeleteValidated, PurgePages, PurgeJobs, LockJobs, DeleteCommit, DeleteAbort
<1>4. ASSUME NEW j \in Jobs, ClaimGoesStale(j) PROVE UNCHANGED message
  BY <1>4 DEF ClaimGoesStale
<1>5. CASE UNCHANGED vars
  BY <1>5 DEF vars
<1>6. QED
  BY <1>1, <1>2, <1>3, <1>4, <1>5, PlainSteps DEF PlainStep

\* The steps that write the job or the document row.
LEMMA JobRowActions ==
  [Next]_vars =>
      \/ UNCHANGED <<job, document>>
      \/ \E j \in Jobs : ClaimGoesStale(j)
      \/ \E w \in Workers : ClaimCommit(w) \/ RecordCommit(w)
      \/ \E r \in Requests : DispatchSave(r)
      \/ \E d \in Deletions : DeleteCommit(d)
<1> SUFFICES ASSUME [Next]_vars
             PROVE  \/ UNCHANGED <<job, document>>
                    \/ \E j \in Jobs : ClaimGoesStale(j)
                    \/ \E w \in Workers : ClaimCommit(w) \/ RecordCommit(w)
                    \/ \E r \in Requests : DispatchSave(r)
                    \/ \E d \in Deletions : DeleteCommit(d)
  OBVIOUS
<1> USE DEF database
<1>1. ASSUME NEW w \in Workers, WorkerStep(w) \/ Abandon(w), ~ClaimCommit(w),
             ~RecordCommit(w)
      PROVE  UNCHANGED <<job, document>>
  BY <1>1 DEF WorkerStep, WorkerProgress, Receive, ClaimUnknown, ClaimRefused,
     ClaimRow, NotClaimed, LoadForExhaustion, Load, Process, ProcessRejects,
     Copy, Clear, StepFails, CompleteLoad, RecordRead, RecordUpdate,
     CompleteFails, Release, Acknowledge, Abandon
<1>2. ASSUME NEW r \in Requests, RequestStep(r), ~DispatchSave(r)
      PROVE  UNCHANGED <<job, document>>
  BY <1>2 DEF RequestStep, DispatchRead, DispatchSend, DispatchAbort
<1>3. ASSUME NEW d \in Deletions, DeletionStep(d), ~DeleteCommit(d)
      PROVE  UNCHANGED <<job, document>>
  BY <1>3 DEF DeletionStep, DeletionProgress, DeleteCheck, DeleteQuarantined,
     DeleteValidated, PurgePages, PurgeJobs, LockJobs, DeleteAbort
<1>4. ASSUME NEW m \in Messages, VisibilityExpires(m) \/ Redrive(m)
      PROVE  UNCHANGED <<job, document>>
  BY <1>4 DEF VisibilityExpires, Redrive
<1>5. CASE UNCHANGED vars
  BY <1>5 DEF vars
<1>6. QED
  BY <1>1, <1>2, <1>3, <1>4, <1>5, PlainSteps DEF PlainStep

\* A message once sent stays sent, and stays addressed to its job; one that
\* is sent now is addressed to a job.
LEMMA SentKept ==
  ASSUME Wellformed, [Next]_vars, NEW n \in Messages
  PROVE  /\ message[n].state # "unsent" =>
              message'[n].state # "unsent" /\ message'[n].job = message[n].job
         /\ message[n].state = "unsent" =>
              message'[n] = message[n] \/ message'[n].job \in Jobs
<1> DEFINE Kept(p, q) ==
      /\ p.state # "unsent" => q.state # "unsent" /\ q.job = p.job
      /\ p.state = "unsent" => q = p \/ q.job \in Jobs
<1> SUFFICES Kept(message[n], message'[n])
  OBVIOUS
<1>0. message \in [Messages -> MessageRow]
  BY DEF Wellformed, TypeOK
<1>1. CASE UNCHANGED message
  BY <1>1
<1>2. ASSUME NEW m \in Messages, VisibilityExpires(m) \/ Redrive(m)
      PROVE  Kept(message[n], message'[n])
  BY <1>0, <1>2 DEF VisibilityExpires, Redrive, MessageRow
<1>3. ASSUME NEW w \in Workers, NEW m \in Messages, Receive(w, m)
      PROVE  Kept(message[n], message'[n])
  BY <1>0, <1>3 DEF Receive, MessageRow
<1>4. ASSUME NEW w \in Workers, Release(w)
      PROVE  Kept(message[n], message'[n])
  BY <1>0, <1>4 DEF Release, MessageRow
<1>5. ASSUME NEW w \in Workers, Acknowledge(w)
      PROVE  Kept(message[n], message'[n])
  <2>1. CASE UNCHANGED message
    BY <2>1
  <2>2. CASE /\ message[worker[w].msg].state \in {"visible", "inflight"}
             /\ message' = [message EXCEPT ![worker[w].msg].state = "deleted"]
    BY <1>0, <2>2 DEF MessageRow
  <2>3. QED
    BY <1>5, <2>1, <2>2 DEF Acknowledge
<1>6. ASSUME NEW r \in Requests, NEW m \in Messages, DispatchSend(r, m)
      PROVE  Kept(message[n], message'[n])
  <2>1. request[r].job \in Jobs
    BY <1>6 DEF DispatchSend, Wellformed, SentMessageHasJob
  <2>2. QED
    BY <1>0, <1>6, <2>1 DEF DispatchSend
<1>7. QED
  BY <1>1, <1>2, <1>3, <1>4, <1>5, <1>6, MessageActions

\* Every step keeps SentMessageHasJob.
LEMMA SentStep == Wellformed /\ [Next]_vars => SentMessageHasJob'
<1> SUFFICES ASSUME Wellformed, [Next]_vars PROVE SentMessageHasJob'
  OBVIOUS
<1>0. request \in [Requests -> RequestLocals]
  BY DEF Wellformed, TypeOK
<1>1. ASSUME NEW n \in Messages, message'[n].state # "unsent"
      PROVE  message'[n].job \in Jobs
  BY <1>1, SentKept DEF Wellformed, SentMessageHasJob
<1>2. ASSUME NEW q \in Requests, request'[q].pc \in {"saving", "sending"}
      PROVE  request'[q].job \in Jobs
  <2>1. CASE request'[q].job = request[q].job /\ request[q].pc \in {"saving", "sending"}
    BY <2>1 DEF Wellformed, SentMessageHasJob
  <2>2. ASSUME NEW r \in Requests, NEW j \in Jobs, DispatchRead(r, j)
        PROVE  request'[q] = request[q] \/ request'[q].job \in Jobs
    BY <1>0, <2>2 DEF DispatchRead
  <2>3. ASSUME NEW r \in Requests,
               \/ DispatchSave(r) \/ DispatchAbort(r)
               \/ \E m \in Messages : DispatchSend(r, m)
        PROVE  \/ request'[q] = request[q]
               \/ request'[q].job = request[q].job /\ request[q].pc \in {"saving", "sending"}
    BY <1>0, <2>3 DEF DispatchSave, DispatchAbort, DispatchSend, RequestLocals
  <2>4. \/ UNCHANGED request
        \/ \E r \in Requests : RequestStep(r)
    BY RequestsStepAlone
  <2>5. QED
    BY <1>2, <2>1, <2>2, <2>3, <2>4 DEF RequestStep
<1>3. QED
  BY <1>1, <1>2 DEF SentMessageHasJob

\* A worker has the message it had, or one that was visible.
LEMMA MessageTaken ==
  ASSUME Wellformed, [Next]_vars, NEW v \in Workers, Holding(v)'
  PROVE  \/ Holding(v) /\ worker'[v].msg = worker[v].msg
         \/ /\ worker'[v].msg \in Messages
            /\ message[worker'[v].msg].state = "visible"
<1> DEFINE Goal == \/ Holding(v) /\ worker'[v].msg = worker[v].msg
                   \/ /\ worker'[v].msg \in Messages
                      /\ message[worker'[v].msg].state = "visible"
<1> SUFFICES Goal
  OBVIOUS
<1> USE DEF Holding
<1>0. worker \in [Workers -> WorkerLocals] /\ TypeOK
  BY DEF Wellformed, TypeOK
<1>1. CASE worker'[v] = worker[v]
  BY <1>1
<1>2. ASSUME NEW m \in Messages, Receive(v, m) PROVE Goal
  <2>1. worker'[v].msg = m
    BY <1>0, <1>2 DEF Receive, WorkerLocals
  <2>2. QED
    BY <1>2, <2>1 DEF Receive
<1>3. CASE ClaimUnknown(v) \/ ClaimRefused(v)
  BY <1>0, <1>3, IdleShape DEF ClaimUnknown, ClaimRefused, WorkerLocals
<1>4. CASE ClaimRow(v)
  BY <1>0, <1>4 DEF ClaimRow, WorkerLocals
<1>5. CASE ClaimCommit(v)
  BY <1>0, <1>5 DEF ClaimCommit, WorkerLocals
<1>6. CASE NotClaimed(v)
  BY <1>0, <1>6, IdleShape, UnclaimedStates DEF NotClaimed, WorkerLocals
<1>7. CASE LoadForExhaustion(v)
  BY <1>0, <1>7, IdleShape DEF LoadForExhaustion, WorkerLocals
<1>8. CASE Load(v) \/ Copy(v)
  BY <1>0, <1>8 DEF Load, Copy, WorkerLocals
<1>9. CASE Process(v) \/ ProcessRejects(v) \/ StepFails(v)
  BY <1>0, <1>9, BeginShape DEF Process, ProcessRejects, StepFails, WorkerLocals
<1>10. CASE Clear(v)
  BY <1>0, <1>10 DEF Clear, Begin, WorkerLocals
<1>11. CASE CompleteLoad(v) \/ RecordRead(v)
  BY <1>0, <1>11, BeginShape, IdleShape DEF CompleteLoad, RecordRead,
     RecordFailed, WorkerLocals
<1>12. CASE RecordUpdate(v)
  BY <1>0, <1>12, BeginShape, IdleShape DEF RecordUpdate, RecordFailed,
     WorkerLocals
<1>13. CASE RecordCommit(v)
  <2>1. worker[v].pc = "committing"
    BY <1>0, <1>13, RecordCommitShape
  <2>2. worker'[v] = Idle \/ worker'[v].msg = worker[v].msg
    BY <1>0, <1>13, RecordCommitFields
  <2>3. QED
    BY <2>1, <2>2, IdleShape
<1>14. CASE CompleteFails(v)
  BY <1>0, <1>14, BeginShape DEF CompleteFails
<1>15. CASE Release(v) \/ Acknowledge(v) \/ Abandon(v)
  BY <1>0, <1>15, IdleShape DEF Release, Acknowledge, Abandon
<1>16. QED
  BY <1>1, <1>2, <1>3, <1>4, <1>5, <1>6, <1>7, <1>8, <1>9, <1>10, <1>11, <1>12,
     <1>13,
     <1>14, <1>15, OneWorkerMoves DEF WorkerStep, WorkerProgress

\* Every step keeps HeldMessageIsSent.
LEMMA HeldStep == Wellformed /\ [Next]_vars => HeldMessageIsSent'
<1> SUFFICES ASSUME Wellformed, [Next]_vars, NEW v \in Workers, Holding(v)'
             PROVE  /\ worker'[v].msg \in Messages
                    /\ message'[worker'[v].msg].state # "unsent"
  BY DEF HeldMessageIsSent
<1>1. worker'[v].msg \in Messages /\ message[worker'[v].msg].state # "unsent"
  BY MessageTaken DEF Wellformed, HeldMessageIsSent
<1>2. QED
  BY <1>1, SentKept

\* A worker that keeps its message keeps its job.
LEMMA JobOfKept ==
  ASSUME Wellformed, [Next]_vars, NEW v \in Workers, Holding(v),
         worker'[v].msg = worker[v].msg
  PROVE  JobOf(v)' = JobOf(v)
  BY SentKept DEF Wellformed, HeldMessageIsSent, JobOf

\* How a step of a worker changes its transaction and its attempt.
LEMMA OwnMoves ==
  ASSUME Wellformed, [Next]_vars, NEW v \in Workers
  PROVE  /\ worker'[v].pc \in {"begin", "paging", "updating", "committing"} =>
              worker'[v].op \in JobOp
         /\ worker'[v].pc = "paging" => worker'[v].op = "complete"
         /\ Claiming(v)' => worker'[v].attempt = 0
         /\ Owning(v)' => worker'[v].attempt > 0
<1> DEFINE Goal == /\ worker'[v].pc \in {"begin", "paging", "updating",
                                              "committing"} =>
                        worker'[v].op \in JobOp
                   /\ worker'[v].pc = "paging" => worker'[v].op = "complete"
                   /\ Claiming(v)' => worker'[v].attempt = 0
                   /\ Owning(v)' => worker'[v].attempt > 0
<1> SUFFICES Goal
  OBVIOUS
<1> USE DEF Claiming, Owning
<1>0. /\ worker \in [Workers -> WorkerLocals] /\ TypeOK
      /\ worker[v].pc \in {"begin", "paging", "updating", "committing"} =>
              worker[v].op \in JobOp
      /\ worker[v].pc = "paging" => worker[v].op = "complete"
      /\ Claiming(v) => worker[v].attempt = 0
      /\ Owning(v) => worker[v].attempt > 0
  BY DEF Wellformed, TypeOK, OpIsNamed, AttemptFollowsClaim
<1>1. CASE worker'[v] = worker[v]
  BY <1>0, <1>1
<1>2. ASSUME NEW m \in Messages, Receive(v, m) PROVE Goal
  <2>1. worker'[v].pc = "received" /\ worker'[v].attempt = worker[v].attempt
    BY <1>0, <1>2 DEF Receive, WorkerLocals
  <2>2. QED
    BY <1>0, <1>2, <2>1 DEF Receive
<1>3. CASE ClaimUnknown(v) \/ ClaimRefused(v)
  BY <1>0, <1>3, IdleShape DEF ClaimUnknown, ClaimRefused, WorkerLocals
<1>4. CASE ClaimRow(v)
  BY <1>0, <1>4 DEF ClaimRow, WorkerLocals
<1>5. CASE ClaimCommit(v)
  <2>1. job[JobOf(v)].attempts \in Nat
    BY <1>5, HeldJob DEF ClaimCommit, Holding, JobRow
  <2>2. QED
    BY <1>0, <1>5, <2>1 DEF ClaimCommit, WorkerLocals
<1>6. CASE NotClaimed(v)
  BY <1>0, <1>6, IdleShape, UnclaimedStates DEF NotClaimed, WorkerLocals
<1>7. CASE LoadForExhaustion(v)
  BY <1>0, <1>7, IdleShape DEF LoadForExhaustion, WorkerLocals, JobOp
<1>8. CASE Load(v) \/ Copy(v)
  BY <1>0, <1>8 DEF Load, Copy, WorkerLocals
<1>9. CASE Process(v)
  BY <1>0, <1>9, BeginShape DEF Process, WorkerLocals, JobOp
<1>10. CASE ProcessRejects(v) \/ StepFails(v)
  BY <1>0, <1>10, BeginShape, RetryOpTyped DEF ProcessRejects, StepFails, JobOp
<1>11. CASE Clear(v)
  BY <1>0, <1>11 DEF Clear, Begin, WorkerLocals, JobOp
<1>12. CASE CompleteLoad(v) \/ RecordRead(v)
  BY <1>0, <1>12, BeginShape, IdleShape, RetryOpTyped
  DEF CompleteLoad, RecordRead, RecordFailed, WorkerLocals
<1>13. CASE RecordUpdate(v)
  BY <1>0, <1>13, BeginShape, IdleShape, RetryOpTyped
  DEF RecordUpdate, RecordFailed, WorkerLocals
<1>14. CASE RecordCommit(v)
  <2>1. \/ worker'[v].pc = "idle" /\ worker'[v].attempt = 0
        \/ worker'[v].pc \in {"acking", "releasing"}
        \/ worker'[v].pc = "begin" /\ worker'[v].op \in {"retry", "exhaust"}
    BY <1>0, <1>14, RecordCommitFields, IdleShape
  <2>2. QED
    BY <2>1 DEF JobOp
<1>15. CASE CompleteFails(v)
  BY <1>0, <1>15, BeginShape, RetryOpTyped DEF CompleteFails
<1>16. CASE Release(v) \/ Acknowledge(v) \/ Abandon(v)
  BY <1>0, <1>16, IdleShape DEF Release, Acknowledge, Abandon
<1>17. QED
  BY <1>1, <1>2, <1>3, <1>4, <1>5, <1>6, <1>7, <1>8, <1>9, <1>10, <1>11, <1>12,
     <1>13,
     <1>14, <1>15, <1>16, OneWorkerMoves DEF WorkerStep, WorkerProgress

\* Every step keeps OpIsNamed and AttemptFollowsClaim.
LEMMA OwnStep == Wellformed /\ [Next]_vars => (OpIsNamed /\ AttemptFollowsClaim)'
  BY OwnMoves DEF OpIsNamed, AttemptFollowsClaim

\* No step leaves a worker with a deleted document in its session.
LEMMA SeenMoves ==
  ASSUME Wellformed, [Next]_vars, NEW v \in Workers
  PROVE  ~worker'[v].seenDoc.deleted
<1> DEFINE Goal == ~worker'[v].seenDoc.deleted
<1> SUFFICES Goal
  OBVIOUS
<1>0. /\ worker \in [Workers -> WorkerLocals] /\ TypeOK
      /\ ~worker[v].seenDoc.deleted /\ ~UploadedDocument.deleted
  BY DEF Wellformed, TypeOK, SeenIsAlive, UploadedDocument
<1>1. CASE worker'[v] = worker[v]
  BY <1>0, <1>1
<1>2. ASSUME NEW m \in Messages, Receive(v, m) PROVE Goal
  BY <1>0, <1>2 DEF Receive, WorkerLocals
<1>3. CASE ClaimUnknown(v) \/ ClaimRefused(v)
  BY <1>0, <1>3, IdleShape DEF ClaimUnknown, ClaimRefused, WorkerLocals
<1>4. CASE ClaimRow(v) \/ Load(v)
  BY <1>0, <1>4 DEF ClaimRow, Load, WorkerLocals
<1>5. CASE ClaimCommit(v) \/ Copy(v)
  BY <1>0, <1>5 DEF ClaimCommit, Copy, WorkerLocals
<1>6. CASE NotClaimed(v)
  BY <1>0, <1>6, IdleShape, UnclaimedStates DEF NotClaimed, WorkerLocals
<1>7. CASE LoadForExhaustion(v)
  BY <1>0, <1>7, IdleShape DEF LoadForExhaustion, WorkerLocals
<1>8. CASE Process(v)
  BY <1>0, <1>8, BeginShape DEF Process, WorkerLocals
<1>9. CASE ProcessRejects(v) \/ StepFails(v) \/ CompleteFails(v)
  BY <1>0, <1>9, BeginShape DEF ProcessRejects, StepFails, CompleteFails
<1>10. CASE Clear(v)
  BY <1>0, <1>10 DEF Clear, Begin, WorkerLocals
<1>11. CASE CompleteLoad(v) \/ RecordRead(v)
  BY <1>0, <1>11, BeginShape, IdleShape DEF CompleteLoad, RecordRead,
     RecordFailed, WorkerLocals
<1>12. CASE RecordUpdate(v)
  BY <1>0, <1>12, BeginShape, IdleShape DEF RecordUpdate, RecordFailed,
     WorkerLocals
<1>13. CASE RecordCommit(v)
  BY <1>0, <1>13, RecordCommitFields, IdleShape
<1>14. CASE Release(v) \/ Acknowledge(v) \/ Abandon(v)
  BY <1>0, <1>14, IdleShape DEF Release, Acknowledge, Abandon
<1>15. QED
  BY <1>1, <1>2, <1>3, <1>4, <1>5, <1>6, <1>7, <1>8, <1>9, <1>10, <1>11, <1>12,
     <1>13,
     <1>14, OneWorkerMoves DEF WorkerStep, WorkerProgress

\* Every step keeps SeenIsAlive.
LEMMA SeenStep == Wellformed /\ [Next]_vars => SeenIsAlive'
  BY SeenMoves DEF SeenIsAlive

\* Between the two halves of a purge a deletion finds no new rows.
LEMMA PurgesKept ==
  ASSUME Wellformed, [Next]_vars, NEW d \in Deletions, NEW j,
         deletion'[d].pc = "marking", j \in deletion'[d].sawJobs
  PROVE  \/ Purges(d, j)
         \/ LockJobs(d) /\ ~RowLocked(j) /\ worker' = worker
<1>0. deletion \in [Deletions -> DeletionLocals]
  BY DEF Wellformed, TypeOK
<1>1. CASE UNCHANGED deletion
  BY <1>1 DEF Purges
<1>2. ASSUME NEW e \in Deletions,
             DeleteCheck(e) \/ DeleteQuarantined(e) \/ DeleteValidated(e)
             \/ PurgePages(e) \/ PurgeJobs(e) \/ DeleteAbort(e)
      PROVE  Purges(d, j)
  BY <1>0, <1>2 DEF DeleteCheck, DeleteQuarantined, DeleteValidated, PurgePages,
     PurgeJobs, DeleteAbort, NotDeleting, Purges, DeletionLocals
<1>3. ASSUME NEW e \in Deletions, LockJobs(e)
      PROVE  Purges(d, j) \/ (e = d /\ ~RowLocked(j) /\ worker' = worker)
  BY <1>0, <1>3 DEF LockJobs, Purges, DeletionLocals
<1>4. ASSUME NEW e \in Deletions, DeleteCommit(e)
      PROVE  Purges(d, j)
  BY <1>0, <1>4 DEF DeleteCommit, Tombstone, NotDeleting, Purges, DeletionLocals
<1>5. UNCHANGED deletion \/ \E e \in Deletions : DeletionStep(e)
  BY DeletionsStepAlone
<1>6. QED
  BY <1>1, <1>2, <1>3, <1>4, <1>5 DEF DeletionStep, DeletionProgress

\* A worker that has a row lock has kept it, or has just taken one that was
\* free.
LEMMA RowTaken ==
  ASSUME Wellformed, [Next]_vars, NEW w \in Workers, HoldsRow(w)'
  PROVE  /\ JobOf(w)' = JobOf(w)
         /\ \/ HoldsRow(w) /\ worker'[w] = worker[w]
            \/ /\ ~RowLocked(JobOf(w))
               /\ WorkerStep(w) \/ Abandon(w)
               /\ UNCHANGED deletion
<1>1. CASE worker'[w] = worker[w]
  BY <1>1, JobOfKept DEF HoldsRow, Holding
<1>2. CASE WorkerStep(w) \/ Abandon(w)
  <2>1. worker'[w].pc \in {"claiming", "committing"}
    BY DEF HoldsRow
  <2>2. JobOf(w)' = JobOf(w)
    BY <1>2, <2>1, LockTaken, JobOfKept
  <2>3. CASE ClaimRow(w)
    BY <1>2, <2>2, <2>3 DEF ClaimRow, callers
  <2>4. CASE RecordUpdate(w) /\ worker'[w].pc = "committing"
             /\ worker'[w].op = worker[w].op
             /\ worker'[w].seenJob = worker[w].seenJob
    BY <1>2, <2>2, <2>4 DEF RecordUpdate, HoldsRow, callers
  <2>5. QED
    BY <1>2, <2>1, <2>3, <2>4, LockTaken
<1>3. QED
  BY <1>1, <1>2, OneWorkerMoves

\* Every step keeps LocksAreExclusive.
LEMMA LockStep == Wellformed /\ [Next]_vars => LocksAreExclusive'
<1> SUFFICES ASSUME Wellformed, [Next]_vars, NEW w \in Workers, HoldsRow(w)'
             PROVE  /\ \A v \in Workers :
                           HoldsRow(v)' /\ JobOf(v)' = JobOf(w)' => v = w
                    /\ \A d \in Deletions : ~Purges(d, JobOf(w))'
  BY DEF LocksAreExclusive
<1>1. ASSUME NEW v \in Workers, HoldsRow(v)', JobOf(v)' = JobOf(w)', v # w
      PROVE  FALSE
  <2>1. JobOf(v)' = JobOf(v) /\ JobOf(w)' = JobOf(w)
    BY <1>1, RowTaken
  <2>2. worker'[v] = worker[v] \/ worker'[w] = worker[w]
    BY <1>1, OneWorkerMoves
  <2>3. CASE HoldsRow(v) /\ HoldsRow(w)
    BY <1>1, <2>1, <2>3 DEF Wellformed, LocksAreExclusive
  <2>4. CASE HoldsRow(v) /\ ~RowLocked(JobOf(w))
    BY <1>1, <2>1, <2>4 DEF RowLocked
  <2>5. CASE HoldsRow(w) /\ ~RowLocked(JobOf(v))
    BY <1>1, <2>1, <2>5 DEF RowLocked
  <2>6. CASE ~HoldsRow(v) /\ ~HoldsRow(w)
    <3>1. \A x \in Workers : HoldsRow(x)' /\ worker'[x] = worker[x] => HoldsRow(x)
      BY DEF HoldsRow
    <3>2. QED
      BY <1>1, <2>2, <2>6, <3>1
  <2>7. QED
    BY <1>1, <2>3, <2>4, <2>5, <2>6, RowTaken
<1>2. ASSUME NEW d \in Deletions, Purges(d, JobOf(w))' PROVE FALSE
  <2>1. JobOf(w)' = JobOf(w)
    BY RowTaken
  <2>2. deletion'[d].pc = "marking" /\ JobOf(w) \in deletion'[d].sawJobs
    BY <1>2, <2>1 DEF Purges
  <2>3. \/ Purges(d, JobOf(w))
        \/ LockJobs(d) /\ ~RowLocked(JobOf(w)) /\ worker' = worker
    BY <2>2, PurgesKept
  <2>4. CASE HoldsRow(w)
    BY <2>3, <2>4 DEF Wellformed, LocksAreExclusive, RowLocked
  <2>5. CASE ~RowLocked(JobOf(w)) /\ UNCHANGED deletion
    BY <2>2, <2>5 DEF RowLocked, Purges
  <2>6. QED
    BY <2>4, <2>5, RowTaken
<1>3. QED
  BY <1>1, <1>2

\* A flush sets deleted_at if its session did, and never resets it.
LEMMA FlushedDeleted ==
  ASSUME NEW row, NEW read, NEW image
  PROVE  Flush(row, read, image).deleted = (row.deleted \/ image.deleted)
  BY DEF Flush

\* No recording transaction touches deleted_at.
LEMMA MarkedDeleted ==
  ASSUME NEW doc \in DocumentRow, NEW op, NEW key
  PROVE  /\ Marked(op, doc, key).deleted = doc.deleted
         /\ MarkProcessing(doc).deleted = doc.deleted
  BY DEF Marked, MarkProcessing, DocumentRow

\* Nobody changes the row that a claim in progress has locked: it stays
\* claimable, whatever happens to the document.
LEMMA ClaimedRowKept ==
  ASSUME Wellformed, [Next]_vars, NEW v \in Workers,
         worker[v].pc = "claiming", worker'[v].pc = "claiming"
  PROVE  Claimable(job'[JobOf(v)])
<1> USE DEF database, storage, callers
<1> DEFINE Goal == Claimable(job'[JobOf(v)])
<1> SUFFICES Goal
  OBVIOUS
<1> HIDE DEF Goal
<1>0. /\ TypeOK /\ Claimable(job[JobOf(v)])
      /\ JobOf(v) \in Jobs /\ HoldsRow(v) /\ RowLocked(JobOf(v))
  BY HeldJob DEF Wellformed, ClaimStands, Holding, HoldsRow, RowLocked
<1>1. CASE UNCHANGED job
  BY <1>0, <1>1 DEF Goal
<1>2. ASSUME NEW j \in Jobs, ClaimGoesStale(j) PROVE Goal
  BY <1>0, <1>2 DEF Goal, ClaimGoesStale, TypeOK, JobRow, Claimable
<1>3. ASSUME NEW w \in Workers, ClaimCommit(w) PROVE Goal
  <2>1. w # v
    BY <1>0, <1>3 DEF ClaimCommit, TypeOK, WorkerLocals
  <2>2. JobOf(w) # JobOf(v)
    BY <1>0, <1>3, <2>1 DEF ClaimCommit, Wellformed, LocksAreExclusive, HoldsRow
  <2>3. QED
    BY <1>0, <1>3, <2>2 DEF ClaimCommit, TypeOK, Goal
<1>4. ASSUME NEW w \in Workers, RecordCommit(w) PROVE Goal
  <2>1. w # v
    BY <1>4 DEF RecordCommit
  <2>2. JobOf(w) # JobOf(v) \/ ~Updates(worker[w].op, worker[w].seenJob)
    BY <1>0, <1>4, <2>1 DEF RecordCommit, Wellformed, LocksAreExclusive,
       HoldsRow
  <2>3. QED
    BY <1>0, <1>4, <2>2 DEF RecordCommit, Updated, TypeOK, Goal
<1>5. ASSUME NEW r \in Requests, DispatchSave(r) PROVE Goal
  BY <1>0, <1>5 DEF Goal, DispatchSave, TypeOK
<1>6. ASSUME NEW d \in Deletions, DeleteCommit(d) PROVE Goal
  <2>1. JobOf(v) \notin deletion[d].sawJobs
    BY <1>0, <1>6 DEF Wellformed, LocksAreExclusive, Purges, DeleteCommit
  <2>2. QED
    BY <1>0, <1>6, <2>1 DEF Goal, DeleteCommit, Tombstone
<1>7. QED
  BY <1>1, <1>2, <1>3, <1>4, <1>5, <1>6, JobRowActions

\* Every step keeps ClaimStands.
LEMMA StandsStep ==
  Wellformed /\ [Next]_vars => ClaimStands'
<1> SUFFICES ASSUME Wellformed, [Next]_vars, NEW v \in Workers, worker'[v].pc = "claiming"
             PROVE  Claimable(job'[JobOf(v)'])
  BY DEF ClaimStands
<1>1. worker'[v] = worker[v] \/ WorkerStep(v) \/ Abandon(v)
  BY OneWorkerMoves
<1>2. CASE worker'[v] = worker[v]
  BY <1>2, ClaimedRowKept, JobOfKept DEF Holding
<1>3. CASE WorkerStep(v) \/ Abandon(v)
  <2>1. ClaimRow(v) /\ JobOf(v)' = JobOf(v)
    BY <1>3, LockTaken, JobOfKept
  <2>2. QED
    BY <2>1 DEF ClaimRow, database
<1>4. QED
  BY <1>1, <1>2, <1>3

------------------------------------------------------------------------------
(* The theorems *)

\* The strengthened invariant holds in every reachable state, whatever the
\* numbers of jobs, messages, workers, calls and attempts.
THEOREM WellformedHolds == Spec => []Wellformed
<1>1. Init => Wellformed
  <2> SUFFICES ASSUME Init PROVE Wellformed
    OBVIOUS
  <2>1. \A w \in Workers : worker[w] = Idle
    BY DEF Init
  <2>2. \A w \in Workers : worker[w].pc = "idle" /\ worker[w].attempt = 0 /\ ~worker[w].seenDoc.deleted
    BY <2>1 DEF Idle, UploadedDocument
  <2>3. HeldMessageIsSent /\ OpIsNamed /\ AttemptFollowsClaim /\ SeenIsAlive
        /\ LocksAreExclusive /\ ClaimStands
    BY <2>2 DEF HeldMessageIsSent, OpIsNamed, AttemptFollowsClaim, SeenIsAlive,
       LocksAreExclusive, ClaimStands, Holding, Claiming, Owning, HoldsRow
  <2>4. SentMessageHasJob
    BY DEF Init, SentMessageHasJob
  <2>5. QED
    BY <2>3, <2>4, TypeInit DEF Wellformed
<1>2. Wellformed /\ [Next]_vars => Wellformed'
  BY TypeStep, HeldStep, SentStep, OwnStep, SeenStep, LockStep, StandsStep DEF Wellformed
<1>3. QED
  BY <1>1, <1>2, PTL DEF Spec

\* Every row, message and local variable keeps to its type; with it no job
\* has more attempts than MaxAttempts, although the limit is checked when the
\* row is locked and the counter written when the claim commits.
THEOREM TypeCorrect == Spec => []TypeOK
<1>1. Wellformed => TypeOK
  BY DEF Wellformed
<1>2. QED
  BY <1>1, WellformedHolds, PTL

==============================================================================
