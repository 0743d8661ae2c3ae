--------------------------- MODULE DocumentPipeline ---------------------------
(***************************************************************************)
(* The life of ONE document: dispatch requests, the SQS processing queue,  *)
(* the document workers, the object store and deletion.  No operation of   *)
(* the pipeline reads another document's rows or objects, so one is enough.*)
(*                                                                         *)
(* A database transaction is split where PostgreSQL's READ COMMITTED lets  *)
(* another one in: a row is read in one step and written in a later one,   *)
(* and what makes a statement wait is a row lock.  An UPDATE of a documents*)
(* row is always the last statement of its transaction, so its lock is held*)
(* for the step that also commits; the locks that outlast a step are those *)
(* on job rows and page rows, and the share a new page row takes of the    *)
(* documents row it refers to.                                             *)
(***************************************************************************)
EXTENDS JobRepository, DocumentRepository, FiniteSets

CONSTANTS
    Jobs,         \* idempotency keys; a key names at most one job row
    Messages,     \* queue messages that may ever be sent
    Workers,      \* worker processes
    Requests,     \* POST .../process calls
    Deletions,    \* deletions: a user's, or the retention worker's
    RedriveMax,   \* maxReceiveCount of the queue and the worker's copy of it
    NoJob, NoMessage, NoPages

ASSUME RedriveAssumption == RedriveMax \in Nat \ {0}
ASSUME NullAssumption ==
    /\ NoJob \notin Jobs /\ NoMessage \notin Messages
    /\ NoPages \notin Jobs \cup [job : Jobs, attempt : 1..MaxAttempts]

VARIABLES
    document,  \* the documents row
    job,       \* the processing_jobs rows, by idempotency key
    pages,     \* the claim whose text the document_pages rows hold
    objects,   \* the document's objects in the bucket
    purging,   \* has a deletion begun to remove objects? (history)
    message,   \* the queue
    worker,    \* what each worker process holds in its locals
    request,   \* what each dispatch call holds
    deletion   \* what each deletion holds

vars == <<document, job, pages, objects, purging, message, worker, request,
          deletion>>
database == <<document, job, pages>>
storage == <<objects, purging>>
callers == <<request, deletion>>

------------------------------------------------------------------------------
(* Types and initial state *)

WorkerPc == {"idle", "received", "claiming", "loading", "reading", "copying",
             "clearing", "exhausting", "begin", "paging", "updating",
             "committing", "releasing", "acking"}

\* count: receive count of the delivery held; attempt: attempt_count of the
\* claim; source, promoted: source_key and promoted in _run_once; op: the
\* transaction it is in; seenJob, seenDoc: the rows its session has loaded.
WorkerLocals ==
    [pc : WorkerPc, msg : Messages \cup {NoMessage}, count : 0..RedriveMax,
     attempt : 0..MaxAttempts, source : StorageKey, promoted : BOOLEAN,
     op : JobOp \cup {"none"}, seenJob : JobStatus \cup {"absent"},
     seenDoc : DocumentRow]

Idle == [pc |-> "idle", msg |-> NoMessage, count |-> 0, attempt |-> 0,
         source |-> "quarantine", promoted |-> FALSE, op |-> "none",
         seenJob |-> "absent", seenDoc |-> UploadedDocument]

MessageRow == [state : {"unsent", "visible", "inflight", "dead", "deleted"},
               job : Jobs \cup {NoJob}, receives : 0..RedriveMax]

RequestLocals == [pc : {"start", "saving", "sending", "done"},
                  job : Jobs \cup {NoJob}]

\* The rows of one _complete call; only one can commit for a given claim.
PageRows == [job : Jobs, attempt : 1..MaxAttempts] \cup {NoPages}

\* sawPages, sawJobs: the rows its two DELETE statements found.
DeletionLocals ==
    [pc : {"start", "quarantine", "validated", "purge", "jobs", "locking",
           "marking", "done"},
     sawPages : PageRows, sawJobs : SUBSET Jobs]
NotDeleting(pc) == [pc |-> pc, sawPages |-> NoPages, sawJobs |-> {}]

TypeOK ==
    /\ document \in DocumentRow
    /\ job \in [Jobs -> JobRow]
    /\ pages \in PageRows
    /\ objects \subseteq {"quarantine", "validated"}
    /\ purging \in BOOLEAN
    /\ message \in [Messages -> MessageRow]
    /\ worker \in [Workers -> WorkerLocals]
    /\ request \in [Requests -> RequestLocals]
    /\ deletion \in [Deletions -> DeletionLocals]

Init ==
    /\ document = UploadedDocument
    /\ job = [j \in Jobs |-> NoRow]
    /\ pages = NoPages
    /\ objects = {"quarantine"}
    /\ purging = FALSE
    /\ message = [m \in Messages |->
                     [state |-> "unsent", job |-> NoJob, receives |-> 0]]
    /\ worker = [w \in Workers |-> Idle]
    /\ request = [r \in Requests |-> [pc |-> "start", job |-> NoJob]]
    /\ deletion = [d \in Deletions |-> NotDeleting("start")]

JobOf(w) == message[worker[w].msg].job

\* The worker's transaction has updated its job row and not yet committed.
HoldsRow(w) ==
    \/ worker[w].pc = "claiming"
    \/ /\ worker[w].pc = "committing"
       /\ Updates(worker[w].op, worker[w].seenJob)

\* A deletion has deleted the job's row and not yet committed.
Purges(d, j) == deletion[d].pc = "marking" /\ j \in deletion[d].sawJobs

RowLocked(j) == \/ \E w \in Workers : HoldsRow(w) /\ JobOf(w) = j
                \/ \E d \in Deletions : Purges(d, j)

\* The worker's _complete has inserted page rows and not yet committed.  Each
\* refers to the documents row and shares its key: FOR KEY SHARE.
SharesKey(w) == /\ worker[w].op = "complete"
                /\ worker[w].pc \in {"updating", "committing"}

------------------------------------------------------------------------------
(* SQS: at-least-once delivery with a visibility timeout and a DLQ *)

\* A worker died, its heartbeat failed, or its message was let go.
VisibilityExpires(m) ==
    /\ message[m].state = "inflight"
    /\ message' = [message EXCEPT ![m].state = "visible"]
    /\ UNCHANGED <<database, storage, worker, callers>>

\* Received RedriveMax times and visible again: to the dead-letter queue.
Redrive(m) ==
    /\ message[m].state = "visible"
    /\ message[m].receives = RedriveMax
    /\ message' = [message EXCEPT ![m].state = "dead"]
    /\ UNCHANGED <<database, storage, worker, callers>>

\* started_at falls behind the lease.
ClaimGoesStale(j) ==
    /\ job[j].status = "processing"
    /\ ~job[j].stale
    /\ job' = [job EXCEPT ![j].stale = TRUE]
    /\ UNCHANGED <<document, pages, storage, message, worker, callers>>

------------------------------------------------------------------------------
(* dispatch_processing_job *)

\* The document and the job under the caller's key are read (and once more by
\* reserve, in the same transaction).  A new job needs a document still
\* quarantined under its quarantine key.
DispatchRead(r, j) ==
    /\ request[r].pc = "start"
    /\ request' = [request EXCEPT ![r] =
           [pc |-> IF document.deleted THEN "done"
                   ELSE IF Exists(job[j]) THEN "sending"
                   ELSE IF /\ document.status = "quarantined"
                           /\ document.key = "quarantine"
                        THEN "saving" ELSE "done",
            job |-> j]]
    /\ UNCHANGED <<database, storage, message, worker, deletion>>

\* The job is inserted, unless the unique key says that another call was
\* first, and the document's status assigned; commit.  What was read of the
\* document is not looked at again.  A row under the same key that is being
\* deleted is waited for.
DispatchSave(r) ==
    /\ request[r].pc = "saving"
    /\ ~RowLocked(request[r].job)
    /\ LET j == request[r].job IN
       IF Exists(job[j]) THEN UNCHANGED <<job, document>>
       ELSE /\ job' = [job EXCEPT ![j] = NewRow]
            /\ document' = [document EXCEPT !.status = "queued"]
    /\ request' = [request EXCEPT ![r].pc = "sending"]
    /\ UNCHANGED <<pages, storage, message, worker, deletion>>

\* The send; the audit commit after it changes nothing modelled here.
DispatchSend(r, m) ==
    /\ request[r].pc = "sending"
    /\ message[m].state = "unsent"
    /\ message' = [message EXCEPT ![m] =
           [state |-> "visible", job |-> request[r].job, receives |-> 0]]
    /\ request' = [request EXCEPT ![r].pc = "done"]
    /\ UNCHANGED <<database, storage, worker, deletion>>

\* A database error, a queue error or the death of the API process.
DispatchAbort(r) ==
    /\ request[r].pc \in {"saving", "sending"}
    /\ request' = [request EXCEPT ![r].pc = "done"]
    /\ UNCHANGED <<database, storage, message, worker, deletion>>

------------------------------------------------------------------------------
(* DocumentWorker: receive and claim *)

ExhaustedDelivery(w) == worker[w].count >= RedriveMax

Receive(w, m) ==
    /\ worker[w].pc = "idle"
    /\ message[m].state = "visible"
    /\ message[m].receives < RedriveMax
    /\ message' = [message EXCEPT ![m].state = "inflight", ![m].receives = @ + 1]
    /\ worker' = [worker EXCEPT ![w].pc = "received", ![w].msg = m,
                                ![w].count = message[m].receives + 1]
    /\ UNCHANGED <<database, storage, callers>>

\* No such job, or its document is deleted: TenantResourceNotFound.  The
\* message is put off, or let go at once on its last delivery.
ClaimUnknown(w) ==
    /\ worker[w].pc = "received"
    /\ \/ ~Exists(job[JobOf(w)])
       \/ /\ Claimable(job[JobOf(w)])
          /\ ~RowLocked(JobOf(w))
          /\ document.deleted
    /\ worker' = [worker EXCEPT ![w] = IF ExhaustedDelivery(w)
                                       THEN [@ EXCEPT !.pc = "releasing"]
                                       ELSE Idle]
    /\ UNCHANGED <<database, storage, message, callers>>

\* The document is not queued: ValueError, the claim is rolled back and
\* nothing is told to the queue.
ClaimRefused(w) ==
    /\ worker[w].pc = "received"
    /\ Claimable(job[JobOf(w)])
    /\ ~RowLocked(JobOf(w))
    /\ ~document.deleted
    /\ ~ReadyForProcessing(document)
    /\ worker' = [worker EXCEPT ![w] = Idle]
    /\ UNCHANGED <<database, storage, message, callers>>

\* Slip: the document is left out of the claim.
ClaimRowBlind(w) ==
    /\ worker[w].pc = "received"
    /\ Claimable(job[JobOf(w)])
    /\ ~RowLocked(JobOf(w))
    /\ worker' = [worker EXCEPT ![w].pc = "claiming", ![w].seenDoc = document]
    /\ UNCHANGED <<database, storage, message, callers>>

\* Slip: a SELECT decides, and the UPDATE that follows does not.
ClaimRowUnlocked(w) ==
    /\ worker[w].pc = "received"
    /\ Claimable(job[JobOf(w)])
    /\ ~document.deleted
    /\ ReadyForProcessing(document)
    /\ worker' = [worker EXCEPT ![w].pc = "claiming", ![w].seenDoc = document]
    /\ UNCHANGED <<database, storage, message, callers>>

\* The conditional UPDATE takes the row lock, then the document is read.
ClaimRow(w) ==
    /\ worker[w].pc = "received"
    /\ Claimable(job[JobOf(w)])
    /\ ~RowLocked(JobOf(w))
    /\ ~document.deleted
    /\ ReadyForProcessing(document)
    /\ worker' = [worker EXCEPT ![w].pc = "claiming", ![w].seenDoc = document]
    /\ UNCHANGED <<database, storage, message, callers>>

\* Commit.  source_key starts as the quarantine key until the document loads.
ClaimCommit(w) ==
    /\ worker[w].pc = "claiming"
    /\ job' = [job EXCEPT ![JobOf(w)] = Claimed(@)]
    /\ document' = Flush(document, worker[w].seenDoc,
                         MarkProcessing(worker[w].seenDoc))
    /\ worker' = [worker EXCEPT ![w].pc = "loading",
                                ![w].attempt = job[JobOf(w)].attempts + 1]
    /\ UNCHANGED <<pages, storage, message, callers>>

\* The UPDATE matched nothing: the state of the row decides.
NotClaimed(w) ==
    /\ worker[w].pc = "received"
    /\ Exists(job[JobOf(w)])
    /\ ~Claimable(job[JobOf(w)])
    /\ LET state == UnclaimedState(job[JobOf(w)])
       IN  worker' = [worker EXCEPT ![w] =
             CASE state = "completed"   -> [@ EXCEPT !.pc = "acking"]
               [] state = "terminal"    -> [@ EXCEPT !.pc = "releasing"]
               [] state = "unavailable" -> Idle
               [] state = "exhausted" ->
                    [@ EXCEPT !.pc = IF job[JobOf(w)].status = "dead_lettered"
                                     THEN "releasing" ELSE "exhausting"]]
    /\ UNCHANGED <<database, storage, message, callers>>

\* An active job without attempts left is declared dead, with the storage key
\* of the document as it is now.  A document that is gone escapes run_once.
LoadForExhaustion(w) ==
    /\ worker[w].pc = "exhausting"
    /\ worker' = [worker EXCEPT ![w] =
           IF document.deleted \/ ~Exists(job[JobOf(w)]) THEN Idle
           ELSE [@ EXCEPT !.pc = "begin", !.op = "exhaust",
                          !.source = document.key]]
    /\ UNCHANGED <<database, storage, message, callers>>

------------------------------------------------------------------------------
(* DocumentWorker: read, process, promote.  A failure that is not permanent *)
(* goes to _schedule_retry.                                                 *)

\* Slips: the last attempt is taken one too early; the receive count is
\* forgotten.
RetryOpTooEarly(w) ==
    IF worker[w].attempt + 1 >= MaxAttempts \/ ExhaustedDelivery(w)
    THEN "exhaust" ELSE "retry"
RetryOpByAttempts(w) ==
    IF worker[w].attempt >= MaxAttempts THEN "exhaust" ELSE "retry"

\* The transaction _schedule_retry opens.
RetryOp(w) ==
    IF worker[w].attempt >= MaxAttempts \/ ExhaustedDelivery(w)
    THEN "exhaust" ELSE "retry"

\* w opens the transaction `op'.
Begin(w, op) == [worker EXCEPT ![w].pc = "begin", ![w].op = op,
                               ![w].seenJob = "absent",
                               ![w].seenDoc = UploadedDocument]

Load(w) ==
    /\ worker[w].pc = "loading"
    /\ Exists(job[JobOf(w)])
    /\ ~document.deleted
    /\ worker' = [worker EXCEPT ![w].pc = "reading",
                                ![w].source = document.key,
                                ![w].promoted = (document.key = "validated"),
                                ![w].seenDoc = UploadedDocument]
    /\ UNCHANGED <<database, storage, message, callers>>

\* read and process succeed; an unpromoted document is promoted next.
Process(w) ==
    /\ worker[w].pc = "reading"
    /\ worker[w].source \in objects
    /\ worker' = IF worker[w].promoted THEN Begin(w, "complete")
                 ELSE [worker EXCEPT ![w].pc = "copying"]
    /\ UNCHANGED <<database, storage, message, callers>>

\* PermanentDocumentProcessingError.
ProcessRejects(w) ==
    /\ worker[w].pc = "reading"
    /\ worker[w].source \in objects
    /\ worker' = Begin(w, "fail")
    /\ UNCHANGED <<database, storage, message, callers>>

\* Slips: promote as a move that starts at the source; promote as an upload
\* of the bytes read.
CopyByMoving(w) ==
    /\ worker[w].pc = "copying"
    /\ "quarantine" \in objects
    /\ objects' = objects \ {"quarantine"}
    /\ worker' = [worker EXCEPT ![w].pc = "clearing"]
    /\ UNCHANGED <<database, purging, message, callers>>
CopyByUpload(w) ==
    /\ worker[w].pc = "copying"
    /\ objects' = objects \cup {"validated"}
    /\ worker' = [worker EXCEPT ![w].pc = "clearing"]
    /\ UNCHANGED <<database, purging, message, callers>>

\* promote, first half: the copy.
Copy(w) ==
    /\ worker[w].pc = "copying"
    /\ "quarantine" \in objects
    /\ objects' = objects \cup {"validated"}
    /\ worker' = [worker EXCEPT ![w].pc = "clearing"]
    /\ UNCHANGED <<database, purging, message, callers>>

\* promote, second half: the source is deleted.
Clear(w) ==
    /\ worker[w].pc = "clearing"
    /\ objects' = objects \ {"quarantine"}
    /\ worker' = [Begin(w, "complete") EXCEPT ![w].promoted = TRUE]
    /\ UNCHANGED <<database, purging, message, callers>>

\* Slip: promoted is set before promote is called.
StepFailsPromoted(w) ==
    /\ worker[w].pc \in {"loading", "reading", "copying", "clearing"}
    /\ UNCHANGED objects
    /\ worker' = [Begin(w, RetryOp(w)) EXCEPT
           ![w].promoted = @ \/ worker[w].pc \in {"copying", "clearing"}]
    /\ UNCHANGED <<database, purging, message, callers>>

\* An error from the database, the store or the workflow.  The store may have
\* done what was asked before the error reached the worker; `promoted' does
\* not learn of it.
StepFails(w) ==
    /\ worker[w].pc \in {"loading", "reading", "copying", "clearing"}
    /\ \/ UNCHANGED objects
       \/ /\ worker[w].pc = "copying" /\ "quarantine" \in objects
          /\ objects' = objects \cup {"validated"}
       \/ /\ worker[w].pc = "clearing"
          /\ objects' = objects \ {"quarantine"}
    /\ worker' = Begin(w, RetryOp(w))
    /\ UNCHANGED <<database, purging, message, callers>>

------------------------------------------------------------------------------
(* DocumentWorker: the recording transactions, _complete, _record_retry,    *)
(* _record_retry_exhausted and _record_permanent_failure                    *)

\* The storage key a recording transaction passes on.
RecordedKey(w) == IF worker[w].promoted THEN "validated" ELSE worker[w].source

\* Another _complete has written page rows and not committed: inserting the
\* same page numbers waits for it.  So does replacing rows that a deletion
\* has deleted.
PagesLocked(w) ==
    \/ \E v \in Workers \ {w} : SharesKey(v)
    \/ \E d \in Deletions : /\ deletion[d].pc \in {"locking", "marking"}
                            /\ deletion[d].sawPages = pages
                            /\ pages # NoPages

\* Slip: a recording that fails is tried again at once.
RecordFailedAgain(w) ==
    IF worker[w].op = "complete" THEN Begin(w, RetryOp(w))
                                 ELSE Begin(w, worker[w].op)

\* What fails in _complete goes to _schedule_retry; what fails in the others
\* is a WorkerExecutionError that leaves the message where it is.
RecordFailed(w) ==
    IF worker[w].op = "complete" THEN Begin(w, RetryOp(w))
                                 ELSE [worker EXCEPT ![w] = Idle]

\* _complete: resolve_worker_tenant, and the document is loaded.
CompleteLoad(w) ==
    /\ worker[w].pc = "begin" /\ worker[w].op = "complete"
    /\ worker' = IF document.deleted \/ ~Exists(job[JobOf(w)])
                 THEN RecordFailed(w)
                 ELSE [worker EXCEPT ![w].pc = "paging", ![w].seenDoc = document]
    /\ UNCHANGED <<database, storage, message, callers>>

\* The read of the job.  _complete has by then replaced the page rows, the
\* others have just resolved the tenant.
RecordRead(w) ==
    /\ IF worker[w].op = "complete" THEN worker[w].pc = "paging" /\ ~PagesLocked(w)
                                    ELSE worker[w].pc = "begin"
    /\ LET status == job[JobOf(w)].status IN
       worker' =
         IF status = "absent" \/ Conflicts(worker[w].op, status)
         THEN RecordFailed(w)
         ELSE [worker EXCEPT ![w].pc = "updating", ![w].seenJob = status]
    /\ UNCHANGED <<database, storage, message, callers>>

\* Slip: the document is loaded before the job row is locked.
RecordUpdateUnlocked(w) ==
    /\ worker[w].pc = "updating"
    /\ worker' = IF document.deleted THEN RecordFailed(w)
                 ELSE [worker EXCEPT ![w].pc = "committing",
                          ![w].seenDoc = IF worker[w].op = "complete" THEN @
                                         ELSE document]
    /\ UNCHANGED <<database, storage, message, callers>>

\* The flush of the job takes its row lock; a row deleted since is a
\* StaleDataError.  Then the document is required, and loaded unless the
\* session holds it already.
RecordUpdate(w) ==
    /\ worker[w].pc = "updating"
    /\ Updates(worker[w].op, worker[w].seenJob) => ~RowLocked(JobOf(w))
    /\ worker' =
         IF \/ document.deleted
            \/ /\ Updates(worker[w].op, worker[w].seenJob)
               /\ ~Exists(job[JobOf(w)])
         THEN RecordFailed(w)
         ELSE [worker EXCEPT ![w].pc = "committing",
                  ![w].seenDoc = IF worker[w].op = "complete" THEN @ ELSE document]
    /\ UNCHANGED <<database, storage, message, callers>>

\* What is left to do is a call to the queue.
Delivery(w, pc) == [Idle EXCEPT !.pc = pc, !.msg = worker[w].msg,
                                !.count = worker[w].count]

\* The document as the transaction leaves it in its session.
Recorded(w) ==
    Marked(worker[w].op, worker[w].seenDoc,
           IF worker[w].op = "complete" THEN "validated" ELSE RecordedKey(w))

\* storage_key is unique: an UPDATE of it is FOR UPDATE, and waits for those
\* who share the key of the row.
AwaitsDocument(w) ==
    /\ worker[w].pc = "committing"
    /\ Recorded(w).key # worker[w].seenDoc.key
    /\ \E v \in Workers \ {w} : SharesKey(v)

\* The document is flushed and the transaction commits.  A retry's visibility
\* delay leaves the message in flight.  The answer to a commit may be lost,
\* and a completion that is on record is then treated as one that failed.
RecordCommit(w) ==
    LET op == worker[w].op
        j  == JobOf(w)
    IN
    /\ worker[w].pc = "committing"
    /\ ~AwaitsDocument(w)
    /\ job' = [job EXCEPT ![j] = Updated(op, worker[w].seenJob, @)]
    /\ document' = Flush(document, worker[w].seenDoc, Recorded(w))
    /\ pages' = IF op = "complete"
                THEN [job |-> j, attempt |-> worker[w].attempt] ELSE pages
    /\ \/ worker' = [worker EXCEPT ![w] =
              CASE op = "complete" -> Delivery(w, "acking")
                [] op = "retry"    -> Idle
                [] OTHER           -> Delivery(w, "releasing")]
       \/ op = "complete" /\ worker' = Begin(w, RetryOp(w))
    /\ UNCHANGED <<storage, message, callers>>

\* A database error while recording a completion.
CompleteFails(w) ==
    /\ worker[w].op = "complete"
    /\ worker[w].pc \in {"begin", "paging", "updating", "committing"}
    /\ worker' = Begin(w, RetryOp(w))
    /\ UNCHANGED <<database, storage, message, callers>>

------------------------------------------------------------------------------
(* DocumentWorker: the last call to the queue *)

\* The receipt handle of the latest delivery.
ReceiptIsLatest(w) == message[worker[w].msg].receives = worker[w].count

\* change_message_visibility to 0; an old receipt has no hold on the message.
Release(w) ==
    LET m == worker[w].msg IN
    /\ worker[w].pc = "releasing"
    /\ message' = IF ReceiptIsLatest(w) /\ message[m].state = "inflight"
                  THEN [message EXCEPT ![m].state = "visible"] ELSE message
    /\ worker' = [worker EXCEPT ![w] = Idle]
    /\ UNCHANGED <<database, storage, callers>>

\* delete_message; SQS may or may not honour an old receipt.
Acknowledge(w) ==
    LET m == worker[w].msg IN
    /\ worker[w].pc = "acking"
    /\ \/ /\ message[m].state \in {"visible", "inflight"}
          /\ message' = [message EXCEPT ![m].state = "deleted"]
       \/ /\ ~ReceiptIsLatest(w) \/ message[m].state \in {"dead", "deleted"}
          /\ UNCHANGED message
    /\ worker' = [worker EXCEPT ![w] = Idle]
    /\ UNCHANGED <<database, storage, callers>>

\* The process dies, run_once raises, or the last call to the queue fails:
\* an open transaction is rolled back and the locals are lost.
Abandon(w) ==
    /\ worker[w].pc # "idle"
    /\ worker' = [worker EXCEPT ![w] = Idle]
    /\ UNCHANGED <<database, storage, message, callers>>

------------------------------------------------------------------------------
(* DocumentDeletionService.delete, for a user or for the retention worker *)

\* The document and its active jobs are read; no lock is kept on them.
DeleteCheck(d) ==
    /\ deletion[d].pc = "start"
    /\ deletion' = [deletion EXCEPT ![d].pc =
           IF document.deleted \/ \E j \in Jobs : job[j].status \in ActiveStatus
           THEN "done" ELSE "quarantine"]
    /\ UNCHANGED <<database, storage, message, worker, request>>

DeleteQuarantined(d) ==
    /\ deletion[d].pc = "quarantine"
    /\ objects' = objects \ {"quarantine"}
    /\ purging' = TRUE
    /\ deletion' = [deletion EXCEPT ![d].pc = "validated"]
    /\ UNCHANGED <<database, message, worker, request>>

DeleteValidated(d) ==
    /\ deletion[d].pc = "validated"
    /\ objects' = objects \ {"validated"}
    /\ purging' = TRUE
    /\ deletion' = [deletion EXCEPT ![d].pc = "purge"]
    /\ UNCHANGED <<database, message, worker, request>>

\* DELETE FROM document_pages finds the rows committed by now.
PurgePages(d) ==
    /\ deletion[d].pc = "purge"
    /\ deletion' = [deletion EXCEPT ![d].pc = "jobs", ![d].sawPages = pages]
    /\ UNCHANGED <<database, storage, message, worker, request>>

\* Rows that a _complete is replacing have been waited for, and DELETE FROM
\* processing_jobs finds the jobs committed by now.
PurgeJobs(d) ==
    /\ deletion[d].pc = "jobs"
    /\ deletion[d].sawPages = pages /\ pages # NoPages
           => \A w \in Workers : ~SharesKey(w)
    /\ deletion' = [deletion EXCEPT ![d].pc = "locking",
                                    ![d].sawJobs = {j \in Jobs : Exists(job[j])}]
    /\ UNCHANGED <<database, storage, message, worker, request>>

\* Row by row it waits for the locks; a job saved since is none of its rows.
LockJobs(d) ==
    /\ deletion[d].pc = "locking"
    /\ \A j \in deletion[d].sawJobs : ~RowLocked(j)
    /\ deletion' = [deletion EXCEPT ![d].pc = "marking"]
    /\ UNCHANGED <<database, storage, message, worker, request>>

\* The rows d has deleted are gone, for another deletion that has found them
\* too, and the document is a tombstone, whatever became of it since d read it.
Tombstone(d) ==
    LET found == deletion[d].sawJobs IN
    /\ job' = [j \in Jobs |-> IF j \in found THEN NoRow ELSE job[j]]
    /\ pages' = IF pages = deletion[d].sawPages THEN NoPages ELSE pages
    /\ document' = MarkDeleted(document)
    /\ deletion' = [e \in Deletions |->
           IF e = d THEN NotDeleting("done")
                    ELSE [deletion[e] EXCEPT !.sawJobs = @ \ found]]

\* Slip: as if page rows had no foreign key to the documents row.
DeleteCommitUnshared(d) ==
    /\ deletion[d].pc = "marking"
    /\ Tombstone(d)
    /\ UNCHANGED <<storage, message, worker, request>>

\* mark_deleted replaces the storage key, so it waits for those who share the
\* row; commit.
DeleteCommit(d) ==
    /\ deletion[d].pc = "marking"
    /\ \A w \in Workers : ~SharesKey(w)
    /\ Tombstone(d)
    /\ UNCHANGED <<storage, message, worker, request>>

\* A storage or database error: the transaction is rolled back, the objects
\* already removed are not.
DeleteAbort(d) ==
    /\ deletion[d].pc \notin {"start", "done"}
    /\ deletion' = [deletion EXCEPT ![d] = NotDeleting("done")]
    /\ UNCHANGED <<database, storage, message, worker, request>>

------------------------------------------------------------------------------
(* PostgreSQL: transactions that wait for each other *)

\* w's _complete shares the documents row and waits for the row of its job.
AwaitsJob(w) ==
    /\ worker[w].pc = "updating" /\ SharesKey(w)
    /\ Updates("complete", worker[w].seenJob)

\* The row is held by v, which waits for the documents row; or by a deletion,
\* which does so too.
DeadlockedWith(w, v) == /\ AwaitsJob(w) /\ AwaitsDocument(v) /\ HoldsRow(v)
                        /\ JobOf(v) = JobOf(w)
DeadlockedByDeletion(w, d) == AwaitsJob(w) /\ Purges(d, JobOf(w))

\* After deadlock_timeout one of the two statements is made to fail.
BreakDeadlock(w) ==
    \/ /\ \E v \in Workers : DeadlockedWith(w, v)
       /\ \E v \in Workers : /\ v = w \/ DeadlockedWith(w, v)
                             /\ worker' = RecordFailed(v)
       /\ UNCHANGED <<database, storage, message, callers>>
    \/ \E d \in Deletions :
          /\ DeadlockedByDeletion(w, d)
          /\ \/ /\ worker' = RecordFailed(w)
                /\ UNCHANGED <<database, storage, message, callers>>
             \/ DeleteAbort(d)

------------------------------------------------------------------------------
(* The specification *)

\* What a worker does of its own accord.
WorkerProgress(w) ==
    \/ \E m \in Messages : Receive(w, m)
    \/ ClaimUnknown(w) \/ ClaimRefused(w) \/ ClaimRow(w) \/ ClaimCommit(w)
    \/ NotClaimed(w) \/ LoadForExhaustion(w)
    \/ Load(w) \/ Process(w) \/ ProcessRejects(w) \/ Copy(w) \/ Clear(w)
    \/ StepFails(w)
    \/ CompleteLoad(w) \/ RecordRead(w) \/ RecordUpdate(w) \/ RecordCommit(w)
    \/ Release(w) \/ Acknowledge(w)

WorkerStep(w) == WorkerProgress(w) \/ CompleteFails(w)

RequestStep(r) ==
    \/ \E j \in Jobs : DispatchRead(r, j)
    \/ DispatchSave(r)
    \/ \E m \in Messages : DispatchSend(r, m)
    \/ DispatchAbort(r)

\* What a deletion does once it has begun.
DeletionProgress(d) ==
    \/ DeleteQuarantined(d) \/ DeleteValidated(d)
    \/ PurgePages(d) \/ PurgeJobs(d) \/ LockJobs(d) \/ DeleteCommit(d)

DeletionStep(d) == DeleteCheck(d) \/ DeletionProgress(d) \/ DeleteAbort(d)

Next ==
    \/ \E m \in Messages : VisibilityExpires(m) \/ Redrive(m)
    \/ \E j \in Jobs : ClaimGoesStale(j)
    \/ \E w \in Workers : WorkerStep(w) \/ BreakDeadlock(w) \/ Abandon(w)
    \/ \E r \in Requests : RequestStep(r)
    \/ \E d \in Deletions : DeletionStep(d)

Spec == Init /\ [][Next]_vars

------------------------------------------------------------------------------
(* Safety *)

\* Two workers never hold the same claim of a job: with the attempt number
\* the conditional UPDATE hands out, every claim has one owner, even after a
\* lease has lapsed and another worker has taken over.
ClaimsAreExclusive ==
    \A v, w \in Workers :
        /\ v # w
        /\ worker[v].attempt > 0
        /\ worker[w].attempt > 0
        /\ JobOf(v) = JobOf(w)
        => worker[v].attempt # worker[w].attempt

\* A message leaves the queue for good only when the text and result of its
\* document are saved (or were, and the document has been deleted).
AcknowledgedWorkIsSaved ==
    \A m \in Messages : message[m].state = "deleted" =>
        pages # NoPages \/ document.deleted

\* Whatever fails in a promotion, and whoever promotes at the same time, one
\* copy of the upload survives until a deletion starts to remove objects.
UploadIsNeverLost == objects = {} => purging

\* A document said to be at its validated key is there: the download link
\* the API signs for it never dangles, unless a deletion has got in between.
ValidatedKeyIsBacked ==
    document.key = "validated" => "validated" \in objects \/ purging

\* A worker that is still promoting cannot bring an object back after a
\* deletion: a tombstone has no object in the bucket.
DeletionLeavesNoObject == document.deleted => objects = {}

\* A job is declared dead only when its attempts are used up or a message of
\* it has been received for the last time.
DeadLetterIsEarned ==
    \A j \in Jobs : job[j].status = "dead_lettered" =>
        \/ job[j].attempts = MaxAttempts
        \/ \E m \in Messages : message[m].job = j
                               /\ message[m].receives = RedriveMax

Counterpart == [absent |-> "quarantined", queued |-> "queued",
                processing |-> "processing", completed |-> "completed",
                failed |-> "failed", dead_lettered |-> "failed"]

\* With one key, so one job, and at most two workers, the two rows never tell
\* different stories, however their transactions interleave: the document has
\* the counterpart of its job's status, or has been completed by it.  A third
\* worker can part them for good (README, section 5).
DocumentFollowsJob ==
    \A j \in Jobs :
        \/ document.deleted
        \/ document.status = Counterpart[job[j].status]
        \/ document.status = "completed" /\ Exists(job[j])

------------------------------------------------------------------------------
(* Action properties *)

\* No claim brings back a job that has been settled, whichever transaction
\* was under way when the claim was attempted.
SettledJobIsNotClaimed ==
    [][\A j \in Jobs : job[j].status \in SettledStatus =>
           job'[j].status # "processing"]_vars

\* A claim, a dispatch or a retry that overlaps a deletion may still write a
\* status, but no result comes after it: text is not stored for a deleted
\* document, and no job of it is completed, whoever was about to record one.
TombstoneTakesNoResult ==
    [][document.deleted =>
           /\ pages' \in {pages, NoPages}
           /\ \A j \in Jobs : job'[j].status = "completed"
                               => job[j].status = "completed"]_vars

------------------------------------------------------------------------------
(* Refinement *)

\* The claim a worker has in its locals, as a ticket.
TicketOf(w) == IF worker[w].attempt = 0 THEN NoPages
               ELSE [job |-> JobOf(w), attempt |-> worker[w].attempt]

Tickets == INSTANCE ClaimTickets WITH
    None      <- NoPages,
    given     <- [j \in Jobs |-> job[j].attempts],
    holds     <- [w \in Workers |-> TicketOf(w)],
    published <- pages,
    asked     <- [w \in Workers |-> IF worker[w].pc = "claiming" THEN JobOf(w)
                                    ELSE NoPages],
    closed    <- document.deleted

\* Leases, redeliveries, late recordings and lost answers notwithstanding, the
\* conditional UPDATE and the row locks come to this: numbered claims, each
\* given out once and at most MaxAttempts for a job, none asked for after a
\* deletion, and page text that was written by the owner of the claim it is
\* filed under.
ImplementsClaimTickets == Tickets!Spec

------------------------------------------------------------------------------
(* Liveness *)

Unattended(m) == \A w \in Workers : worker[w].msg # m

\* The worker loop never stops polling or stepping; SQS returns a message
\* whose heartbeat has ended and moves a spent one; a deletion that has begun
\* goes on; PostgreSQL looks for deadlocks.  Callers, crashes and the clock
\* owe nothing.
Fairness ==
    /\ \A w \in Workers : WF_vars(WorkerProgress(w) \/ BreakDeadlock(w))
    /\ \A d \in Deletions : WF_vars(DeletionProgress(d))
    /\ \A m \in Messages :
           WF_vars((VisibilityExpires(m) /\ Unattended(m)) \/ Redrive(m))

\* However transactions wait for each other, a worker that has taken a message
\* gets back to the queue, with no help but PostgreSQL's: a statement that was
\* made to fail does not lead into the same wait for ever.
WorkersComeBack ==
    \A w \in Workers : worker[w].pc # "idle" ~> worker[w].pc = "idle"

\* Errors that leave run_once and do no harm: a claim that fails while there
\* is another delivery to come, and a last call to the queue that fails.
HarmlessError(w) ==
    /\ \/ worker[w].pc \in {"received", "claiming"} /\ ~ExhaustedDelivery(w)
       \/ worker[w].pc \in {"releasing", "acking"}
    /\ Abandon(w)

\* As Next, while no process dies, every heartbeat gets through, and no error
\* but a deadlock hits a claim of the last delivery, or what gives a job up or
\* records its retry or its failure.
CalmNext ==
    \/ \E m \in Messages : \/ VisibilityExpires(m) /\ Unattended(m)
                           \/ Redrive(m)
    \/ \E j \in Jobs : ClaimGoesStale(j)
    \/ \E w \in Workers : WorkerStep(w) \/ BreakDeadlock(w) \/ HarmlessError(w)
    \/ \E r \in Requests : RequestStep(r)
    \/ \E d \in Deletions : DeletionStep(d)

CalmSpec == Init /\ [][CalmNext]_vars /\ Fairness

\* In calm conditions a message that was sent gets its job settled or its
\* document completed or deleted in the end, whatever reading, processing,
\* promoting and completing run into and however often the claim changes hands.
DispatchedJobSettles ==
    \A m \in Messages, j \in Jobs :
        message[m].state = "visible" /\ message[m].job = j
            ~> \/ job[j].status \in SettledStatus
               \/ document.status = "completed" \/ document.deleted

------------------------------------------------------------------------------
(* Statements of the repository that the code does not keep *)

\* A job that is on record as completed stays so.
CompletedJobIsFinal ==
    [][\A j \in Jobs : job[j].status = "completed" =>
           job'[j].status \in {"completed", "absent"}]_vars

\* A deletion removes the extracted page text.
DeletionLeavesNoPages == document.deleted => pages = NoPages

==============================================================================
