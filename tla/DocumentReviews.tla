---------------------------- MODULE DocumentReviews ----------------------------
(***************************************************************************)
(* The reviewers' side of ONE document of the organization Owner: review   *)
(* decisions, download links and the document's detail, each in a          *)
(* transaction of its own, beside a dispatch, the worker that settles its  *)
(* job, and a deletion, which purges reviews before jobs.                  *)
(*                                                                         *)
(* PostgreSQL, READ COMMITTED: a statement sees what is committed when it  *)
(* starts.  The INSERT of a review takes a key-share lock on the documents *)
(* row and then one on its job row, in the order of the foreign keys.  A   *)
(* change of the documents row's storage key waits for the first, the      *)
(* DELETE of the job row for the second, and the other way round; ON       *)
(* DELETE RESTRICT makes the DELETE fail on a job with a review.           *)
(***************************************************************************)
EXTENDS ReviewerProvisioning, FiniteSets

CONSTANTS
    Reviews,    \* POST .../reviews calls
    Accesses,   \* POST .../access calls
    Details,    \* GET .../{document_id} calls
    Owner,      \* the organization of the document
    FirstJob, LateJob,  \* jobs of the document; the second is dispatched here
    ForeignJob, \* a job of another document of the organization
    MaxFaults   \* transactions of a deletion that fail (a bound)

ASSUME OwnerAssumption == Owner \in Organizations
ASSUME JobAssumption == FirstJob # LateJob /\ ForeignJob \notin {FirstJob, LateJob}
ASSUME CallAssumption ==
    Emails # {} /\ Reviews \cap Accesses = {} /\ MaxFaults \in Nat

Jobs == {FirstJob, LateJob}

VARIABLES
    document,  \* deleted_at is set; the storage key; its objects are there
    jobs,      \* the document's processing_jobs rows
    active,    \* those queued or processing
    saved,     \* the review calls whose row is there
    audited,   \* the calls whose audit event is committed
    review,    \* what each review call holds
    access,    \* the control state of each access call
    detail,    \* what each detail call holds
    dispatch,  \* the control state of the dispatch
    deletion,  \* what the deletion's transaction holds
    faults     \* transactions of the deletion that have failed

vars == <<provisioning, document, jobs, active, saved, audited, review, access,
          detail, dispatch, deletion, faults>>
rows == <<document, jobs, active, saved, audited>>
readers == <<access, detail>>
writers == <<dispatch, deletion, faults>>

ReviewLocals ==
    [pc : {"start", "checked", "waiting", "inserted", "done", "refused"},
     job : Jobs \cup {ForeignJob}, by : Emails]
DetailLocals ==
    [pc : {"start", "jobs", "reviews", "shown", "refused"},
     known : SUBSET Reviews, jobs : SUBSET Jobs, reviews : SUBSET Reviews]
DeletionLocals ==
    [pc : {"start", "erasing", "purging", "purgingJobs", "marking", "done"},
     reviews : SUBSET Reviews, jobs : SUBSET Jobs]

TypeOK ==
    /\ ProvisioningTypeOK
    /\ document \in [deleted : BOOLEAN, key : {"quarantine", "validated", "deleted"},
                     content : BOOLEAN]
    /\ jobs \subseteq Jobs /\ active \subseteq Jobs
    /\ saved \subseteq Reviews
    /\ audited \subseteq Reviews \cup Accesses
    /\ review \in [Reviews -> ReviewLocals]
    /\ access \in [Accesses -> {"start", "signed", "issued", "refused"}]
    /\ detail \in [Details -> DetailLocals]
    /\ dispatch \in {"start", "reading", "done"}
    /\ deletion \in DeletionLocals
    /\ faults \in 0..MaxFaults

\* What a call holds before it has read anything, and after it was refused.
NoReview(pc) == [pc |-> pc, job |-> ForeignJob, by |-> CHOOSE e \in Emails : TRUE]
NoDetail(pc) == [pc |-> pc, known |-> {}, jobs |-> {}, reviews |-> {}]
NoDeletion(pc) == [pc |-> pc, reviews |-> {}, jobs |-> {}]

\* The document is just uploaded, or has been processed by its first job.
Init ==
    /\ ProvisioningInit
    /\ \/ jobs = {} /\ document = [deleted |-> FALSE, key |-> "quarantine", content |-> TRUE]
       \/ jobs = {FirstJob}
          /\ document = [deleted |-> FALSE, key |-> "validated", content |-> TRUE]
    /\ active = {} /\ saved = {} /\ audited = {}
    /\ review = [r \in Reviews |-> NoReview("start")]
    /\ access = [a \in Accesses |-> "start"]
    /\ detail = [v \in Details |-> NoDetail("start")]
    /\ dispatch = "start"
    /\ deletion = NoDeletion("start")
    /\ faults = 0

------------------------------------------------------------------------------
(* create_review *)

\* Slip: the organization of the reviewer is not asked for.
FoundAnywhere(e) == SignedIn(e) /\ ~document.deleted

\* TenantRepository._owned_statement, DocumentRepository.require
Found(e) == SignedIn(e) /\ pool[e] = Owner /\ ~document.deleted

\* Slip: the job's document_id is not compared.
ReviewReadAnyJob(r, e, j) ==
    /\ review[r].pc = "start"
    /\ review' = [review EXCEPT ![r] =
           IF Found(e) /\ j \in jobs \cup {ForeignJob}
           THEN [pc |-> "checked", job |-> j, by |-> e] ELSE NoReview("refused")]
    /\ UNCHANGED <<provisioning, rows, readers, writers>>

\* The document and the job are read; a client has a job's id from a request
\* that has committed it.
ReviewRead(r, e, j) ==
    /\ review[r].pc = "start"
    /\ review' = [review EXCEPT ![r] =
           IF Found(e) /\ j \in jobs
           THEN [pc |-> "checked", job |-> j, by |-> e] ELSE NoReview("refused")]
    /\ UNCHANGED <<provisioning, rows, readers, writers>>

\* The deletion has deleted the job row and not committed.
JobRowLocked(j) == deletion.pc = "marking" /\ j \in deletion.jobs

\* The review shares the key of the documents row until its transaction ends.
SharesDocument(r) == review[r].pc \in {"waiting", "inserted"}

\* INSERT: the foreign key to documents is satisfied, also by a tombstone; the
\* one to the job waits for the deletion of its row.
ReviewWait(r) ==
    /\ review[r].pc = "checked" /\ JobRowLocked(review[r].job)
    /\ review' = [review EXCEPT ![r].pc = "waiting"]
    /\ UNCHANGED <<provisioning, rows, readers, writers>>

\* INSERT, at once or after the wait: it is refused when the job has gone.  No
\* foreign key asks for the job's document.
ReviewInsert(r) ==
    /\ review[r].pc \in {"checked", "waiting"}
    /\ ~JobRowLocked(review[r].job)
    /\ review' = [review EXCEPT ![r] =
           IF review[r].job \in jobs \cup {ForeignJob} THEN [@ EXCEPT !.pc = "inserted"]
           ELSE NoReview("refused")]
    /\ UNCHANGED <<provisioning, rows, readers, writers>>

\* Slip: the event is appended in a transaction of its own.
ReviewCommitUnaudited(r) ==
    /\ review[r].pc = "inserted"
    /\ saved' = saved \cup {r}
    /\ audited' \in {audited, audited \cup {r}}
    /\ review' = [review EXCEPT ![r].pc = "done"]
    /\ UNCHANGED <<provisioning, document, jobs, active, readers, writers>>

\* The audit event is appended and get_db_session commits, or fails.
ReviewCommit(r) ==
    /\ review[r].pc = "inserted"
    /\ \/ /\ saved' = saved \cup {r} /\ audited' = audited \cup {r}
          /\ review' = [review EXCEPT ![r].pc = "done"]
       \/ /\ review' = [review EXCEPT ![r] = NoReview("refused")]
          /\ UNCHANGED <<saved, audited>>
    /\ UNCHANGED <<provisioning, document, jobs, active, readers, writers>>

------------------------------------------------------------------------------
(* create_document_access *)

\* The link is signed for the validated key.
AccessRead(a, e) ==
    /\ access[a] = "start"
    /\ access' = [access EXCEPT ![a] =
           IF Found(e) /\ document.key = "validated" THEN "signed" ELSE "refused"]
    /\ UNCHANGED <<provisioning, rows, review, detail, writers>>

\* The event is committed before the link is returned; a commit whose answer
\* is lost, like one that failed, returns none.
AccessCommit(a) ==
    /\ access[a] = "signed"
    /\ \/ /\ audited' = audited \cup {a}
          /\ access' = [access EXCEPT ![a] = "issued"]
       \/ /\ audited' \in {audited, audited \cup {a}}
          /\ access' = [access EXCEPT ![a] = "refused"]
    /\ UNCHANGED <<provisioning, document, jobs, active, saved, review, detail, writers>>

------------------------------------------------------------------------------
(* document_detail: three statements, each of which sees its own moment *)

DetailDocument(v, e) ==
    /\ detail[v].pc = "start"
    /\ detail' = [detail EXCEPT ![v] =
           IF Found(e) THEN [@ EXCEPT !.pc = "jobs", !.known = saved]
           ELSE NoDetail("refused")]
    /\ UNCHANGED <<provisioning, rows, review, access, writers>>

DetailJobs(v) ==
    /\ detail[v].pc = "jobs"
    /\ detail' = [detail EXCEPT ![v].pc = "reviews", ![v].jobs = jobs]
    /\ UNCHANGED <<provisioning, rows, review, access, writers>>

\* Slip: the document is not required again.
DetailReviewsUnasked(v) ==
    /\ detail[v].pc = "reviews"
    /\ detail' = [detail EXCEPT ![v].pc = "shown", ![v].reviews = saved]
    /\ UNCHANGED <<provisioning, rows, review, access, writers>>

\* ReviewDecisionRepository.list_for_document requires the document again.
DetailReviews(v) ==
    /\ detail[v].pc = "reviews"
    /\ detail' = [detail EXCEPT ![v] =
           IF document.deleted THEN NoDetail("refused")
           ELSE [@ EXCEPT !.pc = "shown", !.reviews = saved]]
    /\ UNCHANGED <<provisioning, rows, review, access, writers>>

------------------------------------------------------------------------------
(* The pipeline *)

DispatchRead ==
    /\ dispatch = "start"
    /\ ~document.deleted /\ document.key = "quarantine"
    /\ dispatch' = "reading"
    /\ UNCHANGED <<provisioning, rows, review, readers, deletion, faults>>

\* The job is inserted; what the read saw of the document may be past.
DispatchSave ==
    /\ dispatch = "reading"
    /\ jobs' = jobs \cup {LateJob} /\ active' = active \cup {LateJob}
    /\ dispatch' = "done"
    /\ UNCHANGED <<provisioning, document, saved, audited, review, readers, deletion, faults>>

\* A worker completes the job, or gives it up; no job of a tombstone is claimed.
\* A new storage key waits for the reviews that share the documents row.
Settle(j) ==
    /\ j \in active /\ ~document.deleted
    /\ active' = active \ {j}
    /\ \/ /\ document.content
          /\ document.key = "validated" \/ \A r \in Reviews : ~SharesDocument(r)
          /\ document' = [document EXCEPT !.key = "validated"]
       \/ UNCHANGED document
    /\ UNCHANGED <<provisioning, jobs, saved, audited, review, readers, writers>>

------------------------------------------------------------------------------
(* DocumentDeletionService.delete, begun again after a failure *)

\* A failed transaction is rolled back; the objects stay deleted.
DeletionRollsBack == deletion' = NoDeletion("start")

DeletionCheck ==
    /\ deletion.pc = "start"
    /\ ~document.deleted /\ active = {}
    /\ deletion' = NoDeletion("erasing")
    /\ UNCHANGED <<provisioning, rows, review, readers, dispatch, faults>>

DeletionErase ==
    /\ deletion.pc = "erasing"
    /\ document' = [document EXCEPT !.content = FALSE]
    /\ deletion' = NoDeletion("purging")
    /\ UNCHANGED <<provisioning, jobs, active, saved, audited, review, readers, dispatch, faults>>

\* Slip: the reviews are left to the foreign key.
PurgeNoReviews ==
    /\ deletion.pc = "purging"
    /\ deletion' = [deletion EXCEPT !.pc = "purgingJobs"]
    /\ UNCHANGED <<provisioning, rows, review, readers, dispatch, faults>>

PurgeReviews ==
    /\ deletion.pc = "purging"
    /\ deletion' = [deletion EXCEPT !.pc = "purgingJobs", !.reviews = saved]
    /\ UNCHANGED <<provisioning, rows, review, readers, dispatch, faults>>

\* Slip: the jobs are left to a later clean-up.
PurgeNoJobs ==
    /\ deletion.pc = "purgingJobs"
    /\ deletion' = [deletion EXCEPT !.pc = "marking"]
    /\ UNCHANGED <<provisioning, rows, review, readers, dispatch, faults>>

\* DELETE waits for reviews that have been inserted and not committed, and
\* fails on a job with a review that PurgeReviews did not see.
PurgeJobs ==
    /\ deletion.pc = "purgingJobs"
    /\ \A r \in Reviews : review[r].pc = "inserted" => review[r].job \notin jobs
    /\ IF \E r \in saved \ deletion.reviews : review[r].job \in jobs
       THEN DeletionRollsBack
       ELSE deletion' = [deletion EXCEPT !.pc = "marking", !.jobs = jobs]
    /\ UNCHANGED <<provisioning, rows, review, readers, dispatch, faults>>

\* Slip: the purge of the reviews is committed at once.
DeletionCommitOnlyMarks ==
    /\ deletion.pc = "marking"
    /\ saved' = saved \ deletion.reviews
    /\ deletion' = NoDeletion("start")
    /\ UNCHANGED <<provisioning, document, jobs, active, audited, review, readers, dispatch, faults>>

\* mark_deleted replaces the storage key, so it waits for the reviews that
\* share the row; the event is written; commit.
DeletionCommit ==
    /\ deletion.pc = "marking"
    /\ \A r \in Reviews : ~SharesDocument(r)
    /\ document' = [document EXCEPT !.deleted = TRUE, !.key = "deleted"]
    /\ saved' = saved \ deletion.reviews
    /\ jobs' = jobs \ deletion.jobs /\ active' = active \ deletion.jobs
    /\ deletion' = NoDeletion("done")
    /\ UNCHANGED <<provisioning, audited, review, readers, dispatch, faults>>

\* The review shares the documents row, for which the deletion waits, and waits
\* for a job row that the deletion has deleted: PostgreSQL makes one of the two
\* statements fail, and the other gets the row it waits for.
BreakDeadlock(r) ==
    /\ review[r].pc = "waiting" /\ JobRowLocked(review[r].job)
    /\ \/ review' = [review EXCEPT ![r] = NoReview("refused")] /\ UNCHANGED deletion
       \/ review' = [review EXCEPT ![r].pc = "inserted"] /\ DeletionRollsBack
    /\ UNCHANGED <<provisioning, rows, readers, dispatch, faults>>

\* A storage call, a statement or the commit fails, or the process dies.
DeletionFails ==
    /\ deletion.pc \notin {"start", "done"}
    /\ faults < MaxFaults
    /\ faults' = faults + 1
    /\ DeletionRollsBack
    /\ UNCHANGED <<provisioning, rows, review, readers, dispatch>>

DeletionStep ==
    DeletionCheck \/ DeletionErase \/ PurgeReviews \/ PurgeJobs \/ DeletionCommit

------------------------------------------------------------------------------

ProvisioningStep == ProvisioningNext /\ UNCHANGED <<rows, review, readers, writers>>

\* All calls have been answered, and the document is deleted.
Finished ==
    /\ document.deleted
    /\ \A r \in Reviews : review[r].pc \in {"done", "refused"}
    /\ \A a \in Accesses : access[a] \in {"issued", "refused"}
    /\ \A v \in Details : detail[v].pc \in {"shown", "refused"}
    /\ \A p \in Runs : run[p].pc \in {"done", "failed"}
    /\ UNCHANGED vars

Next ==
    \/ ProvisioningStep
    \/ \E r \in Reviews :
           \/ \E e \in Emails, j \in Jobs \cup {ForeignJob} : ReviewRead(r, e, j)
           \/ ReviewWait(r) \/ ReviewInsert(r) \/ ReviewCommit(r) \/ BreakDeadlock(r)
    \/ \E a \in Accesses : (\E e \in Emails : AccessRead(a, e)) \/ AccessCommit(a)
    \/ \E v \in Details :
           \/ \E e \in Emails : DetailDocument(v, e)
           \/ DetailJobs(v) \/ DetailReviews(v)
    \/ DispatchRead \/ DispatchSave \/ \E j \in Jobs : Settle(j)
    \/ DeletionStep \/ DeletionFails
    \/ Finished

\* A transaction that has begun ends, PostgreSQL looks for deadlocks, an active
\* job settles, and a deletion is asked for again until it is done, at the
\* latest by the retention runs.
Spec ==
    /\ Init /\ [][Next]_vars
    /\ \A r \in Reviews :
           /\ WF_vars(ReviewInsert(r) \/ BreakDeadlock(r))
           /\ WF_vars(ReviewCommit(r))
    /\ \A j \in Jobs : WF_vars(Settle(j))
    /\ WF_vars(DeletionStep)

------------------------------------------------------------------------------
(* Properties *)

\* A review that is there names a job of its own document, and the job is
\* there too, whatever a deletion does between its statements.
ReviewHasItsJob == \A r \in saved : review[r].job \in jobs

\* The only review a deleted document can have is one of a job that was
\* dispatched past the purge of its jobs; none of the reviews that were there
\* and none that was made during the deletion stays.
TombstoneKeepsNoReview ==
    document.deleted => \A r \in saved : review[r].job = LateJob

\* The audit history tells what happened: there is no review without its
\* event, no event without its review unless the document was deleted, and no
\* link left the service before its event was committed.
EffectsAreAudited ==
    /\ saved \subseteq audited
    /\ document.deleted \/ Reviews \cap audited = saved
    /\ \A a \in Accesses : access[a] = "issued" => a \in audited

\* A review that was saved goes only in the step that makes its document a
\* tombstone: no deletion that fails takes reviews with it.
ReviewGoesWithItsDocument ==
    [][saved \subseteq saved' \/ (~document.deleted /\ document'.deleted)]_vars

\* The reviewer of a saved review is a user of the document's organization.
ReviewStaysInTenant ==
    \A r \in saved : User(Owner, review[r].by) \in users

\* An answer of document_detail is not half of a deleted document: every
\* review that was there when the document was read is shown, with its job.
DetailIsWhole ==
    \A v \in Details : detail[v].pc = "shown" =>
        /\ detail[v].known \subseteq detail[v].reviews
        /\ \A r \in detail[v].known : review[r].job \in detail[v].jobs

\* A document whose content a deletion has removed becomes a tombstone, even
\* when that deletion failed or met a review.
ErasedDocumentIsDeleted == ~document.content ~> document.deleted

==============================================================================
