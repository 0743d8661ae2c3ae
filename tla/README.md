# InvoiceFlow AI in TLA+

InvoiceFlow AI takes invoices and payment e-mails, keeps them in a bucket, works
them through a queue and a set of agents, and shows the result to reviewers. The
modules here cover the four parts of it that carry its promises: the pipeline that
takes a document from its dispatch to an outcome, the workflow of agents that a worker runs
on it, the storage of its content from upload to retention, and the
reviewers' side with the deletion that ends it all. Source paths are relative to `src/`.

## 1. Inventory

| Component | State | Operations | Interacts with |
| --- | --- | --- | --- |
| Processing jobs (`app/db/repositories/jobs.py`) | `processing_jobs` row: status, attempt count, `started_at` | `reserve`, `claim`, `release_for_retry`, `mark_retry_exhausted`, `complete`, `mark_failed`, `purge_for_document` | dispatch, worker, deletion (shared row) |
| Documents (`app/db/repositories/documents.py`) | `documents` row: status, storage key, `deleted_at` | `create`, `mark_processing`, `mark_completed`, `mark_queued_for_retry`, `mark_failed`, `mark_deleted` | upload, dispatch, worker, deletion |
| Pages (`app/db/repositories/pages.py`) | `document_pages` rows, unique per (document, page number) | `replace_for_document`, `purge_for_document`, `search` | worker, deletion, search route |
| Dispatch (`app/processing/dispatch.py`) | one call's locals | read and check; save and commit; send; audit | API v2, jobs, documents, queue |
| Queue (`app/queue/`, `infra/terraform/queue.tf`) | messages, visibility, receive counts, DLQ | send, receive, delete, change visibility; redrive | dispatch, worker, heartbeat |
| Worker (`app/worker/service.py`) | one delivery's locals | `_run_once` and its transactions | everything above, object store, orchestrator |
| Heartbeat (`app/worker/visibility.py`) | a thread per delivery | renew visibility | queue |
| Lease and settings (`app/config.py`) | durations and limits | validation | worker, queue, `claim` |
| Object store (`app/storage/s3.py`, `infra/terraform/storage.tf`) | objects under the quarantine and validated keys | upload, read, promote, delete, presign; lifecycle rules | upload, worker, deletion |
| Quarantine upload (`api/v2.py`, `app/ingest/`) | one call's locals | read, validate, object, row, compensating delete | object store, documents |
| Retention run (`app/retention/service.py`) | a batch of candidates | `run_once` | deletion |
| Deletion (`app/retention/service.py`) | one call's locals | `delete` | objects, pages, reviews, jobs, documents |
| Reviews, links, details (`api/v2.py`, `app/db/repositories/`) | review and audit rows | `create_review`, `create_document_access`, `document_detail` | jobs, documents, deletion |
| Reviewers (`app/admin/provision_reviewer.py`, `app/auth/`) | pool user, `users` row | provisioning, `require_tenant` | every route |
| Orchestrator (`app/orchestrator/`) | one run's locals, gate, audit trail | stage, read, extract, route, ground, decide, gate, clean | worker, V1 API, agents |
| Extractor and gateway (`app/agents/extractor.py`, `app/llm/`) | mode and metadata of one run | heuristics, model call with one fallback, validation with repairs | orchestrator |
| Retrieval (`app/rag/`, `research.py`) | a static index | infer sections, search, one repair round | orchestrator |
| Payables (`policy.py`, `decision.py`) | none | anomalies, recommendation, confidence, review | orchestrator |
| Receivables (`policy.py`, `editor.py`) | none | escalation, triggers, draft, confidence, review | orchestrator |
| Observability, evaluation, V1 API, web and reviewer clients | logs, reports, browser state | | |

What is hard here, and which property answers it:

* **Claims.** `claim` is one conditional UPDATE, and a claim whose lease has
  lapsed may be taken over while its first owner is still at work. A claim has
  one owner (`ClaimsAreExclusive`), a settled job is never claimed again
  (`SettledJobIsNotClaimed`), and claims are numbered tickets
  (`ImplementsClaimTickets`).
* **Recordings.** The other repository methods decide on the row they *read* and
  flush an UPDATE that does not look again. What two owners record at once must
  still tell one story (`DocumentFollowsJob`); a completion should be final
  (`CompletedJobIsFinal`, which the code does not keep).
* **Deliveries.** The queue delivers at least once, and a message that leaves it
  for good must have been worked off (`AcknowledgedWorkIsSaved`). Two counters,
  attempts and receives, end the retries (`DeadLetterIsEarned`), and a message
  that was sent must lead to an outcome (`DispatchedJobSettles`).
* **Objects.** `promote` is a copy and a delete, and each may take effect without
  its caller learning of it (`UploadIsNeverLost`, `ValidatedKeyIsBacked`).
* **Deletion** removes objects before it commits and does not lock what it has
  checked (`DeletionLeavesNoObject`, `TombstoneTakesNoResult`,
  `DeletionLeavesNoPages`, `ErasedDocumentIsDeleted`).
* **Locks.** `_complete` waits for another transaction's page rows and for its job
  row, other recordings for the documents row whose key its page rows share; the
  cycle is real and PostgreSQL has to break it (`WorkersComeBack`).
* **Time.** A dead worker's claim can be taken over only by a delivery that comes
  after the lease and before the redrive (`TimelyClaimIsRecovered`,
  `StaleClaimIsRecovered`); the heartbeat hides a message from the others
  (`HiddenWhileAttended`) and must not answer after its worker
  (`WorkerHasTheLastWord`).
* **Uploads and days.** Object and row are written by two systems, either of which
  may act and not answer (`AcceptedUploadIsStored`); lifecycle rules see keys and
  ages only (`CompletedContentIsKept`, `ContentGoesInTheEnd`); a bounded batch may
  be full of documents that cannot be deleted (`ExpiredDocumentsGo`).
* **Reviews.** A review is inserted while a deletion is between its statements
  (`ReviewHasItsJob`, `TombstoneKeepsNoReview`, `ReviewGoesWithItsDocument`); what
  is done must be what the audit history says (`EffectsAreAudited`); a detail reads
  three statements' worth of a document (`DetailIsWhole`).
* **Two directories.** A reviewer is made in the pool and in the database by a
  command that may stop or run twice (`ReviewerHasOneTenant`, `ReviewStaysInTenant`).
* **Rules in several places.** A threshold is compared in the policy, the
  retrieval and the editor (`LevelAgreesWithTriggers`, `AutomaticReminderIsMild`); the gate
  collects reasons and then overrules them (`ApprovalMeetsPolicy`,
  `ClaimIsNeverChased`); a repaired search is cut at `top_k`
  (`DecisionCitesItsRules`); vendor terms are read out of search hits
  (`PurchaseOrderRule`).
* **Failing stages.** A stage raises with a staged copy on disk
  (`StagedCopyIsRemoved`), the model's fallback fails too (`AuditIsComplete`), its
  answers are invalid again and again (`WorkflowEnds`), a scan has no text
  (`UnreadableIsReturned`).

`PROJECT.json` lists each hazard at its line, the ones no property covers too.

## 2. The modules

| Module | Models |
| --- | --- |
| `JobRepository`, `DocumentRepository` | pure operators on one job row and one document row: what each method reads, refuses and writes |
| `DocumentPipeline` | one document: its rows and objects, the queue, workers, dispatch calls, deletions |
| `ClaimTickets` | the abstract promise of `claim`: numbered tickets, each given once, none asked for after deletion |
| `ClaimRecovery` | the clock: one job, its message, the lease, visibility and backoff |
| `VisibilityHeartbeat` | the renewing thread and the worker that leaves it |
| `UploadValidator` | the upload's checks, over length, kind and pages of a file |
| `DocumentStorage` | uploads, promotion, lifecycle rules, deletions and retention runs over several documents |
| `ReviewerProvisioning` | the provisioning command, and what a request makes of pool and `users` |
| `DocumentReviews` | one document's reviews, links and details beside dispatch and deletion; extends `ReviewerProvisioning` |
| `FinanceCase` | the extraction schema: an invoice or an e-mail as the rules see it |
| `PayablesRules`, `ReceivablesRules` | the rules, their confidence and whether they ask for a review |
| `PolicyRetrieval` | the sections a case needs, the two searches, the merge, what is cited |
| `HumanReviewGate` | the decision records, the gate and the status in the review queue |
| `ExtractorAgent` | extraction over the gateway: modes, fallback, validation, repairs |
| `WorkflowEngine` | one run from the upload to its outcome; composes the six above |
| `MC...` | the instances for TLC: symmetry of the pipeline, and the cases of the workflow |
| `DocumentPipelineProofs`, `DocumentPipelineSafety`, `DocumentPipelineRecords`, `ClaimTicketsRefinement` | the pipeline's theorems: types, then claims and objects; on these the rows, and the refinement |
| `VisibilityHeartbeatProofs`, `DocumentStorageProofs`, `DocumentReviewsProofs`, `WorkflowEngineProofs` | the theorems on these four |

The four families meet in shared code. The worker's `process` call, one step of
`DocumentPipeline`, is `WorkflowEngine`: its outcomes "result", "permanent" and
"retry" are `Process`, `ProcessRejects` and `StepFails`. A dispatch with its processing
is one step of `DocumentStorage`, and `Settle` of `DocumentReviews`; a deletion is
statement by statement in `DocumentPipeline` (against workers) and in
`DocumentReviews` (against reviewers), and one step with its possible failures in
`DocumentStorage` (against days).

### How state and actions correspond to the code

*One document.* Nothing in the pipeline reads another document's rows or
objects, so `document`, `pages` and `objects` belong to one document and `Jobs`
is the set of idempotency keys used for it. (Reusing one key for a second
document, which `reserve` refuses, is therefore outside the model.)

*Transactions.* PostgreSQL runs in READ COMMITTED. A transaction is split where
another one can get in: `ClaimRow` is the conditional UPDATE, which takes the row
lock, followed by the read of the document; `ClaimCommit` is the flush and the
commit. The recording transactions (`_complete`, `_record_retry`,
`_record_retry_exhausted`, `_record_permanent_failure`) are `RecordRead`,
`RecordUpdate` (the flush of the job, which waits for the row lock) and
`RecordCommit` (the flush of the document, and the commit); `_complete` begins with
`CompleteLoad`, which loads the document, and replaces the pages in `RecordRead`.
`seenJob` and `seenDoc` are the rows the session holds: SQLAlchemy
writes the columns that differ from *them*, so `Updated` and `Flush` take the row
as read and the row as it is now.

*Locks* are not variables: they are read off the control state of their holders.
`RowLocked` is the job row a claim, a recording or a deletion has written and not
committed. `PagesLocked` makes a `_complete` wait for page rows that another one has inserted,
or that a deletion has deleted. `SharesKey` is FOR KEY SHARE, which the new page
rows take on the documents row by their foreign key; an UPDATE of `storage_key`,
which is unique, is FOR UPDATE and waits for it (`AwaitsDocument`, and the guard of
`DeleteCommit`), an UPDATE of the status alone does not. An UPDATE of a documents
row is the last that a transaction waits for, so its own lock lasts for the one step
that also commits.

Waits can form a cycle: a `_complete` that shares the documents row waits for a job row
held by a retry or an exhaustion that is about to write a new storage key
(`DeadlockedWith`), or by a deletion that is about to (`DeadlockedByDeletion`).
`BreakDeadlock` is PostgreSQL, which makes one of the two statements fail. What fails in
`_complete` goes to `_schedule_retry`; what fails in the others leaves `run_once`
(`RecordFailed`).

*The worker.* `worker[w]` is what `_run_once` keeps in its locals. `pc` is
`idle` between two calls; `received` after `receive_one`; `claiming` inside
`_claim`; `loading`, `reading`, `copying`, `clearing` before `_load_document`,
`read` and `process`, the copy and the delete of `promote`; `exhausting` before
the document is loaded for a job without attempts; `begin`, `paging`, `updating`,
`committing` inside a recording transaction, which `op` names; `releasing` and
`acking` before the last call to the queue. A failure of load, read, process or
promote is `StepFails`, with `_schedule_retry`'s choice in `RetryOp`; a copy or a
delete may have taken effect. `RecordCommit` of a completion may lose its answer,
after which the code retries a job that is completed. `Abandon` is the death of
the process, an exception that leaves `run_once` (a database error in the claim or
in a recording), or a failed last call; `HarmlessError` are those of them that
`CalmSpec` keeps (section 4).

*The queue.* A message is unsent, visible, in flight, dead or deleted.
`VisibilityExpires` may happen at any time: a heartbeat that fails stops without
telling the worker. `Acknowledge` deletes the message; with the receipt of an
earlier delivery SQS may or may not. A malformed body takes the same path as an
unknown job (`_defer_unprocessable`).

*Dispatch and deletion* are one-shot: `Requests` and `Deletions` are the calls
that may ever be made, `Messages` the messages that may ever be sent.
`DispatchAbort` and `DeleteAbort` are the failure of a call or the death of its
process. A deletion is `DeleteCheck`, the two objects, `PurgePages` and `PurgeJobs`,
each of which finds the rows committed by then (`sawPages`, `sawJobs`), `LockJobs`, which waits for
the rows it has found, and `DeleteCommit`, which is `mark_deleted` and the commit. A job that is
dispatched after `PurgeJobs` is not among its rows: it stays, and can be
claimed before the commit.

*Left out:* error codes, results and audit rows, which no decision reads; review
rows (`DocumentReviews` has them); the tenant, which every WHERE clause fixes.

`ClaimRecovery` counts time in ticks of the heartbeat interval, uses `Claimable`,
`Claimed` and `UnclaimedState` of `JobRepository`, and treats the worker's steps
between a claim and its outcome as one (`Finish`) or a death (`Crash`).

`VisibilityHeartbeat` has two threads: `worker` is `_run_once` around the `with`
block, `thread` is `_run`. `stop` and `failed` are the two events; a worker never
reads `failed`. `Tick` does not pass a call that must return or a wait that is
over. `CallTime` bounds one call; the code leaves that to the clients.

*Storage.* `DocumentStorage` orders documents by (`retention_until`, `id`). `call` is
an `upload_document` call: `Post` reads up to one byte more than the limit and
validates, `Store`, `Save` and `Undo` each have the outcome that the call failed
but took effect, `Die` is the death of the process. `Day` and `Lifecycle` are the
bucket's rules; `rowAge` and `age` count days only as far as a rule asks. `List`
takes the oldest `Batch` of the candidates and `DeleteNext` deletes the oldest that is left.
`Stuck` are documents whose deletion fails each time, such as a settled one with
a job that never leaves PROCESSING. The bucket is versioned, and neither a delete nor
an expiration names a version: `Removed` leaves the bytes as a `noncurrent` version,
which `VersionExpires` takes under `validated/` only, as the rules do. `erased` is a
history variable.

*Reviews.* In `DocumentReviews` each statement of a transaction is an action, and
what it sees is what is committed. `ReviewRead`, `ReviewWait`, `ReviewInsert` and `ReviewCommit`
are `create_review`; an inserted review keeps its job row from `PurgeJobs`, a purged
row (`JobRowLocked`) keeps the insert waiting, and `PurgeJobs` fails on a review it
has not purged, as ON DELETE RESTRICT does. An insert, also a waiting one, shares the documents row
(`SharesDocument`) and keeps a new storage key waiting: that of a `Settle`, which
comes later then, and that of `DeletionCommit`, which may hold the job row that the
insert waits for. `BreakDeadlock` lets either of the two fail. `DetailDocument`, `DetailJobs` and
`DetailReviews` are the three statements of `document_detail`. `AccessRead` signs and
`AccessCommit` commits the event before the link leaves. `Finished` is the only
step of a system that has answered everything.

*Reviewers.* An e-mail stands for its subject, since the pool gives it one. A run of
the command is `EnsurePoolUser`, then `EnsureUserRow`; either may fail after it
took effect. `SignedIn` is `require_tenant`.

*Workflow.* `phase` is the stage that comes next. A text is what the rules can tell of
it: which fields are filled, which markers an excerpt contains, the numbers around the
rules' limits. `Read` makes text or not of each page. `ExtractorAgent` has the choice of
mode, each request with its error and fallback, and `validate` with local and model
repairs. `Search` and `Heal` may bring any sections, as many as they may return; the
ranking is open, the merge and the cut are not. `Decide` reads vendor terms from
whichever vendor section the hits contain last (`VendorSections`). `Review` is the gate
and the queue's status. Every stage may raise: reading and the calls of the model with
their own outcomes, the rest by `StageRaises` and, inside the extraction,
`ExtractionRaises`. An exception sets `raised`, and `Clean` is the `finally`. Amounts
are whole units, confidences hundredths.

A definition with the comment `Slip:` is a plausible error, kept beside the
definition it distorts; `PROJECT.json` says which property it breaks.

## 3. The runs

| Run | Bounds | Shows |
| --- | --- | --- |
| `Races` | 1 job, 2 messages, 2 workers, 2 dispatches, 2 deliveries, 2 attempts | `TypeOK`, `ClaimsAreExclusive`, `DocumentFollowsJob`, `ValidatedKeyIsBacked`, `DeadLetterIsEarned`, `AcknowledgedWorkIsSaved`, `UploadIsNeverLost`, `SettledJobIsNotClaimed` |
| `Deleting` | 1 job, 1 message, 2 workers, 2 deletions | `DeletionLeavesNoObject`, `TombstoneTakesNoResult`, `ImplementsClaimTickets` |
| `Calm` | 1 job, 2 messages, 2 workers, 2 dispatches, 2 deliveries, 3 attempts, fair | `DispatchedJobSettles`, `WorkersComeBack` |
| `ShortLease` | lease of 2 visibility timeouts, 5 deliveries, 4 attempts, 3 deaths | `TimelyClaimIsRecovered` |
| `Heartbeat` | timeout 8, interval 3, calls up to 2, retry delay 3 | `HiddenWhileAttended`, `WorkerHasTheLastWord`, `WorkerRejoins` |
| `Workflow` | 2 vendors, 1 customer, see below | `TypeOK`, `ApprovalMeetsPolicy`, `AutomaticReminderIsMild`, `ClaimIsNeverChased`, `DecisionCitesItsRules`, `LevelAgreesWithTriggers`, `UnreadableIsReturned`, `AuditIsComplete`, `StagedCopyIsRemoved`, `WorkflowEnds` |
| `Storage` | 3 documents, one to be uploaded, one stuck, batches of 2, days 1 and 2+0 | `AcceptedUploadIsStored`, `StoredFileIsWhole`, `CompletedContentIsKept`, `ContentGoesInTheEnd`, `ExpiredDocumentsGo` |
| `Reviews` | 2 reviews, 1 link, 1 detail, 2 provisioning runs, 2 organizations, 1 person, 2 jobs, 1 fault | `ReviewerHasOneTenant`, `ReviewHasItsJob`, `TombstoneKeepsNoReview`, `EffectsAreAudited`, `ReviewStaysInTenant`, `DetailIsWhole`, `ReviewGoesWithItsDocument`, `ErasedDocumentIsDeleted` |

Why the bounds are enough to make the cases happen. *Pipeline:* two workers and two
attempts give a take-over with both owners alive; two deliveries of two messages
give four; a delivery at the limit, an attempt at the limit and both together
occur; two dispatches make a job with a lost or a duplicate message.
*Workflow:* `MCWorkflowEngine` has the two vendors of the master file whose
purchase-order terms are not the default's (a limit of 5,000, an exemption), amounts -1, 3000,
3001, 5000 and 5001, days and reminders on both sides of each threshold (7, 8, 21, 22,
45, 46; 0 to 3) or missing, and each flaw of an invoice or e-mail alone;
`InitialHits` 3, `TopK` 5, `CiteLimit` 4 and `MaxRetries` 2 let a search miss what it needs, a
merge cut it, a citation leave one out and a repair be given up. The code's numbers
are 5 (or fewer by `top_k`), `top_k`, 4 and 2. Two pages give every mix of readable and
unreadable ones. *Storage:* the stuck document is the oldest and a batch leaves one
document outside; the upload runs beside retention and the lifecycle rules; the quarantine
rule is shorter than the retention. The backstop comes with the end of the retention,
without the 7 days that are deployed: the harder case. *Reviews:* two reviews put one before and one
inside a deletion; two runs of the command name the same or two organizations; one fault makes a
deletion begin again with its objects gone. The theorems of section 5 hold for every value.

`Reviews` checks for deadlock: a transaction that waits for another's lock
must not wait for ever, and only `Finished` ends the system. The other runs have
`CHECK_DEADLOCK FALSE`: their calls, messages and documents are bounded and a workflow run
ends, so when all is done the model stops, as the system does without
requests.

Four runs check a statement of the repository that the code does not keep; each
has its entry under `findings`.

| Run | Statement | What happens |
| --- | --- | --- |
| `Recompletion` | `CompletedJobIsFinal` | the first owner of a claim records a retry over the completion of the second |
| `DeletePages` | `DeletionLeavesNoPages` | a completion commits between the purge and the commit |
| `ShippedSettings` | `StaleClaimIsRecovered` | 3600 s of lease against four deliveries 120 s apart (one tick is 30 s) |
| `UnknownVendor` | `PurchaseOrderRule` | an invoice of no listed vendor is judged by another vendor's terms |

What the models also show, without a run of its own:

*Pipeline*

* After the recompletion race a job can stay QUEUED for ever: its document is
  completed, so `mark_processing` refuses each claim until the message is
  redriven. `DispatchedJobSettles` therefore counts a completed document.
* A deletion goes through although a job became active after its check
  (`app/retention/service.py:97`), and a job dispatched after its purge of the jobs stays on the
  tombstone, with a review if one is made (`TombstoneKeepsNoReview` admits it). Such a
  job can be claimed before the deletion commits; its claim, like the dispatch and like a retry that
  was about to be recorded, then writes `processing` or `queued` over `deleted`. The document keeps
  `deleted_at` and its new key, and no result is stored (`TombstoneTakesNoResult`).
* A completion and a retry of one job, after a take-over, or a completion and a
  deletion, can wait for each other: the first shares the documents row and waits for
  the job row, the other holds that and waits to write a storage key. PostgreSQL ends one of
  them. Without `BreakDeadlock` `WorkersComeBack` fails.
* Two dispatches under different keys can both read a quarantined document and both
  create a job (`app/processing/dispatch.py:54`).
* When the delete of `promote` works and its answer is lost, the retry row names the
  quarantine key although the object is at the validated one; further attempts fail.
  The copy survives (`UploadIsNeverLost`).

*Storage and reviews*

* A commit of an upload whose answer is lost leaves a row without an object: the
  call answers with an error and deletes the object (`Save`, then `Undo`).
* The lifecycle rule cannot tell an orphan from a document that waits in
  quarantine or has failed there (`Lifecycle`); the row can still be dispatched when its object
  is gone. `AcceptedUploadIsStored` admits just that.
* A deletion that meets a review inserted after its purge fails on the foreign key,
  with the objects already gone. It is made good by the next one
  (`ErasedDocumentIsDeleted`); the user's request ends with an unhandled error.
* A review and a deletion can wait for each other in the same way, for the job row and the
  documents row; without `BreakDeadlock` the run ends in that deadlock.
* The bucket is versioned, and the rule for `quarantine/` expires no noncurrent versions
  (`infra/terraform/storage.tf:50`): the bytes of every upload that was promoted, deleted or
  expired there stay. `ContentGoesInTheEnd` is about objects, and versions of validated ones; a
  deletion, too, leaves the validated bytes until their noncurrent version expires.
  `DeletionLeavesNoObject` of the pipeline is about current versions, which are all that a
  reader who names no version is given.
* `create_review` commits in the clean-up of a dependency. Whether its answer is sent
  before that depends on the version of FastAPI, which `requirements.txt` does not
  pin. It does not look at the status of the job.

*Workflow*

* A negative amount, a failed extraction and most errors of the PDF reader are
  retried until the dead-letter queue, although the outcome cannot change:
  only what `app/worker/processor.py` names is permanent.
* A low escalation needs AR-TEMPLATE-002, which `infer_required_policy_source_ids`
  never asks for, nor the claim sections for a claim found in the text. A repair cannot bring
  what nobody looked for, so `DecisionCitesItsRules` leaves it out.
* `kb/approval_matrix.md:16` asks for a purchase order above 3,000 from every vendor
  that is not services-exempt, `kb/vendor_terms.md:17` above 5,000 from one of them. The two
  contradict each other, and the code follows the vendor's terms: an invoice of that
  vendor between 3,001 and 5,000 is approved without an order. `ApprovalMeetsPolicy` takes
  the vendor's limit as the rule, so it is not AP-APPROVAL-002, and `PurchaseOrderRule` is
  weaker than it in the same way.
* Exactly 45 days raise the high trigger and the medium level
  (`LevelAgreesWithTriggers` admits that one number).
* An invoice whose lines do not add up is recommended for approval with a
  "cleared" summary, and needs a review all the same.
* A disputed, incomplete payment claim with three reminders and a single hit
  becomes a blocking review, as its confidence falls to 70.
* A listed vendor whose name is spelled with something around it may be judged by
  the default terms; markers beyond the 500 characters of the excerpt are not seen; a
  fallback call that raises leaves no metadata; a temporary file whose write fails stays.

## 4. Fairness

*Pipeline.* `Fairness` asks for what the code and the service owe:
`app/worker/main.py` polls for ever, so a worker that can step does
(`WF(WorkerProgress)`); SQS makes a message visible whose heartbeat has ended (`WF` of
`VisibilityExpires` for a message no worker holds) and redrives a spent one.
A deletion that has begun goes on. Requests, deaths and the clock owe nothing. PostgreSQL
looks for deadlocks: `BreakDeadlock` is fair together with the worker's own steps.
Other database errors are not, so that `WorkersComeBack` cannot rest on one.

`CalmSpec` is `Spec` without deaths, without failing heartbeats, and without database
errors in the claim of a last delivery, in the load for a job without attempts, and in the recording
of a retry, of an exhaustion or of a failure, deadlocks apart. With them a job may
legitimately end in the dead-letter queue unsettled: the error leaves `run_once`
(`app/worker/service.py:372`, `:543`, `:592`, `:638`), nothing is told to the queue, and the
message may be redriven. What remains is a claim that fails while a delivery is to
come and a failing last call to the queue (`HarmlessError`), and every failure of loading,
reading, processing, promoting and completing. Claims may still
be taken over, by the second message of a job once the lease has lapsed.

`ClaimRecovery` adds the clock and the
assumption that some worker polls and finishes what it has. `VisibilityHeartbeat`
assumes that threads run and calls return, not that the work in the block ends.

*Storage* assumes that days pass, that S3 applies its rules, that a schedule
starts runs, that active documents settle, and that no error hits the same deletion for
ever (strong fairness, except for `Stuck`). Callers and uploads owe nothing:
`ContentGoesInTheEnd` holds for an upload whose process died.

*Reviews* assumes that a review transaction which has begun ends, that active jobs settle and
that a deletion is asked for again until it is done, as the retention runs do;
a deletion fails at most `MaxFaults` times. Links, details and provisioning owe
nothing.

*Workflow* assumes only that the run goes on (`WF_vars(Progress)`): it is one thread
whose calls return. No stage has to raise: `Progress` leaves `StageRaises` and
`ExtractionRaises` out, so an exception does not stand in for a stage that hangs.
That the run ends rests on the bound of the validation retries.

## 5. The proofs

The theorems hold for every value of the constants that satisfies the named assumptions,
which TLC evaluates in the runs of their modules. They hold for any number of jobs,
messages, workers and calls, and for sets that need not be finite.

| Theorem | Property | Argument |
| --- | --- | --- |
| `DocumentPipelineProofs.TypeCorrect` | `TypeOK` | from `Wellformed` |
| `ExclusiveClaims` | `ClaimsAreExclusive` | `ClaimInvHolds` |
| `SettledStaysUnclaimed` | `SettledJobIsNotClaimed` | `Wellformed`: `ClaimStands` |
| `TombstoneStaysEmpty` | `TombstoneTakesNoResult` | `Wellformed`, `NoneToCommit` |
| `UploadSurvives`, `ValidatedKeyBacked` | `UploadIsNeverLost`, `ValidatedKeyIsBacked` | `ObjectsInvHolds` |
| `TombstoneHasNoObject` | `DeletionLeavesNoObject` | `Wellformed`, `DeletionInv` |
| `AcknowledgedIsSaved` | `AcknowledgedWorkIsSaved` | `SavedInv` |
| `LockedRowsStand`, `DeadLettersAreEarned` | `LockedRowStands`, `DeadLetterIsEarned` | `DeadLetterInv` |
| `DocumentAgrees` | `DocumentFollowsJob`, for one key and two workers | `FollowInv` |
| `PipelineImplementsTickets` | `ImplementsClaimTickets` | `ClaimInvHolds`, step by step |
| `StaysHidden`, `LastWordStands` | `HiddenWhileAttended`, `WorkerHasTheLastWord` | `BudgetHolds` |
| `UploadsAreStored`, `FilesAreWhole`, `ContentIsKept` | `AcceptedUploadIsStored`, `StoredFileIsWhole`, `CompletedContentIsKept` | `DocumentStorageProofs.InvHolds` |
| `OneTenant`, `TenantHolds` | `ReviewerHasOneTenant`, `ReviewStaysInTenant` | `DocumentReviewsProofs.InvHolds`: `AccountsInv`, `LetThrough` |
| `ReviewKeepsItsJob`, `TombstoneIsClean`, `ReviewsStay` | `ReviewHasItsJob`, `TombstoneKeepsNoReview`, `ReviewGoesWithItsDocument` | the same: `ReviewInv` |
| `AuditHolds`, `DetailHolds` (reviews) | `EffectsAreAudited`, `DetailIsWhole` | the same: `DetailSoFar` |
| `ApprovalHolds` | `ApprovalMeetsPolicy` | `WorkflowEngineProofs.InvHolds`, lemmas on the rules |
| `RemindersAreMild`, `ClaimsAreNotChased`, `LevelsAgree` | `AutomaticReminderIsMild`, `ClaimIsNeverChased`, `LevelAgreesWithTriggers` | the same |
| `CitationsHold` | `DecisionCitesItsRules`, for `CiteLimit >= 3` | the same, and the order of the required sections |
| `WorkflowEngineProofs.TypeCorrect` | `TypeOK` | `ExtractorTyped`, `EngineTyped`, `FoundInv` |
| `UnreadableGoesBack`, `AuditHolds`, `CopyIsRemoved` | `UnreadableIsReturned`, `AuditIsComplete`, `StagedCopyIsRemoved` | the same: `BlankInv`, `AuditInv`, `StagedInv` |

*Pipeline.* Assumptions: `MaxAttempts` and `RedriveMax` in `Nat \ {0}`, `NoJob` is not a
job, `NoMessage` not a message, `NoPages` not a ticket. `TypeOK` is not inductive.
`ClaimCommit` adds one to the attempt count without looking at it: the type of the count
rests on `ClaimStands` (the row of a worker that is claiming is still claimable, because
`LocksAreExclusive` keeps every other writer out, a deletion that has found the row
included). Of the document nothing of the kind is true: a deletion that did not find the
job may have made it a tombstone. A worker's steps use `JobOf(w)`, which has a type only
if the message it holds has been sent and names a job (`HeldMessageIsSent`,
`SentMessageHasJob`), and `Target[op]` needs an operation (`OpIsNamed`).
`AttemptFollowsClaim` says where a claim's number is zero, and `SeenIsAlive` that a
transaction about to flush has loaded a document that was not deleted. Their conjunction
is `Wellformed`.

`ClaimInv` adds that no worker's attempt number exceeds the count of its job, so
the number a new claim gets is new. The objects need to know what can be
trusted: a worker that says `promoted`, or has loaded a row with the validated
key, has an object there until a deletion begins; and after a deletion has
removed the quarantined object no copy can start from it, which is why the code's
order of the two deletes matters.

That a tombstone takes no result rests on the share of the documents row. A `_complete`
has it from its first page to its commit, so a deletion commits either before the
`_complete` requires the document or after its commit: once the document is deleted
there is no completion left to commit (`NoneToCommit`).

A statement that PostgreSQL makes fail is an error its transaction can run into
anyway (`PlainSteps`), so deadlocks add no case to the invariants.

A deletion forgets the rows of its jobs, so attempt numbers start again if a late
dispatch inserts a row with the same key. `AttemptsAreCounted` says that it can no longer
be claimed then, because the document is a tombstone when the claim looks at it, and
that a claim which looked before is of a row that the deletion did not find.

*Rows.* `SavedInv` says of a worker about to acknowledge, and of a completed job,
what the property says of the message: only a completion leads to either, and
nothing but a deletion takes the text away. `DeadLetterInv` says that a worker about to
exhaust a job is entitled to (`ExhaustionIsEarned`). Its two legs are that counts
of a message's deliveries only grow (`DeliveriesAreCounted`) and that the row a
transaction has flushed is there until it commits (`LockedRowStands`): a
deletion that has found the row waits for its lock, one that has not leaves it, so the
commit cannot bring back a purged row. The document may become a tombstone meanwhile.

`DocumentFollowsJob` is the hardest, because a recording transaction writes the two rows
from two reads with another worker in between, and the lock on the job row is the only
one that lasts. `FollowInv` adds `LockedRowStands` and three more. Once a job is
settled, a worker that still holds on to an active read of it is the only one left that
may record anything, unless the document is completed or deleted (`RecorderIsAlone`). A
job read as settled stays so, since nobody else has an active read, again unless the
document is completed or deleted (`SettledReadStands`). A session that is about to
commit remembers the document as it is (`SeenIsCurrent`), a completion's session apart,
which overwrites it. TLC checked `FollowInv`, `SavedInv` and `DeadLetterInv` on the
instances of `Races` and `Deleting` before they were proved.

The theorem assumes one key (`OneKey`: with two, the one document cannot follow both
jobs) and at most two workers (`TwoWorkers`). The deployment runs one
(`worker_desired_count` is 1 in `infra/terraform/variables.tf:162`), and two while it
replaces it (`infra/terraform/compute.tf:382`); only the API is scaled. The
number matters, and the attempt to prove the theorem for any number shows why. Let the first
worker have lost its claim, read `processing` and be about to record a retry;
let the second, the new owner, commit a failure. A third that was failing the same job
reads it settled, and `mark_failed` (`app/db/repositories/jobs.py:275`) returns without
writing the row, hence without waiting for its lock. The first now commits its retry: job
and document are queued. The third loads the document, finds it queued and marks it
failed (`_record_permanent_failure`, `app/worker/service.py:599`). The job is queued, its
document failed, and every claim is refused until the message is redriven (TLC finds this
with one message, three workers, deliveries and attempts). The same
stale write as in `Recompletion` is at the bottom of it; `mark_retry_exhausted` and
`release_for_retry` would have to look at the status again under the lock. Whoever
raises the worker count should know this. `DispatchedJobSettles`, too, is checked
for two workers.

*Refinement.* `DocumentPipeline` instantiates `ClaimTickets` with the attempt counts as
the tickets given out, each worker's claim as the ticket it holds, the page rows as what
is published and `deleted` as closed. The UPDATE of a claim is `Ask`, its commit `Take`,
its failure `Withdraw`; a completion is `Publish`, the commit of a deletion `Close` with
the jobs it has found, the end of a delivery `PutBack`; every other step stutters. `Ask`
needs an open document, `Take` does not: a claim under way when a deletion that has not
found its job commits gets its ticket all the same.

*Heartbeat.* `IntervalAssumption` is what `__init__` checks, and that two calls and
an interval fit into one timeout. The invariant is a budget: in each phase the
timer and the time already used of the current wait or call add up to at least
the timeout less the calls and waits that may have gone before.

*Storage.* `StorageAssumption` and `LimitsAssumption` give limits and days their
types. `AcceptedUploadIsStored` needs `StoredInv`, which says of a call about to
save what the property says of one that was accepted. `CompletedContentIsKept` needs `AgeInv`: an
object at the validated key is no older than its row, so the backstop, which is
the retention and `GraceDays` more, cannot come first.

*Reviews.* The assumptions say that jobs, reviews and links are told apart, and that the owner is an
organization. The heart of `ReviewInv` is two
clauses: `Inserted` (an inserted review keeps its job from the purge) and `Purged`
(once the jobs are deleted, the reviews that stay are of jobs dispatched since); they hold
whichever side a deadlock ends (`DeadlockKeeps`).
`DetailSoFar` carries what a detail request has read over to its next statement;
that the reviews require the document again is what makes it whole.

*Workflow.* The assumptions give the master file, the documents and answers and the
limits of retrieval their types and keep `None` apart from the strings used with it. The
invariant hands results from stage to stage: the payload satisfies the schema and lists
what it lacks, the decision is what the rules make of payload and hits, the gate what it
makes of the decision, and the repair report what was kept. What the rules then imply is
proved of the operators alone.

`CitationsHold` assumes `CiteLimit >= 3`; the code has 4. The invariant gives that a grounded
run has found every required section; what is left is where in the sequence of required
sections each one stands, as `_select_ordered_evidence` stops at the limit. The property
says itself that an invoice may have more sections than fit; an e-mail rests on up to three,
hence the assumption. `TypeCorrect` needs `FoundInv` (search
and repair keep relevant sections only, and nothing is kept before a search), the
finiteness of the anomalies for the bounds 45 and 99 of a confidence, and that a repair
is asked for only below `MaxRetries`. `FoundInv` was checked by TLC on `Workflow`.

*Model-checked only:* everything in `ClaimRecovery`, whose property is a liveness property,
and the other liveness properties: `DispatchedJobSettles`, `WorkersComeBack`,
`WorkerRejoins`, `WorkflowEnds`, `ContentGoesInTheEnd`, `ExpiredDocumentsGo`,
`ErasedDocumentIsDeleted`. This prover has neither fairness nor ENABLED. Every
invariant and every action property of a run is a theorem, `DocumentFollowsJob` and
`DecisionCitesItsRules` under the assumptions named above.

## 6. Not modelled, and what could follow

Parsing, OCR, the text extraction of single fields, ranking, drafts and summaries turn
bytes into bytes: the models leave their results open, and only what a rule tells apart
of them is there. Logging, health probes, the evaluation scripts, the V1 API, which
calls the orchestrator without keeping anything, and the two browser clients keep no
state that concurrent steps could spoil. Token checks and scopes, encryption, message
encoding, and the read-only routes are left out of components that are otherwise
modelled; `PROJECT.json` says so at each.

Written first: the repositories, `DocumentPipeline` and `ClaimRecovery`, since
claims, recordings and objects carry the system's promises; then the heartbeat, the
abstract tickets, storage, reviews and the workflow. What could follow:

1. `DocumentPipeline` with recording transactions that read the status again under the lock, to
   see whether `CompletedJobIsFinal`, and `DocumentFollowsJob` with three workers, then hold.
2. `DocumentPipeline` with two documents, for an idempotency key used twice.
