------------------------- MODULE DocumentReviewsProofs -------------------------
(***************************************************************************)
(* The safety of reviews, download links and reviewers' accounts, proved   *)
(* for every number of people, organizations, calls and runs.  The heart   *)
(* of it is what a deletion between its purge of the jobs and its commit   *)
(* knows (Purged), and what a review between its INSERT and its commit     *)
(* keeps from happening (Inserted).                                        *)
(***************************************************************************)
EXTENDS DocumentReviews, TLAPS

------------------------------------------------------------------------------
(* The invariants *)

\* A run that has found or created the pool's user knows its organization.
Pooled ==
    \A p \in Runs : run[p].pc = "pooled" =>
        run[p].user \in UserRow /\ run[p].user.organization = pool[run[p].user.email]

AccountsInv == ReviewerHasOneTenant /\ Pooled

\* A review that was let through is about a job of the document, made by a
\* user of its organization.
LetThrough ==
    \A r \in Reviews : review[r].pc \in {"checked", "waiting", "inserted", "done"} =>
        review[r].job \in Jobs /\ User(Owner, review[r].by) \in users

\* An inserted review keeps its job: no deletion has deleted the row, and the
\* key-share lock keeps the next one from doing so.
Inserted ==
    \A r \in Reviews : review[r].pc = "inserted" =>
        review[r].job \in jobs /\ ~JobRowLocked(review[r].job)

SavedIsDone == \A r \in saved : review[r].pc = "done"

\* Once the jobs are deleted, the reviews that stay are of jobs that stay, and
\* those were dispatched since; until the commit all are still there.
Purged ==
    deletion.pc = "marking" =>
        /\ deletion.jobs \subseteq jobs
        /\ \A r \in saved \ deletion.reviews : review[r].job \notin deletion.jobs
        /\ jobs \ deletion.jobs \subseteq {LateJob}

\* A deletion under way has a document to delete; a tombstone has late jobs only.
Tombstone ==
    /\ deletion.pc \notin {"start", "done"} => ~document.deleted
    /\ document.deleted => jobs \subseteq {LateJob}

ReviewInv == LetThrough /\ Inserted /\ SavedIsDone /\ ReviewHasItsJob /\ Purged /\ Tombstone

\* What a detail request has read so far is there as long as the document is.
DetailSoFar ==
    \A v \in Details :
        /\ detail[v].pc \in {"jobs", "reviews", "shown"} =>
               \A r \in detail[v].known : review[r].pc = "done"
        /\ detail[v].pc \in {"jobs", "reviews"} /\ ~document.deleted =>
               detail[v].known \subseteq saved
        /\ detail[v].pc = "reviews" /\ ~document.deleted =>
               \A r \in detail[v].known : review[r].job \in detail[v].jobs

Inv == TypeOK /\ AccountsInv /\ ReviewInv /\ EffectsAreAudited /\ DetailSoFar /\ DetailIsWhole

\* Which variables the steps of each actor leave alone.
ReviewStep(r) ==
    \/ \E e \in Emails, j \in Jobs \cup {ForeignJob} : ReviewRead(r, e, j)
    \/ ReviewWait(r) \/ ReviewInsert(r) \/ ReviewCommit(r)
AccessStep(a) == (\E e \in Emails : AccessRead(a, e)) \/ AccessCommit(a)
DetailStep(v) ==
    \/ \E e \in Emails : DetailDocument(v, e)
    \/ DetailJobs(v) \/ DetailReviews(v)
PipelineStep == DispatchRead \/ DispatchSave \/ \E j \in Jobs : Settle(j)
DeletionMove == DeletionStep \/ DeletionFails

\* Next, by actor.
LEMMA NextByActor ==
  [Next]_vars =>
      \/ ProvisioningStep
      \/ \E r \in Reviews : ReviewStep(r)
      \/ \E r \in Reviews : BreakDeadlock(r)
      \/ \E a \in Accesses : AccessStep(a)
      \/ \E v \in Details : DetailStep(v)
      \/ PipelineStep
      \/ DeletionMove
      \/ UNCHANGED vars
BY DEF Next, ReviewStep, AccessStep, DetailStep, PipelineStep, DeletionMove, Finished

------------------------------------------------------------------------------
(* Types *)

\* The initial states are typed.
LEMMA TypeInit == Init => TypeOK
<1> SUFFICES ASSUME Init PROVE TypeOK
  OBVIOUS
<1>1. (CHOOSE e \in Emails : TRUE) \in Emails
  BY CallAssumption
<1>2. review \in [Reviews -> ReviewLocals]
  BY <1>1 DEF Init, NoReview, ReviewLocals
<1>3. ProvisioningTypeOK
  BY DEF Init, ProvisioningInit, ProvisioningTypeOK, RunLocals
<1>4. /\ document \in [deleted : BOOLEAN, key : {"quarantine", "validated", "deleted"},
                       content : BOOLEAN]
      /\ jobs \subseteq Jobs /\ active \subseteq Jobs
  <2>1. \/ jobs = {} /\ document = [deleted |-> FALSE, key |-> "quarantine", content |-> TRUE]
        \/ jobs = {FirstJob}
           /\ document = [deleted |-> FALSE, key |-> "validated", content |-> TRUE]
    BY DEF Init
  <2>2. active = {}
    BY DEF Init
  <2>3. document \in [deleted : BOOLEAN, key : {"quarantine", "validated", "deleted"},
                      content : BOOLEAN]
    <3>1. \A k \in {"quarantine", "validated"} :
              [deleted |-> FALSE, key |-> k, content |-> TRUE]
                  \in [deleted : BOOLEAN, key : {"quarantine", "validated", "deleted"},
                       content : BOOLEAN]
      OBVIOUS
    <3>2. QED
      BY <2>1, <3>1
  <2>4. jobs \subseteq Jobs
    BY <2>1 DEF Jobs
  <2>5. QED
    BY <2>2, <2>3, <2>4
<1>5. /\ saved \subseteq Reviews /\ audited \subseteq Reviews \cup Accesses
      /\ access \in [Accesses -> {"start", "signed", "issued", "refused"}]
      /\ detail \in [Details -> DetailLocals]
      /\ dispatch \in {"start", "reading", "done"}
      /\ deletion \in DeletionLocals
      /\ faults \in 0..MaxFaults
  BY CallAssumption DEF Init, DetailLocals, NoDetail, DeletionLocals, NoDeletion
<1>6. QED
  BY <1>2, <1>3, <1>4, <1>5 DEF TypeOK

\* A call that is refused holds nothing.
LEMMA NothingTyped ==
  /\ \A pc \in {"start", "refused"} : NoReview(pc) \in ReviewLocals
  /\ \A pc \in {"start", "refused"} : NoDetail(pc) \in DetailLocals
  /\ \A pc \in {"start", "erasing", "purging", "done"} : NoDeletion(pc) \in DeletionLocals
<1>1. (CHOOSE e \in Emails : TRUE) \in Emails
  BY CallAssumption
<1>2. QED
  BY <1>1 DEF NoReview, ReviewLocals, NoDetail, DetailLocals, NoDeletion, DeletionLocals

\* Every step keeps the types.
LEMMA TypeStep == TypeOK /\ Pooled /\ [Next]_vars => TypeOK'
<1> SUFFICES ASSUME TypeOK, Pooled, [Next]_vars PROVE TypeOK'
  OBVIOUS
<1> USE DEF provisioning, rows, readers, writers
<1>1. CASE ProvisioningStep
  <2>1. ProvisioningTypeOK'
    <3>1. ASSUME NEW p \in Runs, NEW o \in Organizations, NEW e \in Emails,
                 EnsurePoolUser(p, o, e)
          PROVE  ProvisioningTypeOK'
      <4>1. User(o, e) \in UserRow
        BY DEF User, UserRow
      <4>2. QED
        BY <3>1, <4>1 DEF EnsurePoolUser, TypeOK, ProvisioningTypeOK, RunLocals
    <3>2. ASSUME NEW p \in Runs, EnsureUserRow(p)
          PROVE  ProvisioningTypeOK'
      <4>1. run[p].user \in UserRow
        BY <3>2 DEF EnsureUserRow, Pooled
      <4>2. QED
        BY <3>2, <4>1 DEF EnsureUserRow, TypeOK, ProvisioningTypeOK, RunLocals
    <3>3. QED
      BY <1>1, <3>1, <3>2 DEF ProvisioningStep, ProvisioningNext
  <2>2. QED
    BY <1>1, <2>1 DEF ProvisioningStep, TypeOK
<1>2. ASSUME NEW r \in Reviews, ReviewStep(r) PROVE TypeOK'
  <2>1. review' \in [Reviews -> ReviewLocals]
    <3>1. ASSUME NEW e \in Emails, NEW j \in Jobs \cup {ForeignJob}, ReviewRead(r, e, j)
          PROVE  review' \in [Reviews -> ReviewLocals]
      <4>1. [pc |-> "checked", job |-> j, by |-> e] \in ReviewLocals
        BY DEF ReviewLocals
      <4>2. QED
        BY <3>1, <4>1, NothingTyped DEF ReviewRead, TypeOK
    <3>2. CASE ReviewWait(r) \/ ReviewInsert(r) \/ ReviewCommit(r)
      <4>1. \A pc \in {"waiting", "inserted", "done"} :
                [review[r] EXCEPT !.pc = pc] \in ReviewLocals
        BY DEF TypeOK, ReviewLocals
      <4>2. QED
        BY <3>2, <4>1, NothingTyped DEF ReviewWait, ReviewInsert, ReviewCommit, TypeOK
    <3>3. QED
      BY <1>2, <3>1, <3>2 DEF ReviewStep
  <2>2. saved' \subseteq Reviews /\ audited' \subseteq Reviews \cup Accesses
    BY <1>2 DEF ReviewStep, ReviewRead, ReviewWait, ReviewInsert, ReviewCommit, TypeOK
  <2>3. UNCHANGED <<provisioning, document, jobs, active, readers, writers>>
    BY <1>2 DEF ReviewStep, ReviewRead, ReviewWait, ReviewInsert, ReviewCommit
  <2>4. QED
    BY <2>1, <2>2, <2>3 DEF TypeOK, ProvisioningTypeOK
<1>3. ASSUME NEW a \in Accesses, AccessStep(a) PROVE TypeOK'
  BY <1>3 DEF AccessStep, AccessRead, AccessCommit, TypeOK, ProvisioningTypeOK
<1>4. ASSUME NEW v \in Details, DetailStep(v) PROVE TypeOK'
  <2>0. /\ detail \in [Details -> DetailLocals] /\ detail[v] \in DetailLocals
        /\ saved \in SUBSET Reviews /\ jobs \in SUBSET Jobs
    BY DEF TypeOK
  <2>1. ASSUME NEW e \in Emails, DetailDocument(v, e)
        PROVE  detail' \in [Details -> DetailLocals]
    <3>1. [detail[v] EXCEPT !.pc = "jobs", !.known = saved] \in DetailLocals
      BY <2>0 DEF DetailLocals
    <3>2. QED
      BY <2>0, <2>1, <3>1, NothingTyped DEF DetailDocument
  <2>2. ASSUME DetailJobs(v) PROVE detail' \in [Details -> DetailLocals]
    <3>1. [detail[v] EXCEPT !.pc = "reviews", !.jobs = jobs] \in DetailLocals
      BY <2>0 DEF DetailLocals
    <3>2. QED
      BY <2>0, <2>2, <3>1 DEF DetailJobs
  <2>3. ASSUME DetailReviews(v) PROVE detail' \in [Details -> DetailLocals]
    <3>1. [detail[v] EXCEPT !.pc = "shown", !.reviews = saved] \in DetailLocals
      BY <2>0 DEF DetailLocals
    <3>2. QED
      BY <2>0, <2>3, <3>1, NothingTyped DEF DetailReviews
  <2>4. UNCHANGED <<provisioning, rows, review, access, writers>>
    BY <1>4 DEF DetailStep, DetailDocument, DetailJobs, DetailReviews
  <2>5. QED
    BY <1>4, <2>1, <2>2, <2>3, <2>4 DEF DetailStep, TypeOK, ProvisioningTypeOK
<1>5. CASE PipelineStep
  BY <1>5 DEF PipelineStep, DispatchRead, DispatchSave, Settle, TypeOK,
     ProvisioningTypeOK, Jobs
<1>6. CASE DeletionMove
  <2>0. /\ deletion \in DeletionLocals /\ saved \in SUBSET Reviews /\ jobs \in SUBSET Jobs
        /\ faults \in 0..MaxFaults
    BY DEF TypeOK
  <2>1. deletion' \in DeletionLocals
    <3>1. /\ [deletion EXCEPT !.pc = "purgingJobs", !.reviews = saved] \in DeletionLocals
          /\ [deletion EXCEPT !.pc = "marking", !.jobs = jobs] \in DeletionLocals
      BY <2>0 DEF DeletionLocals
    <3>2. QED
      BY <1>6, <3>1, NothingTyped DEF DeletionMove, DeletionStep, DeletionCheck, DeletionErase,
         PurgeReviews, PurgeJobs, DeletionCommit, DeletionFails, DeletionRollsBack
  <2>2. faults' \in 0..MaxFaults
    BY <1>6, <2>0, CallAssumption DEF DeletionMove, DeletionStep, DeletionCheck,
       DeletionErase, PurgeReviews, PurgeJobs, DeletionCommit, DeletionFails
  <2>3. /\ document' \in [deleted : BOOLEAN, key : {"quarantine", "validated", "deleted"},
                        content : BOOLEAN]
        /\ jobs' \subseteq Jobs /\ active' \subseteq Jobs
        /\ saved' \subseteq Reviews /\ audited' \subseteq Reviews \cup Accesses
    BY <1>6 DEF DeletionMove, DeletionStep, DeletionCheck, DeletionErase,
       PurgeReviews, PurgeJobs, DeletionCommit, DeletionFails, TypeOK
  <2>4. UNCHANGED <<provisioning, review, readers, dispatch>>
    BY <1>6 DEF DeletionMove, DeletionStep, DeletionCheck, DeletionErase,
       PurgeReviews, PurgeJobs, DeletionCommit, DeletionFails
  <2>5. QED
    BY <2>1, <2>2, <2>3, <2>4 DEF TypeOK, ProvisioningTypeOK
<1>7. ASSUME NEW r \in Reviews, BreakDeadlock(r) PROVE TypeOK'
  <2>1. [review[r] EXCEPT !.pc = "inserted"] \in ReviewLocals
    BY DEF TypeOK, ReviewLocals
  <2>2. review' \in [Reviews -> ReviewLocals] /\ deletion' \in DeletionLocals
    BY <1>7, <2>1, NothingTyped DEF BreakDeadlock, DeletionRollsBack, TypeOK
  <2>3. QED
    BY <1>7, <2>2 DEF BreakDeadlock, TypeOK, ProvisioningTypeOK
<1>8. CASE UNCHANGED vars
  BY <1>8 DEF vars, TypeOK, ProvisioningTypeOK
<1>9. QED
  BY <1>1, <1>2, <1>3, <1>4, <1>5, <1>6, <1>7, <1>8, NextByActor
------------------------------------------------------------------------------
(* Accounts *)

\* Every step keeps each person in one organization.
LEMMA AccountsStep == TypeOK /\ AccountsInv /\ [Next]_vars => AccountsInv'
<1> SUFFICES ASSUME TypeOK, AccountsInv, [Next]_vars PROVE AccountsInv'
  OBVIOUS
<1> USE DEF provisioning, rows, readers, writers
<1>0. /\ run \in [Runs -> RunLocals] /\ users \subseteq UserRow
      /\ pool \in [Emails -> Organizations \cup {Nobody}]
  BY DEF TypeOK, ProvisioningTypeOK
<1>1. ASSUME NEW p \in Runs, NEW o \in Organizations, NEW e \in Emails,
             EnsurePoolUser(p, o, e)
      PROVE  AccountsInv'
  <2>1. \A x \in Emails : pool[x] = Nobody \/ pool'[x] = pool[x]
    BY <1>0, <1>1 DEF EnsurePoolUser
  <2>2. \A x \in UserRow : x.organization = pool[x.email] => x.organization = pool'[x.email]
    BY <1>0, <2>1, NobodyAssumption DEF UserRow
  <2>3. ReviewerHasOneTenant'
    BY <1>0, <1>1, <2>2 DEF EnsurePoolUser, AccountsInv, ReviewerHasOneTenant
  <2>4. ASSUME NEW q \in Runs, run'[q].pc = "pooled"
        PROVE  run'[q].user \in UserRow /\ run'[q].user.organization = pool'[run'[q].user.email]
    <3>1. CASE run'[q] = run[q]
      BY <2>2, <2>4, <3>1 DEF AccountsInv, Pooled
    <3>2. CASE run'[q] # run[q]
      <4>1. run'[q] = [pc |-> "pooled", user |-> User(o, e)] /\ pool' = [pool EXCEPT ![e] = o]
        BY <1>0, <1>1, <2>4, <3>2 DEF EnsurePoolUser, RunLocals
      <4>2. QED
        BY <1>0, <4>1 DEF User, UserRow
    <3>3. QED
      BY <3>1, <3>2
  <2>5. QED
    BY <2>3, <2>4 DEF AccountsInv, Pooled
<1>2. ASSUME NEW p \in Runs, EnsureUserRow(p) PROVE AccountsInv'
  <2>1. run[p].pc = "pooled" /\ pool' = pool /\ users' \subseteq users \cup {run[p].user}
    BY <1>2 DEF EnsureUserRow
  <2>2. \A q \in Runs : run'[q] = run[q] \/ run'[q].pc # "pooled"
    BY <1>0, <1>2 DEF EnsureUserRow, RunLocals
  <2>3. QED
    BY <2>1, <2>2 DEF AccountsInv, Pooled, ReviewerHasOneTenant
<1>3. CASE UNCHANGED provisioning
  BY <1>3 DEF AccountsInv, Pooled, ReviewerHasOneTenant
<1>4. UNCHANGED provisioning \/ ProvisioningStep
  BY NextByActor DEF ReviewStep, ReviewRead, ReviewWait, ReviewInsert, ReviewCommit,
     BreakDeadlock, AccessStep, AccessRead, AccessCommit, DetailStep, DetailDocument,
     DetailJobs, DetailReviews, PipelineStep, DispatchRead, DispatchSave, Settle, DeletionMove,
     DeletionStep, DeletionCheck, DeletionErase, PurgeReviews, PurgeJobs,
     DeletionCommit, DeletionFails, vars
<1>5. QED
  BY <1>1, <1>2, <1>3, <1>4 DEF ProvisioningStep, ProvisioningNext

------------------------------------------------------------------------------
(* Reviews and the deletion *)

\* A step of a review call.
LEMMA ReviewStepKeeps ==
  ASSUME TypeOK, ReviewInv, NEW r \in Reviews, ReviewStep(r)
  PROVE  ReviewInv'
<1> USE DEF provisioning, rows, readers, writers
<1>0. /\ review \in [Reviews -> ReviewLocals] /\ saved \subseteq Reviews
      /\ \A s \in Reviews \ {r} : review'[s] = review[s]
      /\ UNCHANGED <<jobs, users, document, deletion>>
  BY DEF TypeOK, ReviewStep, ReviewRead, ReviewWait, ReviewInsert, ReviewCommit
<1>1. \A j : JobRowLocked(j)' = JobRowLocked(j)
  BY <1>0 DEF JobRowLocked
<1>2. ASSUME NEW e \in Emails, NEW j \in Jobs \cup {ForeignJob}, ReviewRead(r, e, j)
      PROVE  ReviewInv'
  <2>1. /\ saved' = saved /\ r \notin saved
        /\ \/ review'[r].pc = "refused"
           \/ /\ review'[r].pc = "checked" /\ review'[r].job = j /\ review'[r].by = e
              /\ j \in Jobs /\ User(Owner, e) \in users
    BY <1>0, <1>2 DEF ReviewRead, NoReview, Found, SignedIn, TypeOK, ReviewInv,
       SavedIsDone, ReviewLocals
  <2>2. QED
    BY <1>0, <1>1, <2>1 DEF ReviewInv, LetThrough, Inserted, SavedIsDone, ReviewHasItsJob,
       Purged, Tombstone
<1>3. CASE ReviewInsert(r)
  <2>1. /\ saved' = saved /\ r \notin saved /\ review[r].job \in Jobs
        /\ ~JobRowLocked(review[r].job) /\ User(Owner, review[r].by) \in users
        /\ \/ review'[r].pc = "refused"
           \/ /\ review'[r].job = review[r].job /\ review'[r].by = review[r].by
              /\ review'[r].pc = "inserted" /\ review[r].job \in jobs \cup {ForeignJob}
    BY <1>0, <1>3 DEF ReviewInsert, NoReview, ReviewInv, SavedIsDone, LetThrough, ReviewLocals
  <2>2. review[r].job # ForeignJob
    BY <2>1, JobAssumption DEF Jobs
  <2>3. QED
    BY <1>0, <1>1, <2>1, <2>2 DEF ReviewInv, LetThrough, Inserted, SavedIsDone,
       ReviewHasItsJob, Purged, Tombstone
<1>4. CASE ReviewCommit(r)
  <2>1. /\ saved' \in {saved, saved \cup {r}} /\ r \notin saved
        /\ review[r].job \in jobs \cap Jobs /\ ~JobRowLocked(review[r].job)
        /\ User(Owner, review[r].by) \in users
        /\ \/ review'[r].pc = "refused" /\ saved' = saved
           \/ /\ review'[r].pc = "done"
              /\ review'[r].job = review[r].job /\ review'[r].by = review[r].by
    BY <1>0, <1>4 DEF ReviewCommit, NoReview, ReviewInv, SavedIsDone, LetThrough, Inserted, ReviewLocals
  <2>2. QED
    BY <1>0, <1>1, <2>1 DEF ReviewInv, LetThrough, Inserted, SavedIsDone,
       ReviewHasItsJob, Purged, Tombstone, JobRowLocked
<1>5. CASE ReviewWait(r)
  <2>1. /\ saved' = saved /\ r \notin saved /\ review[r].job \in Jobs
        /\ review'[r].job = review[r].job /\ review'[r].by = review[r].by
        /\ review'[r].pc = "waiting" /\ User(Owner, review[r].by) \in users
    BY <1>0, <1>5 DEF ReviewWait, ReviewInv, SavedIsDone, LetThrough, ReviewLocals
  <2>2. QED
    BY <1>0, <1>1, <2>1 DEF ReviewInv, LetThrough, Inserted, SavedIsDone,
       ReviewHasItsJob, Purged, Tombstone
<1>6. QED
  BY <1>2, <1>3, <1>4, <1>5 DEF ReviewStep

\* Either of the two that wait for each other is given up.
LEMMA DeadlockKeeps ==
  ASSUME TypeOK, ReviewInv, NEW r \in Reviews, BreakDeadlock(r)
  PROVE  ReviewInv'
<1> USE DEF provisioning, rows, readers, writers
<1>1. /\ review \in [Reviews -> ReviewLocals]
      /\ \A s \in Reviews \ {r} : review'[s] = review[s]
      /\ UNCHANGED <<jobs, users, document, saved>>
      /\ review[r].pc = "waiting" /\ review[r].job \in deletion.jobs /\ deletion.pc = "marking"
  BY DEF TypeOK, BreakDeadlock, JobRowLocked
<1>2. review[r].job \in jobs /\ review[r].job \in Jobs /\ User(Owner, review[r].by) \in users
      /\ r \notin saved
  BY <1>1 DEF ReviewInv, Purged, LetThrough, SavedIsDone
<1>3. CASE review' = [review EXCEPT ![r] = NoReview("refused")] /\ UNCHANGED deletion
  <2>1. review'[r].pc = "refused"
    BY <1>1, <1>3 DEF NoReview
  <2>2. QED
    BY <1>1, <1>2, <1>3, <2>1 DEF ReviewInv, LetThrough, Inserted, SavedIsDone,
       ReviewHasItsJob, Purged, Tombstone, JobRowLocked
<1>4. CASE review' = [review EXCEPT ![r].pc = "inserted"] /\ DeletionRollsBack
  <2>1. /\ review'[r].pc = "inserted" /\ review'[r].job = review[r].job
        /\ review'[r].by = review[r].by /\ deletion'.pc = "start"
    BY <1>1, <1>4 DEF ReviewLocals, DeletionRollsBack, NoDeletion
  <2>2. QED
    BY <1>1, <1>2, <1>4, <2>1 DEF ReviewInv, LetThrough, Inserted, SavedIsDone,
       ReviewHasItsJob, Purged, Tombstone, JobRowLocked
<1>5. QED
  BY <1>3, <1>4 DEF BreakDeadlock

\* A dispatch only adds the late job, and a worker that settles a job none.
LEMMA PipelineKeeps ==
  ASSUME TypeOK, ReviewInv, PipelineStep
  PROVE  ReviewInv'
<1> USE DEF provisioning, rows, readers, writers
<1>1. /\ jobs' \in {jobs, jobs \cup {LateJob}} /\ document'.deleted = document.deleted
      /\ UNCHANGED <<users, saved, review, deletion>>
  BY DEF TypeOK, PipelineStep, DispatchRead, DispatchSave, Settle
<1>2. QED
  BY <1>1 DEF ReviewInv, LetThrough, Inserted, SavedIsDone, ReviewHasItsJob, Purged,
     Tombstone, JobRowLocked

\* A step of the deletion.
LEMMA DeletionKeeps ==
  ASSUME TypeOK, ReviewInv, DeletionMove
  PROVE  ReviewInv'
<1> USE DEF provisioning, rows, readers, writers
<1>0. deletion \in DeletionLocals /\ UNCHANGED <<users, review>>
  BY DEF TypeOK, DeletionMove, DeletionStep, DeletionCheck, DeletionErase,
     PurgeReviews, PurgeJobs, DeletionCommit, DeletionFails
<1>1. CASE DeletionCheck \/ DeletionErase \/ PurgeReviews \/ DeletionFails
  <2>1. /\ UNCHANGED <<saved, jobs>> /\ document'.deleted = document.deleted
        /\ deletion'.pc # "marking"
        /\ deletion'.pc \notin {"start", "done"} => ~document.deleted
    <3>1. UNCHANGED <<saved, jobs>> /\ document'.deleted = document.deleted
      BY <1>1 DEF DeletionCheck, DeletionErase, PurgeReviews, DeletionFails, TypeOK
    <3>2. CASE DeletionCheck
      BY <3>1, <3>2 DEF DeletionCheck, NoDeletion
    <3>3. CASE DeletionErase
      BY <3>1, <3>3 DEF DeletionErase, NoDeletion, ReviewInv, Tombstone
    <3>4. CASE PurgeReviews
      BY <1>0, <3>1, <3>4 DEF PurgeReviews, DeletionLocals, ReviewInv, Tombstone
    <3>5. CASE DeletionFails
      BY <3>1, <3>5 DEF DeletionFails, DeletionRollsBack, NoDeletion
    <3>6. QED
      BY <1>1, <3>1, <3>2, <3>3, <3>4, <3>5
  <2>2. QED
    BY <1>0, <2>1 DEF ReviewInv, LetThrough, Inserted, SavedIsDone, ReviewHasItsJob,
       Purged, Tombstone, JobRowLocked
<1>2. CASE PurgeJobs
  <2>1. /\ UNCHANGED <<saved, jobs, document>> /\ deletion.pc = "purgingJobs"
        /\ \A r \in Reviews : review[r].pc = "inserted" => review[r].job \notin jobs
    BY <1>2 DEF PurgeJobs
  <2>2. \/ deletion'.pc = "start"
        \/ /\ deletion'.pc = "marking" /\ deletion'.jobs = jobs
           /\ deletion'.reviews = deletion.reviews
           /\ \A r \in saved \ deletion.reviews : review[r].job \notin jobs
    <3>1. CASE deletion' = NoDeletion("start")
      BY <3>1 DEF NoDeletion
    <3>2. CASE deletion' # NoDeletion("start")
      <4>1. /\ deletion' = [deletion EXCEPT !.pc = "marking", !.jobs = jobs]
            /\ ~\E r \in saved \ deletion.reviews : review[r].job \in jobs
        BY <1>2, <3>2 DEF PurgeJobs, DeletionRollsBack
      <4>2. QED
        BY <1>0, <4>1 DEF DeletionLocals
    <3>3. QED
      BY <3>1, <3>2
  <2>3. QED
    BY <1>0, <2>1, <2>2 DEF ReviewInv, LetThrough, Inserted, SavedIsDone,
       ReviewHasItsJob, Purged, Tombstone, JobRowLocked
<1>3. CASE DeletionCommit
  <2>1. /\ deletion.pc = "marking" /\ deletion'.pc = "done" /\ document'.deleted
        /\ saved' = saved \ deletion.reviews /\ jobs' = jobs \ deletion.jobs
    BY <1>3 DEF DeletionCommit, NoDeletion, TypeOK
  <2>2. QED
    BY <1>0, <2>1 DEF ReviewInv, LetThrough, Inserted, SavedIsDone, ReviewHasItsJob,
       Purged, Tombstone, JobRowLocked
<1>4. QED
  BY <1>1, <1>2, <1>3 DEF DeletionMove, DeletionStep

\* Every step keeps ReviewInv.
LEMMA ReviewInvStep == TypeOK /\ ReviewInv /\ [Next]_vars => ReviewInv'
<1> SUFFICES ASSUME TypeOK, ReviewInv, [Next]_vars PROVE ReviewInv'
  OBVIOUS
<1> USE DEF provisioning, rows, readers, writers
<1>1. CASE ProvisioningStep
  <2>1. users \subseteq users' /\ UNCHANGED <<rows, review, deletion>>
    BY <1>1 DEF ProvisioningStep, ProvisioningNext, EnsurePoolUser, EnsureUserRow
  <2>2. QED
    BY <2>1 DEF ReviewInv, LetThrough, Inserted, SavedIsDone, ReviewHasItsJob, Purged,
       Tombstone, JobRowLocked
<1>2. ASSUME UNCHANGED <<users, document, jobs, saved, review, deletion>>
      PROVE  ReviewInv'
  BY <1>2 DEF ReviewInv, LetThrough, Inserted, SavedIsDone, ReviewHasItsJob, Purged,
     Tombstone, JobRowLocked
<1>3. ASSUME \/ \E a \in Accesses : AccessStep(a)
             \/ \E v \in Details : DetailStep(v)
             \/ UNCHANGED vars
      PROVE  UNCHANGED <<users, document, jobs, saved, review, deletion>>
  BY <1>3 DEF AccessStep, AccessRead, AccessCommit, DetailStep, DetailDocument,
     DetailJobs, DetailReviews, vars
<1>4. QED
  BY <1>1, <1>2, <1>3, ReviewStepKeeps, DeadlockKeeps, PipelineKeeps,
     DeletionKeeps, NextByActor

------------------------------------------------------------------------------
(* The audit history and the detail *)

\* Where saved and audited change.
LEMMA AuditStep == TypeOK /\ ReviewInv /\ EffectsAreAudited /\ [Next]_vars => EffectsAreAudited'
<1> SUFFICES ASSUME TypeOK, ReviewInv, EffectsAreAudited, [Next]_vars
             PROVE  EffectsAreAudited'
  OBVIOUS
<1> USE DEF provisioning, rows, readers, writers
<1>1. ASSUME NEW r \in Reviews, ReviewStep(r) PROVE EffectsAreAudited'
  BY <1>1 DEF ReviewStep, ReviewRead, ReviewWait, ReviewInsert, ReviewCommit, EffectsAreAudited
<1>2. ASSUME NEW a \in Accesses, AccessStep(a) PROVE EffectsAreAudited'
  <2>1. /\ UNCHANGED <<document, saved>> /\ audited \subseteq audited'
        /\ audited' \subseteq audited \cup {a}
        /\ \A b \in Accesses : access'[b] = "issued" => access[b] = "issued" \/ b \in audited'
    BY <1>2 DEF AccessStep, AccessRead, AccessCommit, TypeOK
  <2>2. a \notin Reviews
    BY CallAssumption
  <2>3. QED
    BY <2>1, <2>2 DEF EffectsAreAudited
<1>3. CASE DeletionMove
  <2>1. /\ UNCHANGED <<audited, access>> /\ saved' \subseteq saved
        /\ \/ saved' = saved /\ document'.deleted = document.deleted
           \/ document'.deleted
    BY <1>3 DEF DeletionMove, DeletionStep, DeletionCheck, DeletionErase,
       PurgeReviews, PurgeJobs, DeletionCommit, DeletionFails, TypeOK
  <2>2. QED
    BY <2>1 DEF EffectsAreAudited
<1>4. ASSUME ProvisioningStep \/ (\E v \in Details : DetailStep(v)) \/ PipelineStep
             \/ UNCHANGED vars
      PROVE  EffectsAreAudited'
  <2>1. UNCHANGED <<audited, access, saved>> /\ document'.deleted = document.deleted
    BY <1>4 DEF ProvisioningStep, DetailStep, DetailDocument, DetailJobs,
       DetailReviews, PipelineStep, DispatchRead, DispatchSave, Settle, TypeOK, vars
  <2>2. QED
    BY <2>1 DEF EffectsAreAudited
<1>5. ASSUME NEW r \in Reviews, BreakDeadlock(r) PROVE EffectsAreAudited'
  BY <1>5 DEF BreakDeadlock, EffectsAreAudited
<1>6. QED
  BY <1>1, <1>2, <1>3, <1>4, <1>5, NextByActor

\* No step of the document's life spoils what a detail request holds.
LEMMA DetailStepKeeps ==
  TypeOK /\ ReviewInv /\ DetailSoFar /\ DetailIsWhole /\ [Next]_vars
      => DetailSoFar' /\ DetailIsWhole'
<1> SUFFICES ASSUME TypeOK, ReviewInv, DetailSoFar, DetailIsWhole, [Next]_vars
             PROVE  DetailSoFar' /\ DetailIsWhole'
  OBVIOUS
<1> USE DEF provisioning, rows, readers, writers
<1>0. /\ detail \in [Details -> DetailLocals] /\ review \in [Reviews -> ReviewLocals]
      /\ saved \subseteq Reviews
  BY DEF TypeOK
<1>1. ASSUME UNCHANGED detail,
             \A r \in Reviews : review[r].pc = "done" => review'[r] = review[r],
             ~document'.deleted => ~document.deleted /\ saved \subseteq saved'
      PROVE  DetailSoFar' /\ DetailIsWhole'
  BY <1>0, <1>1 DEF DetailSoFar, DetailIsWhole, DetailLocals
<1>2. ASSUME NEW v \in Details, DetailStep(v)
      PROVE  DetailSoFar' /\ DetailIsWhole'
  <2>0. /\ UNCHANGED <<document, jobs, saved, review>>
        /\ \A u \in Details \ {v} : detail'[u] = detail[u]
    BY <1>0, <1>2 DEF DetailStep, DetailDocument, DetailJobs, DetailReviews
  <2>1. ASSUME NEW e \in Emails, DetailDocument(v, e)
        PROVE  DetailSoFar' /\ DetailIsWhole'
    <3>1. \/ detail'[v].pc = "jobs" /\ detail'[v].known = saved
          \/ detail'[v].pc = "refused"
      BY <1>0, <2>1 DEF DetailDocument, NoDetail, DetailLocals
    <3>2. QED
      BY <2>0, <3>1 DEF DetailSoFar, DetailIsWhole, ReviewInv, SavedIsDone
  <2>2. CASE DetailJobs(v)
    <3>1. /\ detail[v].pc = "jobs" /\ detail'[v].pc = "reviews"
          /\ detail'[v].known = detail[v].known /\ detail'[v].jobs = jobs
      BY <1>0, <2>2 DEF DetailJobs, DetailLocals
    <3>2. QED
      BY <2>0, <3>1 DEF DetailSoFar, DetailIsWhole, ReviewInv, ReviewHasItsJob
  <2>3. CASE DetailReviews(v)
    <3>1. /\ detail[v].pc = "reviews"
          /\ \/ detail'[v].pc = "refused"
             \/ /\ detail'[v].pc = "shown" /\ detail'[v].reviews = saved
                /\ detail'[v].known = detail[v].known /\ detail'[v].jobs = detail[v].jobs
                /\ ~document.deleted
      BY <1>0, <2>3 DEF DetailReviews, NoDetail, DetailLocals
    <3>2. QED
      BY <2>0, <3>1 DEF DetailSoFar, DetailIsWhole
  <2>4. QED
    BY <1>2, <2>1, <2>2, <2>3 DEF DetailStep
<1>3. ASSUME NEW r \in Reviews, ReviewStep(r)
      PROVE  DetailSoFar' /\ DetailIsWhole'
  <2>1. /\ UNCHANGED <<detail, document>> /\ saved \subseteq saved'
        /\ \A s \in Reviews : review[s].pc = "done" => review'[s] = review[s]
    BY <1>0, <1>3 DEF ReviewStep, ReviewRead, ReviewWait, ReviewInsert, ReviewCommit
  <2>2. QED
    BY <1>1, <2>1
<1>4. CASE DeletionMove
  <2>1. /\ UNCHANGED <<detail, review>>
        /\ ~document'.deleted => ~document.deleted /\ saved \subseteq saved'
    BY <1>4 DEF DeletionMove, DeletionStep, DeletionCheck, DeletionErase,
       PurgeReviews, PurgeJobs, DeletionCommit, DeletionFails, TypeOK
  <2>2. QED
    BY <1>1, <2>1
<1>5. ASSUME ProvisioningStep \/ (\E a \in Accesses : AccessStep(a)) \/ PipelineStep
             \/ UNCHANGED vars
      PROVE  DetailSoFar' /\ DetailIsWhole'
  <2>1. UNCHANGED <<detail, review, saved>> /\ document'.deleted = document.deleted
    BY <1>5 DEF ProvisioningStep, AccessStep, AccessRead, AccessCommit, PipelineStep,
       DispatchRead, DispatchSave, Settle, TypeOK, vars
  <2>2. QED
    BY <1>1, <2>1
<1>6. ASSUME NEW r \in Reviews, BreakDeadlock(r)
      PROVE  DetailSoFar' /\ DetailIsWhole'
  <2>1. /\ UNCHANGED <<detail, document, saved>>
        /\ \A s \in Reviews : review[s].pc = "done" => review'[s] = review[s]
    BY <1>0, <1>6 DEF BreakDeadlock
  <2>2. QED
    BY <1>1, <2>1
<1>7. QED
  BY <1>2, <1>3, <1>4, <1>5, <1>6, NextByActor

------------------------------------------------------------------------------
(* The theorems *)

\* The invariant holds in every reachable state.
THEOREM InvHolds == Spec => []Inv
<1>1. Init => Inv
  <2> SUFFICES ASSUME Init PROVE Inv
    OBVIOUS
  <2>1. AccountsInv
    BY DEF Init, ProvisioningInit, AccountsInv, ReviewerHasOneTenant, Pooled
  <2>2. ReviewInv
    <3>1. saved = {} /\ deletion.pc = "start"
      BY DEF Init, NoDeletion
    <3>2. document.deleted = FALSE
      BY DEF Init
    <3>3. \A r \in Reviews : review[r].pc = "start"
      BY DEF Init, NoReview
    <3>4. QED
      BY <3>1, <3>2, <3>3 DEF ReviewInv, LetThrough, Inserted, SavedIsDone,
         ReviewHasItsJob, Purged, Tombstone
  <2>3. EffectsAreAudited /\ DetailSoFar /\ DetailIsWhole
    BY DEF Init, NoDetail, EffectsAreAudited, DetailSoFar, DetailIsWhole
  <2>4. QED
    BY <2>1, <2>2, <2>3, TypeInit DEF Inv
<1>2. Inv /\ [Next]_vars => Inv'
  BY TypeStep, AccountsStep, ReviewInvStep, AuditStep, DetailStepKeeps DEF Inv, AccountsInv
<1>3. QED
  BY <1>1, <1>2, PTL DEF Spec

\* All variables keep their types, whatever fails.
THEOREM TypeCorrect == Spec => []TypeOK
<1>1. Inv => TypeOK
  BY DEF Inv
<1>2. QED
  BY <1>1, InvHolds, PTL

\* No order of provisioning runs, complete or not, puts a person in two
\* organizations.
THEOREM OneTenant == Spec => []ReviewerHasOneTenant
<1>1. Inv => ReviewerHasOneTenant
  BY DEF Inv, AccountsInv
<1>2. QED
  BY <1>1, InvHolds, PTL

\* No review outlives its job, whichever of a review and a deletion waits for
\* the other.
THEOREM ReviewKeepsItsJob == Spec => []ReviewHasItsJob
<1>1. Inv => ReviewHasItsJob
  BY DEF Inv, ReviewInv
<1>2. QED
  BY <1>1, InvHolds, PTL

\* A deletion that commits has taken every review, except one of a job that
\* was dispatched after its jobs were purged.
THEOREM TombstoneIsClean == Spec => []TombstoneKeepsNoReview
<1>1. Inv => TombstoneKeepsNoReview
  BY DEF Inv, ReviewInv, Tombstone, ReviewHasItsJob, TombstoneKeepsNoReview
<1>2. QED
  BY <1>1, InvHolds, PTL

\* Reviews are made by users of the organization that owns the document.
THEOREM TenantHolds == Spec => []ReviewStaysInTenant
<1>1. Inv => ReviewStaysInTenant
  BY DEF Inv, TypeOK, ReviewInv, LetThrough, SavedIsDone, ReviewStaysInTenant
<1>2. QED
  BY <1>1, InvHolds, PTL

\* The audit history says neither more nor less than what was done.
THEOREM AuditHolds == Spec => []EffectsAreAudited
<1>1. Inv => EffectsAreAudited
  BY DEF Inv
<1>2. QED
  BY <1>1, InvHolds, PTL

\* Nobody is shown half of a document, however many statements it takes.
THEOREM DetailHolds == Spec => []DetailIsWhole
<1>1. Inv => DetailIsWhole
  BY DEF Inv
<1>2. QED
  BY <1>1, InvHolds, PTL

\* Only the commit of a deletion takes reviews away.
THEOREM ReviewsStay == Spec => ReviewGoesWithItsDocument
<1>1. Inv /\ [Next]_vars =>
        [saved \subseteq saved' \/ (~document.deleted /\ document'.deleted)]_vars
  <2> SUFFICES ASSUME Inv, [Next]_vars
               PROVE  saved \subseteq saved' \/ (~document.deleted /\ document'.deleted)
    OBVIOUS
  <2> USE DEF provisioning, rows, readers, writers
  <2>1. CASE DeletionMove
    <3>1. saved' = saved \/ (deletion.pc = "marking" /\ document'.deleted)
      BY <2>1 DEF DeletionMove, DeletionStep, DeletionCheck, DeletionErase,
         PurgeReviews, PurgeJobs, DeletionCommit, DeletionFails, Inv, TypeOK
    <3>2. QED
      BY <3>1 DEF Inv, ReviewInv, Tombstone
  <2>2. ASSUME NEW r \in Reviews, ReviewStep(r) PROVE saved \subseteq saved'
    BY <2>2 DEF ReviewStep, ReviewRead, ReviewWait, ReviewInsert, ReviewCommit
  <2>3. ASSUME ProvisioningStep \/ (\E a \in Accesses : AccessStep(a))
               \/ (\E v \in Details : DetailStep(v)) \/ PipelineStep \/ UNCHANGED vars
        PROVE  saved \subseteq saved'
    BY <2>3 DEF ProvisioningStep, AccessStep, AccessRead, AccessCommit, DetailStep,
       DetailDocument, DetailJobs, DetailReviews, PipelineStep, DispatchRead,
       DispatchSave, Settle, vars
  <2>4. ASSUME NEW r \in Reviews, BreakDeadlock(r) PROVE saved \subseteq saved'
    BY <2>4 DEF BreakDeadlock
  <2>5. QED
    BY <2>1, <2>2, <2>3, <2>4, NextByActor
<1>2. QED
  BY <1>1, InvHolds, PTL DEF Spec, ReviewGoesWithItsDocument

===============================================================================
