---------------------------- MODULE DocumentStorage ----------------------------
(***************************************************************************)
(* What puts a document's content in the bucket and what takes it out:     *)
(* the upload (object first, then the row, and a compensating delete), the *)
(* promotion by a worker, the bucket's lifecycle rules, the deletion by    *)
(* its owner and the retention runs, which list a bounded batch of expired *)
(* documents, oldest first, and delete them one by one.  A dispatch with   *)
(* its processing is one step here, and so is a deletion with its outcome; *)
(* DocumentPipeline has their steps.                                       *)
(***************************************************************************)
EXTENDS UploadValidator, FiniteSets

CONSTANTS
    N,              \* documents 1..N in the order of (retention_until, id)
    Uploading,      \* those not uploaded yet; the others are completed and expired
    Batch,          \* retention_delete_batch_size
    Stuck,          \* documents whose deletion always fails
    QuarantineDays, \* expiration of the rule for the quarantine prefix
    RetentionDays,  \* document_retention_days
    GraceDays       \* what the rule for the validated prefix adds to them

ASSUME StorageAssumption ==
    /\ N \in Nat /\ Batch \in Nat \ {0}
    /\ Stuck \subseteq 1..N /\ Uploading \subseteq 1..N
    /\ QuarantineDays \in Nat \ {0} /\ RetentionDays \in Nat \ {0}
    /\ GraceDays \in Nat

Documents == 1..N

VARIABLES
    call,    \* the control state of each upload call
    body,    \* length of the file sent, and of what was read of it
    row,     \* the documents row: its status, or absent
    rowAge,  \* days since it was saved; retention_until is at RetentionDays
    object,  \* where the document's object is
    age,     \* days since that object was written
    noncurrent, \* the keys that hold a noncurrent version of the document
    erased,  \* documents of which a deletion has removed the object (history)
    batch    \* the candidates the current retention run has still to delete

vars == <<call, body, row, rowAge, object, age, noncurrent, erased, batch>>
upload == <<call, body>>
rows == <<row, rowAge>>
bucket == <<object, age, noncurrent>>
retention == <<erased, batch>>

\* Slip: the retention is left out.
GraceOnly == GraceDays

BackstopDays == RetentionDays + GraceDays
OldestObject == Max({QuarantineDays, BackstopDays})

\* The bodies the validator lets through, as they were sent and as they were read.
Admitted == {[sent |-> f.length, read |-> Body(f)] : f \in {g \in File : Accepted(g)}}
SomeRefused == \E f \in File : ~Accepted(f)

CallState == {"posting", "storing", "saving", "undoing", "accepted", "refused", "dead"}
RowStatus == {"absent", "quarantined", "active", "completed", "failed", "deleted"}
Saved == {d \in Documents : row[d] # "absent"}

TypeOK ==
    /\ call \in [Documents -> CallState]
    /\ body \in [Documents -> [sent : 0..(MaxBytes + 2), read : 0..(MaxBytes + 1)]]
    /\ row \in [Documents -> RowStatus]
    /\ rowAge \in [Documents -> 0..RetentionDays]
    /\ object \in [Documents -> {"none", "quarantine", "validated"}]
    /\ age \in [Documents -> 0..OldestObject]
    /\ noncurrent \in [Documents -> SUBSET {"quarantine", "validated"}]
    /\ erased \subseteq Documents
    /\ batch \subseteq Documents

Init ==
    /\ call = [d \in Documents |-> IF d \in Uploading THEN "posting" ELSE "accepted"]
    /\ body = [d \in Documents |-> [sent |-> 1, read |-> 1]]
    /\ row = [d \in Documents |-> IF d \in Uploading THEN "absent" ELSE "completed"]
    /\ rowAge = [d \in Documents |-> IF d \in Uploading THEN 0 ELSE RetentionDays]
    /\ object = [d \in Documents |-> IF d \in Uploading THEN "none" ELSE "validated"]
    /\ age = [d \in Documents |-> IF d \in Uploading THEN 0 ELSE RetentionDays]
    /\ noncurrent = [d \in Documents |-> IF d \in Uploading THEN {} ELSE {"quarantine"}]
    /\ erased = {}
    /\ batch = {}

\* The bucket is versioned, and neither an expiration nor a delete call names a
\* version: the object is gone, and its bytes stay as a noncurrent version.
Removed(d) ==
    /\ object' = [object EXCEPT ![d] = "none"]
    /\ noncurrent' = [noncurrent EXCEPT ![d] = @ \cup ({object[d]} \ {"none"})]

------------------------------------------------------------------------------
(* upload_document and persist_quarantined_upload *)

\* The file is read up to one byte more than the limit, and validated.
Post(d) ==
    /\ call[d] = "posting"
    /\ \/ \E b \in Admitted :
              /\ body' = [body EXCEPT ![d] = b]
              /\ call' = [call EXCEPT ![d] = "storing"]
       \/ /\ SomeRefused
          /\ call' = [call EXCEPT ![d] = "refused"]
          /\ UNCHANGED body
    /\ UNCHANGED <<rows, bucket, retention>>

Stored(d) == object' = [object EXCEPT ![d] = "quarantine"]

\* Slip: what the store call answers is not looked at.
StoreUnheeded(d) ==
    /\ call[d] = "storing"
    /\ Stored(d) \/ UNCHANGED object
    /\ call' = [call EXCEPT ![d] = "saving"]
    /\ UNCHANGED <<body, rows, age, noncurrent, retention>>

\* upload_quarantined; a call that fails may have stored the object.
Store(d) ==
    /\ call[d] = "storing"
    /\ \/ /\ Stored(d)
          /\ call' = [call EXCEPT ![d] = "saving"]
       \/ /\ Stored(d) \/ UNCHANGED object
          /\ call' = [call EXCEPT ![d] = "undoing"]
    /\ UNCHANGED <<body, rows, age, noncurrent, retention>>

\* The document and audit rows are committed; a commit whose answer is lost
\* looks like one that failed.
Save(d) ==
    /\ call[d] = "saving"
    /\ \/ /\ row' = [row EXCEPT ![d] = "quarantined"]
          /\ call' = [call EXCEPT ![d] = "accepted"]
       \/ /\ row' \in {row, [row EXCEPT ![d] = "quarantined"]}
          /\ call' = [call EXCEPT ![d] = "undoing"]
    /\ UNCHANGED <<body, rowAge, bucket, retention>>

\* _delete_quarantine_object: one try, errors are swallowed.
Undo(d) ==
    /\ call[d] = "undoing"
    /\ \/ object[d] = "quarantine" /\ Removed(d)
       \/ UNCHANGED <<object, noncurrent>>
    /\ call' = [call EXCEPT ![d] = "refused"]
    /\ UNCHANGED <<body, rows, age, retention>>

\* The API process dies.
Die(d) ==
    /\ call[d] \in {"storing", "saving", "undoing"}
    /\ call' = [call EXCEPT ![d] = "dead"]
    /\ UNCHANGED <<body, rows, bucket, retention>>

------------------------------------------------------------------------------
(* Time and the lifecycle rules of the bucket *)

\* A day passes; ages are counted as far as a rule asks for them.
Day ==
    /\ rowAge' = [d \in Documents |->
           IF d \in Saved THEN Min({rowAge[d] + 1, RetentionDays}) ELSE 0]
    /\ age' = [d \in Documents |->
           IF object[d] = "none" THEN age[d] ELSE Min({age[d] + 1, OldestObject})]
    /\ UNCHANGED <<upload, row, object, noncurrent, retention>>

Outlived(d) ==
    \/ object[d] = "quarantine" /\ age[d] >= QuarantineDays
    \/ object[d] = "validated" /\ age[d] >= BackstopDays

\* Slip: only the rule for the validated prefix is there.
RulesForValidated(d) ==
    /\ object[d] = "validated" /\ age[d] >= BackstopDays
    /\ Removed(d)
    /\ UNCHANGED <<upload, rows, age, retention>>

\* The rules know the prefix and the age of an object, not its row.
Lifecycle(d) ==
    /\ Outlived(d)
    /\ Removed(d)
    /\ UNCHANGED <<upload, rows, age, retention>>

\* noncurrent_version_expiration, which only the rule for the validated prefix
\* has.  Nothing here asks on which day it comes.
VersionExpires(d) ==
    /\ "validated" \in noncurrent[d]
    /\ noncurrent' = [noncurrent EXCEPT ![d] = @ \ {"validated"}]
    /\ UNCHANGED <<upload, rows, object, age, retention>>

------------------------------------------------------------------------------
(* The pipeline *)

\* dispatch_processing_job reads the row only, not the bucket.
Dispatch(d) ==
    /\ row[d] = "quarantined"
    /\ row' = [row EXCEPT ![d] = "active"]
    /\ UNCHANGED <<upload, rowAge, bucket, retention>>

Promoted(d) ==
    /\ object[d] # "none"
    /\ object' = [object EXCEPT ![d] = "validated"]
    /\ age' = [age EXCEPT ![d] = IF object[d] = "validated" THEN @ ELSE 0]
    /\ noncurrent' = [noncurrent EXCEPT ![d] = @ \cup ({object[d]} \ {"validated"})]

\* Processed, promoted and completed; or given up on, before or after it was
\* promoted.
Settle(d) ==
    /\ row[d] = "active"
    /\ \/ /\ row' = [row EXCEPT ![d] = "completed"]
          /\ Promoted(d)
       \/ /\ row' = [row EXCEPT ![d] = "failed"]
          /\ Promoted(d) \/ UNCHANGED bucket
    /\ UNCHANGED <<upload, rowAge, retention>>

------------------------------------------------------------------------------
(* DocumentDeletionService.delete and RetentionDeletionWorker.run_once *)

\* Both objects are deleted, then the row becomes a tombstone.
Deleted(d) ==
    /\ Removed(d)
    /\ erased' = erased \cup {d}
    /\ row' = [row EXCEPT ![d] = "deleted"]

\* A storage or database error; the row is rolled back, an object is not.
DeletionFails(d) ==
    /\ \/ Removed(d) /\ erased' = erased \cup {d}
       \/ UNCHANGED <<object, noncurrent, erased>>
    /\ UNCHANGED row

\* DELETE /documents/{id} by the owner.
UserDeletes(d) ==
    /\ row[d] \in {"quarantined", "completed", "failed"}
    /\ (d \notin Stuck /\ Deleted(d)) \/ DeletionFails(d)
    /\ UNCHANGED <<upload, rowAge, age, batch>>

Due(d) == row[d] # "absent" /\ rowAge[d] = RetentionDays

\* Slip: deleted_at is not looked at.
CandidatesWithTombstones == {d \in Documents : Due(d) /\ row[d] # "active"}

\* list_retention_candidates
Candidates == {d \in Documents : Due(d) /\ row[d] \notin {"active", "deleted"}}

\* The first Batch of them.
List ==
    /\ batch = {}
    /\ Candidates # {}
    /\ batch' = {d \in Candidates : Cardinality({c \in Candidates : c < d}) < Batch}
    /\ UNCHANGED <<upload, rows, bucket, erased>>

\* The next candidate: already deleted, active by now, deleted or failing.
DeleteNext(d) ==
    /\ d \in batch /\ \A c \in batch : d <= c
    /\ batch' = batch \ {d}
    /\ IF row[d] \in {"active", "deleted"} THEN UNCHANGED <<row, object, noncurrent, erased>>
       ELSE (d \notin Stuck /\ Deleted(d)) \/ DeletionFails(d)
    /\ UNCHANGED <<upload, rowAge, age>>

\* The task is stopped, or an error escapes run_once.
Stop ==
    /\ batch # {}
    /\ batch' = {}
    /\ UNCHANGED <<upload, rows, bucket, erased>>

------------------------------------------------------------------------------

Next ==
    \/ Day \/ List \/ Stop
    \/ \E d \in Documents :
           \/ Post(d) \/ Store(d) \/ Save(d) \/ Undo(d) \/ Die(d)
           \/ Lifecycle(d) \/ VersionExpires(d) \/ Dispatch(d) \/ Settle(d)
           \/ UserDeletes(d) \/ DeleteNext(d)

\* Days pass, S3 applies its rules, the schedule starts retention runs, what
\* was dispatched settles, and no error hits the deletion of the same document
\* for ever.  Callers owe nothing.  A document settles once and its object and
\* its validated version expire at most once, so one fairness condition serves
\* all documents.
Spec ==
    /\ Init /\ [][Next]_vars
    /\ WF_vars(Day) /\ WF_vars(List)
    /\ WF_vars(\E d \in Documents : Lifecycle(d))
    /\ WF_vars(\E d \in Documents : VersionExpires(d))
    /\ WF_vars(\E d \in Documents : Settle(d))
    /\ \A d \in Documents :
           SF_vars(DeleteNext(d) /\ (d \in Stuck \/ row'[d] \in {"active", "deleted"}))

------------------------------------------------------------------------------
(* Properties *)

\* A call that answers 201 has left a row and an object; the object can only
\* have gone by a deletion, or by a lifecycle rule not before its days.
AcceptedUploadIsStored ==
    \A d \in Documents : call[d] = "accepted" =>
        /\ d \in Saved
        /\ object[d] # "none" \/ d \in erased
           \/ age[d] >= QuarantineDays \/ age[d] >= BackstopDays

\* What was read of a file, and so what is stored and what size_bytes says, is
\* all of it, and not more than the worker reads of an object.
StoredFileIsWhole ==
    \A d \in Documents : object[d] # "none" =>
        body[d].read = body[d].sent /\ body[d].read <= MaxBytes

\* The lifecycle rules take nothing from a completed document before its
\* retention is over, whenever it was promoted.
CompletedContentIsKept ==
    \A d \in Documents :
        row[d] = "completed" /\ d \notin erased /\ rowAge[d] < RetentionDays
            => object[d] = "validated"

\* The object of a document, or bytes of it that were once validated.
Held(d) == object[d] # "none" \/ "validated" \in noncurrent[d]

\* Objects go in the end, whatever fails and wherever a process dies: that of
\* an upload without a row, of a document that was never dispatched, and of one
\* whose deletion fails each time; and what was promoted goes in every version.
\* What once lay in quarantine is another matter: no rule expires the noncurrent
\* versions of that prefix, so the bytes of every upload that was promoted,
\* deleted or expired there stay in the bucket.
ContentGoesInTheEnd == \A d \in Documents : Held(d) ~> ~Held(d)

\* Fewer documents that cannot be deleted than a batch holds do not keep the
\* others alive: each of those is deleted once it has expired.
ExpiredDocumentsGo ==
    \A d \in Documents \ Stuck : Due(d) ~> row[d] = "deleted"

==============================================================================
