-------------------------- MODULE DocumentRepository --------------------------
(***************************************************************************)
(* The documents row and what each repository method makes of it           *)
(* (app/db/repositories/documents.py), as pure operators on one row.       *)
(*                                                                         *)
(* The session remembers the row it first loaded.  A flush writes the      *)
(* columns whose new value differs from the REMEMBERED one and leaves the  *)
(* others as they are in the table, which a concurrent transaction may     *)
(* have changed: that is Flush.                                            *)
(***************************************************************************)

\* DocumentStatus; nothing in the program assigns "validated".
DocumentStatus == {"quarantined", "queued", "processing", "completed",
                   "failed", "deleted"}

\* storage_key: the document's key under the quarantine prefix, its key under
\* the validated prefix, or the tombstone "deleted/...".
StorageKey == {"quarantine", "validated", "tombstone"}

\* `deleted' is deleted_at IS NOT NULL.
DocumentRow == [status : DocumentStatus, key : StorageKey, deleted : BOOLEAN]

\* The row persist_quarantined_upload commits.
UploadedDocument ==
    [status |-> "quarantined", key |-> "quarantine", deleted |-> FALSE]

\* mark_processing and the worker's check of the storage key raise ValueError
\* unless this holds of the row.
ReadyForProcessing(doc) ==
    doc.status \in {"queued", "processing"} /\ doc.key # "tombstone"

\* mark_processing, mark_completed, mark_queued_for_retry, mark_failed and
\* mark_deleted on the remembered row.  A completed document keeps its status
\* when a job is retried or fails, but takes the storage key it is given.
MarkProcessing(doc) == [doc EXCEPT !.status = "processing"]

Marked(op, doc, key) ==
    CASE op = "complete" -> [doc EXCEPT !.status = "completed", !.key = key]
      [] op # "complete" /\ doc.status = "completed" -> [doc EXCEPT !.key = key]
      [] op = "retry" /\ doc.status # "completed" ->
             [doc EXCEPT !.status = "queued", !.key = key]
      [] OTHER -> [doc EXCEPT !.status = "failed", !.key = key]

MarkDeleted(doc) == [status |-> "deleted", key |-> "tombstone", deleted |-> TRUE]

\* The table row once the session that remembers `read' flushes `image'.
Flush(row, read, image) ==
    [status  |-> IF image.status = read.status THEN row.status ELSE image.status,
     key     |-> IF image.key = read.key THEN row.key ELSE image.key,
     deleted |-> row.deleted \/ image.deleted]

==============================================================================
