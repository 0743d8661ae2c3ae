---------------------------- MODULE JobRepository ----------------------------
(***************************************************************************)
(* The processing_jobs row and what each repository method makes of it     *)
(* (app/db/repositories/jobs.py).  These are pure operators on one row:    *)
(* DocumentPipeline gives them their place in transactions.                *)
(*                                                                         *)
(* A method of the repository reads the row, decides on the status it      *)
(* READ, and flushes an UPDATE of the columns it changed, WHERE id = ...:  *)
(* nothing in that UPDATE looks at the status again.  The row as read and  *)
(* the row as it is when the UPDATE runs are therefore two arguments here. *)
(* Only `claim' is one conditional UPDATE.                                 *)
(***************************************************************************)
EXTENDS Naturals

CONSTANT MaxAttempts    \* processing_jobs.max_attempts, 4 in the code

ASSUME MaxAttemptsAssumption == MaxAttempts \in Nat \ {0}

\* JobStatus, and "absent" for no row.
JobStatus == {"queued", "processing", "completed", "failed", "dead_lettered"}
ActiveStatus == {"queued", "processing"}
SettledStatus == JobStatus \ ActiveStatus

\* `stale' abstracts started_at <= now - stale_after: has the running claim
\* outlived the lease?  It is FALSE outside "processing".
JobRow == [status : JobStatus \cup {"absent"}, attempts : 0..MaxAttempts,
           stale : BOOLEAN]

NoRow  == [status |-> "absent", attempts |-> 0, stale |-> FALSE]
NewRow == [status |-> "queued", attempts |-> 0, stale |-> FALSE]

Exists(row) == row.status # "absent"

------------------------------------------------------------------------------
(* claim *)

\* Slips: claims without a limit; a claim that does not count the attempt.
ClaimableForever(row) ==
    \/ row.status = "queued"
    \/ row.status = "processing" /\ row.stale
ClaimedUncounted(row) ==
    [row EXCEPT !.status = "processing", !.stale = FALSE]

Claimable(row) ==
    /\ row.attempts < MaxAttempts
    /\ \/ row.status = "queued"
       \/ row.status = "processing" /\ row.stale

Claimed(row) ==
    [status |-> "processing", attempts |-> row.attempts + 1, stale |-> FALSE]

\* Slip: any job somebody else has in hand counts as done.
UnclaimedStateLenient(row) ==
    IF row.status \in {"completed", "processing"} THEN "completed"
    ELSE IF row.status = "failed" THEN "terminal" ELSE "exhausted"

\* What the worker is told when the UPDATE matched no row.
UnclaimedState(row) ==
    IF row.status = "completed" THEN "completed"
    ELSE IF row.status = "failed" THEN "terminal"
    ELSE IF row.status = "dead_lettered" \/ row.attempts >= MaxAttempts
         THEN "exhausted" ELSE "unavailable"

------------------------------------------------------------------------------
(* complete, release_for_retry, mark_retry_exhausted, mark_failed *)

JobOp == {"complete", "retry", "exhaust", "fail"}

Target == [complete |-> "completed", retry   |-> "queued",
           exhaust  |-> "dead_lettered", fail |-> "failed"]

\* The methods that raise JobStateConflict on the status they read.
Conflicts(op, read) ==
    \/ op = "complete" /\ read \notin {"processing", "completed"}
    \/ op = "retry"    /\ read # "processing"

\* Does the method write the row at all?
Updates(op, read) ==
    \/ op \in {"complete", "retry"} /\ read = "processing"
    \/ op = "exhaust" /\ read # "completed"
    \/ op = "fail"    /\ read \in ActiveStatus

\* The row after the UPDATE: the status column is in it only when it differs
\* from the one read.
Updated(op, read, row) ==
    IF Updates(op, read) /\ Target[op] # read
    THEN [row EXCEPT !.status = Target[op], !.stale = FALSE]
    ELSE row

==============================================================================
