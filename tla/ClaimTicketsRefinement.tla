------------------------ MODULE ClaimTicketsRefinement ------------------------
(***************************************************************************)
(* DocumentPipeline implements ClaimTickets, for every value of the        *)
(* constants: the conditional UPDATE of a claim asks for a ticket and its  *)
(* commit takes it, a completion that commits publishes under it, a        *)
(* deletion that commits closes, with the jobs it has found, and all other *)
(* steps put a ticket back, withdraw what was asked, or are not seen.      *)
(***************************************************************************)
EXTENDS DocumentPipelineSafety

\* Three of the state functions that stand for the variables of ClaimTickets;
\* the others are pages and document.deleted.
Given == [j \in Jobs |-> job[j].attempts]
Asking(w) == IF worker[w].pc = "claiming" THEN JobOf(w) ELSE NoPages
Asked == [w \in Workers |-> Asking(w)]
Holds == [w \in Workers |-> TicketOf(w)]

\* The number of tickets given out changes with a claim or a deletion only.
LEMMA GivenKept ==
  ASSUME ClaimInv, [Next]_vars, \A w \in Workers : ~ClaimCommit(w),
         \A d \in Deletions : ~DeleteCommit(d)
  PROVE  Given' = Given
<1>1. ASSUME NEW j \in Jobs PROVE job'[j].attempts = job[j].attempts
  <2>1. CASE ~Exists(job[j]) /\ job'[j] = NewRow
    BY <2>1 DEF ClaimInv, AbsentIsBlank, NewRow
  <2>2. CASE job'[j] = job[j]
    BY <2>2
  <2>3. QED
    BY <2>1, <2>2, JobRowMoves DEF ClaimInv
<1>2. QED
  BY <1>1 DEF Given

\* A worker that does not move has asked for what it had asked for, and has
\* the ticket it had.
LEMMA UnmovedKeeps ==
  ASSUME ClaimInv, [Next]_vars, NEW v \in Workers, worker'[v] = worker[v]
  PROVE  TicketOf(v)' = TicketOf(v) /\ Asking(v)' = Asking(v)
<1>0. worker[v] \in WorkerLocals
  BY DEF ClaimInv, Wellformed, TypeOK
<1>1. Holding(v) => JobOf(v)' = JobOf(v)
  BY JobOfKept DEF ClaimInv
<1>2. ~Holding(v) => worker[v].attempt = 0
  BY DEF ClaimInv, Wellformed, AttemptFollowsClaim, Claiming, Holding
<1>3. TicketOf(v)' = TicketOf(v)
  BY <1>0, <1>1, <1>2 DEF TicketOf
<1>4. Asking(v)' = Asking(v)
  BY <1>1 DEF Asking, Holding
<1>5. QED
  BY <1>3, <1>4

\* A worker that is between the UPDATE of its claim and the commit was there
\* before, or has just asked.
LEMMA AskedBefore ==
  ASSUME ClaimInv, [Next]_vars, NEW v \in Workers, worker'[v].pc = "claiming"
  PROVE  /\ JobOf(v)' = JobOf(v)
         /\ \/ worker[v].pc = "claiming"
            \/ ClaimRow(v) /\ UNCHANGED <<job, document, pages>>
<1>1. CASE worker'[v] = worker[v]
  BY <1>1, ClaimBegun DEF ClaimInv
<1>2. CASE WorkerStep(v) \/ Abandon(v)
  BY <1>2, ClaimBegun, LockTaken DEF ClaimInv, ClaimRow, database
<1>3. QED
  BY <1>1, <1>2, OneWorkerMoves DEF ClaimInv

\* A step that is not a claim leaves a worker its ticket or takes it away.
LEMMA TicketKept ==
  ASSUME ClaimInv, [Next]_vars, NEW v \in Workers, ~ClaimCommit(v)
  PROVE  TicketOf(v)' = TicketOf(v) \/ TicketOf(v)' = NoPages
<1>0. worker'[v].attempt \in Nat
  BY TypeStep DEF ClaimInv, TypeOK, WorkerLocals
<1>1. CASE worker'[v].attempt = 0
  BY <1>1 DEF TicketOf
<1>2. CASE worker'[v].attempt > 0
  <2>1. JobOf(v)' = JobOf(v) /\ worker'[v].attempt = worker[v].attempt
    BY <1>2, AttemptTaken DEF ClaimInv
  <2>2. QED
    BY <2>1 DEF TicketOf
<1>3. QED
  BY <1>0, <1>1, <1>2

\* A ticket is not mistaken for none.
LEMMA TicketIsReal ==
  ASSUME ClaimInv, NEW w \in Workers, worker[w].attempt > 0, JobOf(w) \in Jobs
  PROVE  TicketOf(w) = [job |-> JobOf(w), attempt |-> worker[w].attempt]
         /\ TicketOf(w) # NoPages
<1>1. worker[w].attempt \in 1..MaxAttempts
  BY MaxAttemptsAssumption DEF ClaimInv, Wellformed, TypeOK, WorkerLocals
<1>2. TicketOf(w) = [job |-> JobOf(w), attempt |-> worker[w].attempt]
  BY <1>1 DEF TicketOf
<1>3. TicketOf(w) \in [job : Jobs, attempt : 1..MaxAttempts]
  BY <1>1, <1>2
<1>4. QED
  BY <1>2, <1>3, NullAssumption

\* A deletion that commits moves.
LEMMA CommitMoves ==
  ASSUME NEW d \in Deletions, UNCHANGED deletion, DeleteCommit(d)
  PROVE  FALSE
<1>1. deletion'[d] = NotDeleting("done")
  BY DEF DeleteCommit, Tombstone
<1>2. deletion'[d].pc = "done" /\ deletion[d].pc = "marking"
  BY <1>1 DEF NotDeleting, DeleteCommit
<1>3. QED
  BY <1>2

\* Only the commit of a deletion makes the document a tombstone.
LEMMA StillThere ==
  ASSUME ClaimInv, [Next]_vars, \A d \in Deletions : ~DeleteCommit(d)
  PROVE  document'.deleted = document.deleted
<1>1. document \in DocumentRow /\ document' \in DocumentRow
  BY TypeStep DEF ClaimInv, Wellformed, TypeOK
<1>2. document.deleted \in BOOLEAN /\ document'.deleted \in BOOLEAN
  BY <1>1 DEF DocumentRow
<1>3. document'.deleted <=> document.deleted
  BY DeletedByDeletion DEF ClaimInv
<1>4. QED
  BY <1>2, <1>3

------------------------------------------------------------------------------
(* The steps *)

\* The UPDATE of a claim asks for a ticket: nobody else is asking, since it
\* waits for the lock of the row.
LEMMA ClaimAsks ==
  ASSUME ClaimInv, NEW w \in Workers, ClaimRow(w)
  PROVE  Tickets!Ask(w, JobOf(w)) /\ JobOf(w) \in Jobs
<1>0. TypeOK /\ worker \in [Workers -> WorkerLocals] /\ job \in [Jobs -> JobRow]
  BY DEF ClaimInv, Wellformed, TypeOK
<1>1. JobOf(w) \in Jobs /\ worker[w].attempt = 0 /\ worker[w].pc = "received"
  BY <1>0, HeldJob
  DEF ClaimRow, ClaimInv, Wellformed, Holding, AttemptFollowsClaim, Claiming
<1>2. ~document.deleted /\ job[JobOf(w)].attempts < MaxAttempts
  BY DEF ClaimRow, Claimable
<1>3. \A v \in Workers : Asked[v] # JobOf(w)
  BY <1>1, NullAssumption DEF ClaimRow, RowLocked, HoldsRow, Asked, Asking
<1>4. UNCHANGED <<job, document, pages>> /\ \A v \in Workers : JobOf(v)' = JobOf(v)
  <2>1. ASSUME NEW v \in Workers PROVE worker'[v].msg = worker[v].msg
    BY <1>0 DEF ClaimRow, WorkerLocals
  <2>2. QED
    BY <2>1 DEF ClaimRow, database, JobOf
<1>5. \A v \in Workers : TicketOf(v)' = TicketOf(v)
  <2>1. ASSUME NEW v \in Workers PROVE worker'[v].attempt = worker[v].attempt
    BY <1>0 DEF ClaimRow, WorkerLocals
  <2>2. QED
    BY <1>4, <2>1 DEF TicketOf
<1>6. Asked' = [Asked EXCEPT ![w] = JobOf(w)]
  <2>1. worker'[w].pc = "claiming" /\ \A v \in Workers \ {w} : worker'[v] = worker[v]
    BY <1>0 DEF ClaimRow, WorkerLocals
  <2>2. \A v \in Workers : Asking(v)' = IF v = w THEN JobOf(w) ELSE Asking(v)
    BY <1>4, <2>1 DEF Asking
  <2>3. QED
    BY <2>2 DEF Asked
<1>7. QED
  BY <1>1, <1>2, <1>3, <1>4, <1>5, <1>6
  DEF Tickets!Ask, Given, Holds, Asked, Asking, TicketOf

\* A claim that commits takes the next ticket of its job.
LEMMA ClaimTakes ==
  ASSUME ClaimInv, [Next]_vars, NEW w \in Workers, ClaimCommit(w)
  PROVE  Tickets!Take(w, JobOf(w)) /\ JobOf(w) \in Jobs
<1>0. TypeOK /\ worker \in [Workers -> WorkerLocals] /\ job \in [Jobs -> JobRow]
  BY DEF ClaimInv, Wellformed, TypeOK
<1>1. JobOf(w) \in Jobs /\ worker[w].pc = "claiming"
  BY <1>0, HeldJob DEF ClaimCommit, ClaimInv, Holding
<1>2. Asked[w] = JobOf(w)
  BY <1>1 DEF Asked, Asking
<1>3. document'.deleted = document.deleted
  BY StillThere, CommitMoves DEF ClaimCommit, callers
<1>4. Given' = [Given EXCEPT ![JobOf(w)] = @ + 1]
  BY <1>0, <1>1 DEF Given, ClaimCommit, Claimed
<1>5. TicketOf(w)' = [job |-> JobOf(w), attempt |-> job[JobOf(w)].attempts + 1]
  BY <1>0, <1>1 DEF TicketOf, ClaimCommit, JobOf, JobRow, WorkerLocals
<1>6. ASSUME NEW v \in Workers, v # w
      PROVE  TicketOf(v)' = TicketOf(v) /\ Asking(v)' = Asking(v)
  BY <1>0, <1>6, UnmovedKeeps DEF ClaimCommit
<1>7. Holds' = [Holds EXCEPT ![w] = [job |-> JobOf(w), attempt |-> Given[JobOf(w)] + 1]]
  BY <1>1, <1>5, <1>6 DEF Holds, Given
<1>8. Asked' = [Asked EXCEPT ![w] = NoPages]
  <2>1. worker'[w].pc = "loading"
    BY <1>0 DEF ClaimCommit, WorkerLocals
  <2>2. \A v \in Workers : Asking(v)' = IF v = w THEN NoPages ELSE Asking(v)
    BY <1>6, <2>1 DEF Asking
  <2>3. QED
    BY <2>2 DEF Asked
<1>9. pages' = pages
  BY DEF ClaimCommit
<1>10. QED
  BY <1>1, <1>2, <1>3, <1>4, <1>7, <1>8, <1>9
  DEF Tickets!Take, Tickets!Ticket, Given, Holds, Asked, Asking, TicketOf

\* A recording that commits: a completion publishes under its ticket, any
\* other outcome puts the ticket back, if there is one.
LEMMA RecordSettles ==
  ASSUME ClaimInv, NoneToCommit, [Next]_vars, NEW w \in Workers, RecordCommit(w)
  PROVE  Tickets!Publish(w) \/ Tickets!PutBack(w) \/ UNCHANGED Tickets!tickets
<1>0. TypeOK /\ worker \in [Workers -> WorkerLocals]
  BY DEF ClaimInv, Wellformed, TypeOK
<1>1. document'.deleted = document.deleted
  BY StillThere, CommitMoves DEF RecordCommit, callers
<1>2. worker[w].pc = "committing" /\ JobOf(w) \in Jobs
  BY <1>0, RecordCommitShape, HeldJob DEF ClaimInv, Holding
<1>3. /\ \A v \in Workers : ~ClaimCommit(v)
      /\ \A d \in Deletions : ~DeleteCommit(d)
      /\ \A v \in Workers \ {w} : /\ TicketOf(v)' = TicketOf(v)
                                   /\ Asking(v)' = Asking(v)
  <2>1. \A v \in Workers \ {w} : worker'[v] = worker[v]
    BY <1>0, RecordCommitShape
  <2>2. UNCHANGED deletion
    BY DEF RecordCommit, callers
  <2>3. ASSUME NEW v \in Workers, ClaimCommit(v) PROVE FALSE
    BY <1>0, <1>2, <2>1, <2>3 DEF ClaimCommit, WorkerLocals
  <2>4. ASSUME NEW d \in Deletions, DeleteCommit(d) PROVE FALSE
    BY <2>2, <2>4, CommitMoves
  <2>5. QED
    BY <2>1, <2>3, <2>4, UnmovedKeeps
<1>4. Given' = Given
  BY <1>3, GivenKept
<1>5. TicketOf(w)' \in {TicketOf(w), NoPages}
  BY <1>3, TicketKept
<1>6. Holds' \in {Holds, [Holds EXCEPT ![w] = NoPages]}
  BY <1>3, <1>5 DEF Holds
<1>7. Asked' = Asked
  <2>1. worker'[w].pc # "claiming"
    BY <1>0, RecordCommitFields, IdleShape
  <2>2. \A v \in Workers : Asking(v)' = Asking(v)
    BY <1>2, <1>3, <2>1 DEF Asking
  <2>3. QED
    BY <2>2 DEF Asked
<1>8. CASE worker[w].op = "complete"
  <2>1. worker[w].attempt > 0
    BY <1>2, <1>8 DEF ClaimInv, Wellformed, AttemptFollowsClaim, Owning
  <2>2. TicketOf(w) # NoPages /\ pages' = TicketOf(w)
    BY <1>2, <1>8, <2>1, TicketIsReal DEF RecordCommit
  <2>3. ~document.deleted
    BY <1>2, <1>8 DEF NoneToCommit
  <2>4. QED
    BY <1>1, <1>4, <1>6, <1>7, <2>2, <2>3
    DEF Tickets!Publish, Given, Holds, Asked, Asking
<1>9. CASE worker[w].op # "complete"
  <2>1. pages' = pages
    BY <1>9 DEF RecordCommit
  <2>2. CASE TicketOf(w) = NoPages
    BY <1>1, <1>3, <1>4, <1>5, <1>7, <2>1, <2>2
    DEF Tickets!tickets, Given, Holds, Asked, Asking
  <2>3. CASE TicketOf(w) # NoPages
    BY <1>1, <1>4, <1>6, <1>7, <2>1, <2>3
    DEF Tickets!PutBack, Tickets!tickets, Given, Holds, Asked, Asking
  <2>4. QED
    BY <2>2, <2>3
<1>10. QED
  BY <1>8, <1>9

\* A deletion that commits closes, and nobody is asking for a job it has found:
\* it holds their rows.
LEMMA DeletionCloses ==
  ASSUME ClaimInv, NEW d \in Deletions, DeleteCommit(d)
  PROVE  /\ deletion[d].sawJobs \in SUBSET Jobs
         /\ Tickets!Close(deletion[d].sawJobs)
<1>0. deletion[d].sawJobs \in SUBSET Jobs
  BY DEF ClaimInv, Wellformed, TypeOK, DeletionLocals
<1>1. document'.deleted = TRUE
  BY DEF DeleteCommit, Tombstone, MarkDeleted
<1>2. Given' = [j \in Jobs |-> IF j \in deletion[d].sawJobs THEN 0 ELSE Given[j]]
  BY DEF DeleteCommit, Tombstone, Given, NoRow
<1>3. pages' \in {pages, NoPages}
  BY DEF DeleteCommit, Tombstone
<1>4. Holds' = Holds /\ Asked' = Asked
  BY DEF DeleteCommit, Holds, Asked, Asking, TicketOf, JobOf
<1>5. ASSUME NEW w \in Workers PROVE Asked[w] \notin deletion[d].sawJobs
  <2>1. CASE worker[w].pc = "claiming"
    BY <2>1 DEF ClaimInv, Wellformed, LocksAreExclusive, HoldsRow, Purges,
       DeleteCommit, Asked, Asking
  <2>2. CASE worker[w].pc # "claiming"
    BY <1>0, <2>2, NullAssumption DEF Asked, Asking
  <2>3. QED
    BY <2>1, <2>2
<1>6. QED
  BY <1>0, <1>1, <1>2, <1>3, <1>4, <1>5
  DEF Tickets!Close, Given, Holds, Asked, Asking

\* Any other step is not seen, or one worker gives up what it has asked for or
\* puts its ticket back.
LEMMA OthersGiveUp ==
  ASSUME ClaimInv, [Next]_vars,
         \A w \in Workers : ~ClaimRow(w) /\ ~ClaimCommit(w) /\ ~RecordCommit(w),
         \A d \in Deletions : ~DeleteCommit(d)
  PROVE  \/ UNCHANGED Tickets!tickets
         \/ \E w \in Workers : Tickets!Withdraw(w) \/ Tickets!PutBack(w)
<1>1. Given' = Given /\ pages' = pages
  BY GivenKept, PageActions
<1>2. document'.deleted = document.deleted
  BY StillThere
<1>3. CASE worker' = worker
  <2>1. \A v \in Workers : TicketOf(v)' = TicketOf(v) /\ Asking(v)' = Asking(v)
    BY <1>3, UnmovedKeeps
  <2>2. QED
    BY <1>1, <1>2, <2>1 DEF Tickets!tickets, Given, Holds, Asked, Asking
<1>4. ASSUME NEW w \in Workers, \A v \in Workers \ {w} : worker'[v] = worker[v]
      PROVE  \/ UNCHANGED Tickets!tickets
             \/ Tickets!Withdraw(w) \/ Tickets!PutBack(w)
  <2>1. \A v \in Workers \ {w} : /\ TicketOf(v)' = TicketOf(v)
                                 /\ Asking(v)' = Asking(v)
    BY <1>4, UnmovedKeeps
  <2>2. TicketOf(w)' \in {TicketOf(w), NoPages}
    BY TicketKept
  <2>3. CASE worker[w].pc = "claiming"
    <3>1. TicketOf(w) = NoPages /\ Asking(w) = JobOf(w) /\ JobOf(w) \in Jobs
      BY <2>3, HeldJob DEF ClaimInv, Wellformed, AttemptFollowsClaim, Claiming,
         TicketOf, Asking, Holding
    <3>2. Asking(w)' \in {Asking(w), NoPages}
      BY <2>3, <3>1, AskedBefore DEF Asking
    <3>3. Holds' = Holds /\ Asked' \in {Asked, [Asked EXCEPT ![w] = NoPages]}
      BY <2>1, <2>2, <3>1, <3>2 DEF Holds, Asked
    <3>4. Asked[w] # NoPages
      BY <3>1, NullAssumption DEF Asked
    <3>5. QED
      BY <1>1, <1>2, <3>3, <3>4
      DEF Tickets!tickets, Tickets!Withdraw, Given, Holds, Asked, Asking
  <2>4. CASE worker[w].pc # "claiming"
    <3>1. Asking(w)' = Asking(w)
      BY <2>4, AskedBefore DEF Asking
    <3>2. Asked' = Asked /\ Holds' \in {Holds, [Holds EXCEPT ![w] = NoPages]}
      BY <2>1, <2>2, <3>1 DEF Holds, Asked
    <3>3. CASE TicketOf(w) = NoPages
      <4>1. Holds' = Holds
        BY <2>1, <2>2, <3>3 DEF Holds
      <4>2. QED
        BY <1>1, <1>2, <3>2, <4>1 DEF Tickets!tickets, Given, Holds, Asked, Asking
    <3>4. CASE TicketOf(w) # NoPages
      BY <1>1, <1>2, <3>2, <3>4
      DEF Tickets!tickets, Tickets!PutBack, Given, Holds, Asked, Asking
    <3>5. QED
      BY <3>3, <3>4
  <2>5. QED
    BY <2>3, <2>4
<1>5. QED
  BY <1>3, <1>4, OneWorkerMoves DEF ClaimInv

------------------------------------------------------------------------------
(* The theorem *)

\* Every step of the pipeline is a step of the tickets, or is not seen there.
LEMMA StepImplements ==
  ClaimInv /\ NoneToCommit /\ [Next]_vars => [Tickets!Next]_(Tickets!tickets)
<1> SUFFICES ASSUME ClaimInv, NoneToCommit, [Next]_vars
             PROVE  Tickets!Next \/ UNCHANGED Tickets!tickets
  OBVIOUS
<1>1. ASSUME NEW w \in Workers, ClaimRow(w) PROVE Tickets!Next
  <2>1. Tickets!Ask(w, JobOf(w)) /\ JobOf(w) \in Jobs
    BY <1>1, ClaimAsks
  <2>2. QED
    BY <2>1 DEF Tickets!Next, Tickets!Ask
<1>2. ASSUME NEW w \in Workers, ClaimCommit(w) PROVE Tickets!Next
  <2>1. Tickets!Take(w, JobOf(w)) /\ JobOf(w) \in Jobs
    BY <1>2, ClaimTakes
  <2>2. QED
    BY <2>1 DEF Tickets!Next, Tickets!Take
<1>3. ASSUME NEW w \in Workers, RecordCommit(w)
      PROVE  Tickets!Next \/ UNCHANGED Tickets!tickets
  BY <1>3, RecordSettles DEF Tickets!Next
<1>4. ASSUME NEW d \in Deletions, DeleteCommit(d) PROVE Tickets!Next
  BY <1>4, DeletionCloses DEF Tickets!Next, Tickets!Close
<1>5. QED
  BY <1>1, <1>2, <1>3, <1>4, OthersGiveUp DEF Tickets!Next

\* The pipeline keeps the promise of ClaimTickets for every number of jobs,
\* messages, workers, calls, deletions, attempts and deliveries: nobody asks
\* for a claim of a deleted document or records its text, and a claim that was
\* asked for before the deletion takes the next number of its job's row.
THEOREM PipelineImplementsTickets == Spec => ImplementsClaimTickets
<1>1. Init => Tickets!Init /\ NoneToCommit
  BY DEF Init, Tickets!Init, TicketOf, Idle, NoRow, UploadedDocument, NoneToCommit
<1>2. ClaimInv => Wellformed
  BY DEF ClaimInv
<1>3. QED
  BY <1>1, <1>2, StepImplements, NoneStep, ClaimInvHolds, PTL
     DEF Spec, ImplementsClaimTickets, Tickets!Spec

===============================================================================
