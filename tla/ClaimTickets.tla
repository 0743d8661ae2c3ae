----------------------------- MODULE ClaimTickets -----------------------------
(***************************************************************************)
(* What the claims of processing jobs promise, without rows, messages,     *)
(* leases or transactions: every job has MaxAttempts numbered tickets,     *)
(* which are given out in order, each to one worker; text is published by  *)
(* a worker that has a ticket, under the ticket's number; and once the     *)
(* document is deleted no ticket is asked for any more: one that was asked *)
(* for before may still be given.                                          *)
(* A ticket whose worker dies is not given out again.                      *)
(***************************************************************************)
EXTENDS Naturals

CONSTANTS Jobs, Workers, MaxAttempts, None

VARIABLES
    given,      \* the number of tickets given out, by job
    asked,      \* the job each worker has asked a ticket of
    holds,      \* the ticket each worker has
    published,  \* the ticket under which the document's text was written
    closed      \* the document is deleted

tickets == <<given, asked, holds, published, closed>>

Ticket(j, n) == [job |-> j, attempt |-> n]

Init ==
    /\ given = [j \in Jobs |-> 0]
    /\ asked = [w \in Workers |-> None]
    /\ holds = [w \in Workers |-> None]
    /\ published = None
    /\ closed = FALSE

\* One worker at a time may ask for a ticket of a job.
Ask(w, j) ==
    /\ ~closed
    /\ holds[w] = None /\ \A v \in Workers : asked[v] # j
    /\ given[j] < MaxAttempts
    /\ asked' = [asked EXCEPT ![w] = j]
    /\ UNCHANGED <<given, holds, published, closed>>

Take(w, j) ==
    /\ asked[w] = j
    /\ given' = [given EXCEPT ![j] = @ + 1]
    /\ asked' = [asked EXCEPT ![w] = None]
    /\ holds' = [holds EXCEPT ![w] = Ticket(j, given[j] + 1)]
    /\ UNCHANGED <<published, closed>>

Withdraw(w) ==
    /\ asked[w] # None
    /\ asked' = [asked EXCEPT ![w] = None]
    /\ UNCHANGED <<given, holds, published, closed>>

PutBack(w) ==
    /\ holds[w] # None
    /\ holds' = [holds EXCEPT ![w] = None]
    /\ UNCHANGED <<given, asked, published, closed>>

\* A worker may keep the ticket: it has not heard that its text was written.
\* No text is written once the document is deleted.
Publish(w) ==
    /\ ~closed
    /\ holds[w] # None
    /\ published' = holds[w]
    /\ holds' \in {holds, [holds EXCEPT ![w] = None]}
    /\ UNCHANGED <<given, asked, closed>>

\* A deletion takes the text that it has seen, and the counts of the jobs that
\* it has seen, which nobody is asking for.
Close(S) ==
    /\ \A w \in Workers : asked[w] \notin S
    /\ closed' = TRUE
    /\ given' = [j \in Jobs |-> IF j \in S THEN 0 ELSE given[j]]
    /\ published' \in {published, None}
    /\ UNCHANGED <<asked, holds>>

Next ==
    \/ \E w \in Workers : \/ \E j \in Jobs : Ask(w, j) \/ Take(w, j)
                          \/ Withdraw(w) \/ PutBack(w) \/ Publish(w)
    \/ \E S \in SUBSET Jobs : Close(S)

Spec == Init /\ [][Next]_tickets

===============================================================================
