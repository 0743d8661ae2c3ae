---------------------------- MODULE ClaimRecovery ----------------------------
(***************************************************************************)
(* The clock that DocumentPipeline leaves out: one job, its one message    *)
(* and a pool of workers that is always polling.  Time is counted in ticks *)
(* of the heartbeat interval.  The question is whether a claim whose       *)
(* worker died is taken over before the queue gives the message up.        *)
(***************************************************************************)
EXTENDS JobRepository

CONSTANTS
    Visibility,   \* sqs_visibility_timeout_seconds
    StaleAfter,   \* worker_stale_job_seconds
    RedriveMax,   \* sqs_redrive_max_receive_count
    BaseDelay,    \* sqs_retry_base_delay_seconds
    MaxDelay,     \* sqs_retry_max_delay_seconds
    MaxCrashes    \* bound: workers that die

\* What Settings validates of them (the heartbeat interval is 1).
ASSUME SettingsAssumption ==
    /\ {Visibility, StaleAfter, RedriveMax, BaseDelay, MaxDelay} \subseteq Nat \ {0}
    /\ Visibility > 1
    /\ StaleAfter > Visibility
    /\ RedriveMax >= 2
    /\ BaseDelay <= MaxDelay
    /\ MaxCrashes \in Nat

VARIABLES
    status, attempts,  \* the job row
    age,               \* ticks since started_at, up to StaleAfter + 1
    state, receives,   \* the message
    timer,             \* ticks until it is visible again
    running,           \* is a live worker processing the claim?
    crashes            \* how many have died

vars == <<status, attempts, age, state, receives, timer, running, crashes>>
jobVars == <<status, attempts, age>>

Init ==
    /\ status = "queued" /\ attempts = 0 /\ age = 0
    /\ state = "visible" /\ receives = 0 /\ timer = 0
    /\ running = FALSE /\ crashes = 0

\* Slip: started_at < now - stale_after.
RowStrict == [status |-> status, attempts |-> attempts, stale |-> age > StaleAfter]

\* started_at <= now - stale_after
Row == [status |-> status, attempts |-> attempts, stale |-> age >= StaleAfter]

\* _retry_delay
RetryDelay(count) ==
    LET delay == BaseDelay * 2 ^ (IF count > 11 THEN 10 ELSE count - 1)
    IN  IF delay > MaxDelay THEN MaxDelay ELSE delay

\* A tick.  The pool takes a visible message at once, and the heartbeat of a
\* live worker renews the timer before it runs out.
Tick ==
    /\ state # "visible"
    /\ age' = IF age > StaleAfter THEN age ELSE age + 1
    /\ timer' = CASE state # "inflight" -> 0
                  [] state = "inflight" /\ running -> Visibility
                  [] OTHER -> timer - 1
    /\ state' = IF state = "inflight" /\ timer' = 0 THEN "visible" ELSE state
    /\ UNCHANGED <<status, attempts, receives, running, crashes>>

Redrive ==
    /\ state = "visible" /\ receives = RedriveMax
    /\ state' = "dead"
    /\ UNCHANGED <<jobVars, receives, timer, running, crashes>>

\* The message is delivered and the job claimed.
Claim ==
    /\ state = "visible" /\ receives < RedriveMax
    /\ Claimable(Row)
    /\ status' = Claimed(Row).status /\ attempts' = Claimed(Row).attempts
    /\ age' = 0 /\ running' = TRUE
    /\ receives' = receives + 1 /\ state' = "inflight" /\ timer' = Visibility
    /\ UNCHANGED crashes

\* A delivery that claims nothing: acknowledged, let go at once, or, when the
\* job is in somebody's hands, left to its timer.
Turned ==
    LET outcome == UnclaimedState(Row) IN
    /\ state = "visible" /\ receives < RedriveMax
    /\ ~Claimable(Row)
    /\ receives' = receives + 1
    /\ status' = IF outcome = "exhausted" THEN "dead_lettered" ELSE status
    /\ state' = CASE outcome = "completed"   -> "deleted"
                  [] outcome = "unavailable" -> "inflight"
                  [] OTHER                   -> "visible"
    /\ timer' = IF outcome = "unavailable" THEN Visibility ELSE 0
    /\ UNCHANGED <<attempts, age, running, crashes>>

\* The outcome of processing: success, permanent failure, or a failure that
\* is retried after a delay unless the attempts or the deliveries are spent.
Finish ==
    /\ running
    /\ running' = FALSE
    /\ \/ status' = "completed" /\ state' = "deleted" /\ timer' = 0
       \/ status' = "failed" /\ state' = "visible" /\ timer' = 0
       \/ IF attempts >= MaxAttempts \/ receives >= RedriveMax
          THEN status' = "dead_lettered" /\ state' = "visible" /\ timer' = 0
          ELSE status' = "queued" /\ state' = "inflight"
               /\ timer' = RetryDelay(receives)
    /\ UNCHANGED <<attempts, age, receives, crashes>>

\* The worker dies; row and message stay as they are.
Crash ==
    /\ running /\ crashes < MaxCrashes
    /\ running' = FALSE /\ crashes' = crashes + 1
    /\ UNCHANGED <<jobVars, state, receives, timer>>

Next == Tick \/ Redrive \/ Claim \/ Turned \/ Finish \/ Crash

\* The clock runs, SQS does its part, workers poll and finish what they have.
Spec == Init /\ [][Next]_vars /\ WF_vars(Tick) /\ WF_vars(Redrive)
             /\ WF_vars(Claim) /\ WF_vars(Turned) /\ WF_vars(Finish)

------------------------------------------------------------------------------

Orphaned == status = "processing" /\ ~running

\* The message returns once per visibility timeout after the death; as many
\* returns as it takes for the lease to lapse.
ReturnsInLease ==
    CHOOSE n \in 1..StaleAfter : /\ n * Visibility >= StaleAfter
                                 /\ (n - 1) * Visibility < StaleAfter
TimeEnough == RedriveMax - receives >= ReturnsInLease

\* A claim whose worker died is taken over or settled, if the deliveries that
\* are left reach beyond the lease.
TimelyClaimIsRecovered == Orphaned /\ TimeEnough ~> ~Orphaned

\* A stale claim can be recovered (docs/reliability.md), whatever is left.
StaleClaimIsRecovered == Orphaned ~> ~Orphaned

==============================================================================
