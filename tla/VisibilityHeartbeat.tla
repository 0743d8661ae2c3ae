------------------------- MODULE VisibilityHeartbeat -------------------------
(***************************************************************************)
(* The thread that keeps a message hidden while its worker is at work, and *)
(* what the worker itself says of the message's visibility afterwards.     *)
(* Time is counted in ticks; a call to the queue or the database takes at  *)
(* most CallTime of them, the work itself as long as it likes.             *)
(***************************************************************************)
EXTENDS Naturals

CONSTANTS
    Visibility,  \* sqs_visibility_timeout_seconds
    Interval,    \* sqs_visibility_heartbeat_seconds
    CallTime,    \* bound on one call; the code sets none
    Delay        \* the visibility a retry asks for

\* __init__ and Settings check 0 < Interval < Visibility.  That two calls
\* and an interval fit into one timeout is asked of the deployment.
ASSUME IntervalAssumption ==
    /\ {Visibility, Interval, CallTime, Delay} \subseteq Nat \ {0}
    /\ Interval < Visibility
    /\ 2 * CallTime + Interval < Visibility

VARIABLES
    timer,   \* ticks until the message is visible again
    worker,  \* where _run_once is
    busy,    \* ticks the worker has been in its current call
    thread,  \* where _run is
    beat,    \* ticks the thread has been waiting or calling
    stop,    \* the event _stop
    failed   \* the event _failed

vars == <<timer, worker, busy, thread, beat, stop, failed>>

TypeOK ==
    /\ timer \in 0..(Visibility + Delay)
    /\ worker \in {"claiming", "working", "joining", "recording", "settled"}
    /\ busy \in 0..CallTime
    /\ thread \in {"off", "waiting", "calling", "over"}
    /\ beat \in 0..(Interval + CallTime)
    /\ stop \in BOOLEAN
    /\ failed \in BOOLEAN

\* receive_one has just handed the message out.
Init ==
    /\ timer = Visibility
    /\ worker = "claiming" /\ busy = 0
    /\ thread = "off" /\ beat = 0
    /\ stop = FALSE /\ failed = FALSE

InCall == worker \in {"claiming", "recording"}

\* Time does not pass a call that must return or a wait that is over.
Tick ==
    /\ InCall => busy < CallTime
    /\ worker = "joining" => thread # "over"
    /\ thread = "waiting" => ~stop /\ beat < Interval
    /\ thread = "calling" => beat < CallTime
    /\ timer' = IF timer = 0 THEN 0 ELSE timer - 1
    /\ busy' = IF InCall THEN busy + 1 ELSE 0
    /\ beat' = IF thread \in {"waiting", "calling"} THEN beat + 1 ELSE 0
    /\ UNCHANGED <<worker, thread, stop, failed>>

\* __enter__: the thread starts once the claim and the document are there.
Enter ==
    /\ worker = "claiming"
    /\ worker' = "working" /\ busy' = 0
    /\ thread' = "waiting" /\ beat' = 0
    /\ UNCHANGED <<timer, stop, failed>>

\* _stop.wait(interval) times out and the renewal is sent.
Wake ==
    /\ thread = "waiting" /\ ~stop /\ beat = Interval
    /\ thread' = "calling" /\ beat' = 0
    /\ UNCHANGED <<timer, worker, busy, stop, failed>>

\* Slip: the thread returns after its first renewal.
RenewOnce ==
    /\ thread = "calling" /\ timer > 0
    /\ timer' = Visibility
    /\ thread' = "over" /\ beat' = 0
    /\ UNCHANGED <<worker, busy, stop, failed>>

\* change_visibility counts from now; a message that is visible again cannot
\* be hidden by it.
Renew ==
    /\ thread = "calling" /\ timer > 0
    /\ timer' = Visibility
    /\ thread' = "waiting" /\ beat' = 0
    /\ UNCHANGED <<worker, busy, stop, failed>>

\* QueueOperationError, whether the renewal took effect or not.
RenewFails ==
    /\ thread = "calling"
    /\ timer' \in {timer, IF timer > 0 THEN Visibility ELSE 0}
    /\ thread' = "over" /\ beat' = 0 /\ failed' = TRUE
    /\ UNCHANGED <<worker, busy, stop>>

ThreadStops ==
    /\ thread = "waiting" /\ stop
    /\ thread' = "over" /\ beat' = 0
    /\ UNCHANGED <<timer, worker, busy, stop, failed>>

\* Slip: __exit__ joins a thread it has not told to stop.
ExitUntold ==
    /\ worker = "working"
    /\ worker' = "joining"
    /\ UNCHANGED <<timer, busy, thread, beat, stop, failed>>

\* __exit__: the block is left, normally or by an exception.
Exit ==
    /\ worker = "working"
    /\ worker' = "joining" /\ stop' = TRUE
    /\ UNCHANGED <<timer, busy, thread, beat, failed>>

\* Slip: __exit__ does not join.
JoinUnawaited ==
    /\ worker = "joining"
    /\ worker' = "recording"
    /\ UNCHANGED <<timer, busy, thread, beat, stop, failed>>

Join ==
    /\ worker = "joining" /\ thread = "over"
    /\ worker' = "recording"
    /\ UNCHANGED <<timer, busy, thread, beat, stop, failed>>

\* The outcome is recorded and the worker's own word on visibility is given:
\* 0 to let the message go, a delay for a retry, none for a completion.
Settle ==
    /\ worker = "recording"
    /\ worker' = "settled" /\ busy' = 0
    /\ timer' \in {0, Delay, timer}
    /\ UNCHANGED <<thread, beat, stop, failed>>

Step == Enter \/ Wake \/ Renew \/ RenewFails \/ ThreadStops \/ Exit \/ Join \/ Settle
Next == Tick \/ Step

\* The thread runs, calls return, join returns when the thread is over; the
\* work in the block owes nothing.
Spec ==
    /\ Init /\ [][Next]_vars
    /\ WF_vars(Tick)
    /\ WF_vars(Wake \/ Renew \/ RenewFails \/ ThreadStops)
    /\ WF_vars(Enter \/ Join \/ Settle)

------------------------------------------------------------------------------

\* Until a renewal fails, no other worker receives the message before this one
\* has recorded its outcome.
HiddenWhileAttended == worker # "settled" /\ ~failed => timer > 0

\* Once the worker has let the message go, or has asked for a delay, no late
\* renewal hides it for another timeout.
WorkerHasTheLastWord == [][worker = "settled" => timer' <= timer]_vars

\* Leaving the block never hangs on the thread.
WorkerRejoins == worker = "joining" ~> worker = "settled"

==============================================================================
