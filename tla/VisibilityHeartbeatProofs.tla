---------------------- MODULE VisibilityHeartbeatProofs ----------------------
(***************************************************************************)
(* VisibilityHeartbeat keeps its promises for every timeout, interval and  *)
(* call time that IntervalAssumption admits.  The argument is a budget:    *)
(* what is left on the timer and what has been used of the current wait or *)
(* call add up to a timeout less the calls that may have gone before.      *)
(***************************************************************************)
EXTENDS VisibilityHeartbeat, TLAPS

\* The thread has been started exactly when the claim is over; it is told to
\* stop when the block is left, and is over once the worker records.
InStep ==
    /\ worker = "claiming" <=> thread = "off"
    /\ worker \in {"recording", "settled"} => thread = "over"
    /\ stop => worker \notin {"claiming", "working"}
    /\ worker = "working" /\ ~failed => thread # "over"
    /\ thread \in {"off", "over"} => beat = 0
    /\ thread = "waiting" => beat <= Interval
    /\ thread = "calling" => beat <= CallTime

\* What the timer must still show in each phase.
Budget == ~failed =>
    /\ worker = "claiming" => timer + busy >= Visibility
    /\ thread = "waiting" => timer + beat >= Visibility - CallTime
    /\ thread = "calling" => timer + beat >= Visibility - CallTime - Interval
    /\ worker = "joining" /\ thread = "over" =>
           timer >= Visibility - CallTime - Interval
    /\ worker = "recording" => timer + busy >= Visibility - CallTime - Interval

\* A call counts from zero.
Fresh == worker \notin {"claiming", "recording"} => busy = 0

IInv == TypeOK /\ InStep /\ Budget /\ Fresh

\* The constants one by one.
LEMMA ConstantsTyped ==
    /\ Visibility \in Nat /\ Interval \in Nat /\ CallTime \in Nat /\ Delay \in Nat
    /\ 2 * CallTime + Interval < Visibility
BY IntervalAssumption

\* A fresh delivery starts with the whole timeout.
LEMMA InitIInv == Init => IInv
<1> SUFFICES ASSUME Init PROVE IInv
  OBVIOUS
<1>1. TypeOK
  <2>1. timer \in 0..(Visibility + Delay)
    BY ConstantsTyped DEF Init
  <2>2. busy \in 0..CallTime /\ beat \in 0..(Interval + CallTime)
    BY ConstantsTyped DEF Init
  <2>3. stop \in BOOLEAN /\ failed \in BOOLEAN
    BY DEF Init
  <2> QED
    BY <2>1, <2>2, <2>3 DEF Init, TypeOK
<1>2. InStep /\ Fresh
  BY DEF Init, InStep, Fresh
<1>3. Budget
  BY ConstantsTyped DEF Init, Budget
<1> QED
  BY <1>1, <1>2, <1>3 DEF IInv

\* Time: each bound that Tick's guard enforces pays for one tick of the timer.
LEMMA TickKeepsIInv == IInv /\ Tick => IInv'
<1> SUFFICES ASSUME IInv, Tick PROVE IInv'
  OBVIOUS
<1> USE IntervalAssumption DEF IInv, Tick, InCall
<1>1. TypeOK'
  BY DEF TypeOK, InStep
<1>2. InStep'
  BY DEF TypeOK, InStep
<1>3. Budget'
  BY DEF TypeOK, InStep, Budget, Fresh
<1>4. Fresh'
  BY DEF Fresh
<1> QED
  BY <1>1, <1>2, <1>3, <1>4

\* The steps of the worker and of the thread.
LEMMA StepKeepsIInv == IInv /\ Step => IInv'
<1> SUFFICES ASSUME IInv, Step PROVE IInv'
  OBVIOUS
<1> USE IntervalAssumption DEF IInv, TypeOK, InStep, Budget, Fresh
<1>1. CASE Enter
  BY <1>1 DEF Enter
<1>2. CASE Wake
  BY <1>2 DEF Wake
<1>3. CASE Renew
  BY <1>3 DEF Renew
<1>4. CASE RenewFails
  <2>1. timer' = timer \/ timer' = Visibility \/ timer' = 0
    BY <1>4 DEF RenewFails
  <2>2. TypeOK'
    BY <1>4, <2>1, ConstantsTyped DEF RenewFails
  <2>3. InStep'
    BY <1>4 DEF RenewFails
  <2>4. Budget'
    BY <1>4 DEF RenewFails
  <2>5. Fresh'
    BY <1>4 DEF RenewFails
  <2> HIDE DEF TypeOK, InStep, Budget, Fresh
  <2> QED
    BY <2>2, <2>3, <2>4, <2>5
<1>5. CASE ThreadStops
  BY <1>5 DEF ThreadStops
<1>6. CASE Exit
  BY <1>6 DEF Exit
<1>7. CASE Join
  BY <1>7 DEF Join
<1>8. CASE Settle
  BY <1>8 DEF Settle
<1> QED
  BY <1>1, <1>2, <1>3, <1>4, <1>5, <1>6, <1>7, <1>8 DEF Step

\* The budget always balances.
THEOREM BudgetHolds == Spec => []IInv
<1>1. ASSUME IInv, [Next]_vars PROVE IInv'
  <2>1. CASE Tick
    BY <1>1, <2>1, TickKeepsIInv
  <2>2. CASE Step
    BY <1>1, <2>2, StepKeepsIInv
  <2>3. CASE UNCHANGED vars
    BY <1>1, <2>3 DEF vars, IInv, TypeOK, InStep, Budget, Fresh
  <2> QED
    BY <1>1, <2>1, <2>2, <2>3 DEF Next
<1> QED
  BY <1>1, InitIInv, PTL DEF Spec

\* All variables keep their types.
THEOREM TypeCorrect == Spec => []TypeOK
<1>1. IInv => TypeOK
  BY DEF IInv
<1>2. QED
  BY <1>1, BudgetHolds, PTL

\* The message of a worker whose renewals get through stays hidden until its
\* outcome is recorded.
THEOREM StaysHidden == Spec => []HiddenWhileAttended
<1>1. IInv => HiddenWhileAttended
  BY IntervalAssumption
     DEF IInv, TypeOK, InStep, Budget, Fresh, HiddenWhileAttended
<1> QED
  BY <1>1, BudgetHolds, PTL

\* After the worker has settled, no step lengthens the timer.
THEOREM LastWordStands == Spec => WorkerHasTheLastWord
<1>1. ASSUME IInv, [Next]_vars
      PROVE [worker = "settled" => timer' <= timer]_vars
  <2> SUFFICES ASSUME worker = "settled" PROVE timer' <= timer
    OBVIOUS
  <2>1. thread = "over" /\ timer \in Nat
    BY <1>1 DEF IInv, InStep, TypeOK
  <2> QED
    BY <1>1, <2>1 DEF Next, Step, Tick, Enter, Wake, Renew, RenewFails,
       ThreadStops, Exit, Join, Settle, vars
<1> QED
  BY <1>1, BudgetHolds, PTL DEF Spec, WorkerHasTheLastWord

==============================================================================
