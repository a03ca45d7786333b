--------------------------- MODULE ExecutionGuard ---------------------------
(***************************************************************************)
(* ExecutionGuard (risk/dependency_breakers.py): the EXECUTION circuit     *)
(* breaker (risk/circuit_breaker.py) and the kill switch                   *)
(* (risk/kill_switch.py) with its JSONL store                              *)
(* (persistence/kill_switch_store.py), as the pipeline uses them: a cycle  *)
(* asks the guard, places its order, and reports the outcome later.  The   *)
(* operator's operations are those the two classes offer.  The runtime     *)
(* runs one cycle at a time; the model admits several past the gate, since *)
(* neither class relies on that.                                           *)
(***************************************************************************)
EXTENDS Integers

CONSTANTS
  Threshold,      \* CircuitBreaker.failure_threshold
  MaxInFlight,    \* bound: cycles past the gate whose outcome is not recorded yet
  MaxRestarts     \* bound: process restarts

ASSUME GuardAssumption ==
  Threshold \in Nat \ {0} /\ MaxInFlight \in Nat /\ MaxRestarts \in Nat

BreakerState == {"CLOSED", "OPEN", "HALF_OPEN"}
KillSwitchState == {"ACTIVE", "TRIGGERED", "LOCKED", "RESET_PENDING"}

VARIABLES
  breaker, failures,   \* CircuitBreaker.state, consecutive_failures (up to Threshold)
  cooled,              \* _cooldown_elapsed()
  ks, locked,          \* KillSwitch.state, KillSwitch.locked
  saved,               \* last line of the kill switch file
  inFlight,            \* cycles past the gate
  halted,              \* history: a trip has not been followed by a confirmed reset
  requested,           \* history: a reset was requested after the latest trip
  restarts

breakerVars == <<breaker, failures, cooled>>
ksVars == <<ks, locked, saved>>
historyVars == <<halted, requested>>
guardVars == <<breakerVars, ksVars, inFlight, historyVars, restarts>>

Saved == [ks : KillSwitchState, locked : BOOLEAN]

GuardTypeOK ==
  /\ breaker \in BreakerState /\ failures \in 0..Threshold /\ cooled \in BOOLEAN
  /\ ks \in KillSwitchState /\ locked \in BOOLEAN /\ saved \in Saved
  /\ inFlight \in 0..MaxInFlight /\ restarts \in 0..MaxRestarts
  /\ halted \in BOOLEAN /\ requested \in BOOLEAN

\* A breaker that never failed has no failure epoch: its window counts as over.
GuardInit ==
  /\ breaker = "CLOSED" /\ failures = 0 /\ cooled = TRUE
  /\ ks = "ACTIVE" /\ locked = FALSE /\ saved = [ks |-> "ACTIVE", locked |-> FALSE]
  /\ inFlight = 0 /\ restarts = 0
  /\ halted = FALSE /\ requested = FALSE

-----------------------------------------------------------------------------
(* KillSwitch                                                              *)

Blocked == ks \in {"TRIGGERED", "LOCKED", "RESET_PENDING"}

\* A failed append is swallowed: the file keeps its last line.
Persist == saved' \in {saved, [ks |-> ks', locked |-> locked']}

TriggerAndLock ==
  IF ks \in {"TRIGGERED", "LOCKED"}
    THEN UNCHANGED ksVars
    ELSE /\ ks' = IF locked THEN "TRIGGERED" ELSE "LOCKED"
         /\ locked' = TRUE
         /\ Persist

\* An operator triggers the switch by hand.
Trigger ==
  /\ ks \notin {"TRIGGERED", "LOCKED"}
  /\ ks' = "TRIGGERED" /\ UNCHANGED locked /\ Persist
  /\ UNCHANGED <<breakerVars, inFlight, historyVars, restarts>>

Lock ==
  /\ ks = "TRIGGERED" /\ ~locked
  /\ ks' = "LOCKED" /\ locked' = TRUE /\ Persist
  /\ UNCHANGED <<breakerVars, inFlight, historyVars, restarts>>

RequestReset ==
  /\ ks \in {"TRIGGERED", "LOCKED"}
  /\ ks' = "RESET_PENDING" /\ UNCHANGED locked /\ Persist
  /\ requested' = TRUE
  /\ UNCHANGED <<breakerVars, inFlight, halted, restarts>>

ConfirmReset_FromAnyState ==
  /\ Blocked
  /\ ks' = "ACTIVE" /\ locked' = FALSE /\ Persist
  /\ halted' = (halted /\ ~requested)
  /\ UNCHANGED <<breakerVars, inFlight, requested, restarts>>

\* A reset counts when it was asked for after the latest trip.
ConfirmReset ==
  /\ ks = "RESET_PENDING"
  /\ ks' = "ACTIVE" /\ locked' = FALSE /\ Persist
  /\ halted' = (halted /\ ~requested)
  /\ UNCHANGED <<breakerVars, inFlight, requested, restarts>>

-----------------------------------------------------------------------------
(* CircuitBreaker and the gate                                             *)

Admit_NeverHalfOpens ==
  /\ inFlight < MaxInFlight
  /\ ~Blocked
  /\ breaker # "OPEN"
  /\ inFlight' = inFlight + 1
  /\ UNCHANGED <<breakerVars, ksVars, historyVars, restarts>>

\* ExecutionGuard.check_can_execute admits a cycle: the kill switch first, then
\* check_allow, which moves an OPEN breaker to HALF_OPEN once its window is over.
Admit ==
  /\ inFlight < MaxInFlight
  /\ ~Blocked
  /\ breaker = "OPEN" => cooled
  /\ breaker' = IF breaker = "OPEN" THEN "HALF_OPEN" ELSE breaker
  /\ inFlight' = inFlight + 1
  /\ UNCHANGED <<failures, cooled, ksVars, historyVars, restarts>>

Trip ==
  /\ breaker' = "OPEN"
  /\ TriggerAndLock
  /\ halted' = TRUE /\ requested' = FALSE

\* record_failure; consecutive_failures only matters up to the threshold.
RecordFailure ==
  /\ inFlight > 0 /\ inFlight' = inFlight - 1
  /\ IF breaker = "OPEN"
       THEN UNCHANGED <<breakerVars, ksVars, historyVars>>
       ELSE /\ failures' = IF failures < Threshold THEN failures + 1 ELSE failures
            /\ cooled' = FALSE
            /\ IF failures + 1 >= Threshold
                 THEN Trip
                 ELSE UNCHANGED <<breaker, ksVars, halted, requested>>
  /\ UNCHANGED restarts

RecordSuccess ==
  /\ inFlight > 0 /\ inFlight' = inFlight - 1
  /\ failures' = 0
  /\ breaker' = IF breaker = "HALF_OPEN" THEN "CLOSED" ELSE breaker
  /\ UNCHANGED <<cooled, ksVars, halted, requested, restarts>>

\* A cycle stopped by a later guard, or refused before dispatch (400, 403, 409),
\* reports nothing.
EndUnreported ==
  /\ inFlight > 0 /\ inFlight' = inFlight - 1
  /\ UNCHANGED <<breakerVars, ksVars, historyVars, restarts>>

\* reset_window_seconds pass without another failure.
CooldownElapses ==
  /\ ~cooled /\ cooled' = TRUE
  /\ UNCHANGED <<breaker, failures, ksVars, inFlight, historyVars, restarts>>

\* trip_manual records no failure epoch.  An exception from trigger or lock
\* reaches the operator; the breaker is OPEN by then.
TripManual ==
  /\ Trip
  /\ failures' = Threshold
  /\ UNCHANGED <<cooled, inFlight, restarts>>

\* The operator's manual breaker reset leaves the kill switch alone.
ResetBreaker ==
  /\ breaker' = "CLOSED" /\ failures' = 0
  /\ UNCHANGED <<cooled, ksVars, inFlight, halted, requested, restarts>>

\* The runtime builds ExecutionGuard(), whose kill switch is a new one; the
\* store is attached but load_kill_switch is not called.
Restart ==
  /\ restarts < MaxRestarts /\ restarts' = restarts + 1
  /\ breaker' = "CLOSED" /\ failures' = 0 /\ cooled' = TRUE
  /\ ks' = "ACTIVE" /\ locked' = FALSE /\ UNCHANGED saved
  /\ inFlight' = 0
  /\ halted' = FALSE /\ requested' = FALSE

Finish == RecordFailure \/ RecordSuccess \/ EndUnreported
Operator == Trigger \/ Lock \/ RequestReset \/ ConfirmReset \/ TripManual \/ ResetBreaker

GuardNext == Admit \/ Finish \/ Operator \/ CooldownElapses \/ Restart

GuardSpec == GuardInit /\ [][GuardNext]_guardVars

\* Time passes, the scheduler keeps bringing cycles to the gate, and a cycle
\* past the gate ends, in whatever way.
GuardFairSpec ==
  GuardSpec /\ WF_guardVars(CooldownElapses) /\ WF_guardVars(Admit) /\ WF_guardVars(Finish)

-----------------------------------------------------------------------------
(* Properties                                                              *)

\* After the breaker trips, orders stay blocked until the operator both
\* requests a reset and confirms it, whatever is still in flight reports, and
\* however often the breaker itself is reset or half-opens.
TripHalts == halted => Blocked

\* An open breaker is not open for ever: with the switch ACTIVE it half-opens
\* once the window is over, also after a manual trip.
OpenBreakerRecovers == breaker = "OPEN" /\ ~Blocked ~> breaker # "OPEN" \/ Blocked
=============================================================================
