----------------------------- MODULE GateProofs -----------------------------
(***************************************************************************)
(* Proofs about the three gates an order has to pass before the engine     *)
(* sees it: the breaker and kill switch (ExecutionGuard), the readiness    *)
(* reconciliation keeps (Reconciliation) and the signal registry with the  *)
(* pipeline's policies (SignalGate).                                       *)
(***************************************************************************)
EXTENDS ExecutionGuard, Reconciliation, SignalGate, TLAPS

-----------------------------------------------------------------------------
(***************************************************************************)
(* The halt after a trip, for every threshold and every number of cycles   *)
(* in flight: TripHalts needs PendingResetIsFresh, because confirm_reset   *)
(* unblocks from RESET_PENDING without looking at what has tripped since.  *)
(***************************************************************************)

\* A reset that is pending while trading is halted was asked for after the trip.
PendingResetIsFresh == halted /\ ks = "RESET_PENDING" => requested

GuardInv == TripHalts /\ PendingResetIsFresh

LEMMA GuardInitInv == GuardInit => GuardTypeOK /\ GuardInv
<1> SUFFICES ASSUME GuardInit PROVE GuardTypeOK /\ GuardInv OBVIOUS
<1>1. /\ cooled \in BOOLEAN /\ locked \in BOOLEAN
      /\ halted \in BOOLEAN /\ requested \in BOOLEAN
  BY Zenon DEF GuardInit
<1>2. saved \in Saved BY DEF GuardInit, Saved, KillSwitchState
<1>3. GuardTypeOK
  BY <1>1, <1>2, GuardAssumption DEF GuardInit, GuardTypeOK, BreakerState, KillSwitchState
<1>4. GuardInv
  BY DEF GuardInit, GuardInv, TripHalts, PendingResetIsFresh
<1> QED BY <1>3, <1>4

\* A kill switch change and its save keep both typed.
LEMMA PersistType ==
  ASSUME GuardTypeOK, Persist, ks' \in KillSwitchState, locked' \in BOOLEAN
  PROVE  saved' \in Saved
  BY DEF GuardTypeOK, Persist, Saved

\* What trigger-and-lock leaves behind: a typed, blocked switch, never one
\* whose reset is still pending.
LEMMA TriggerAndLockEffect ==
  ASSUME GuardTypeOK, TriggerAndLock
  PROVE  /\ ks' \in {"TRIGGERED", "LOCKED"} /\ locked' \in BOOLEAN /\ saved' \in Saved
<1>1. CASE ks \in {"TRIGGERED", "LOCKED"}
  <2>1. UNCHANGED ksVars BY <1>1 DEF TriggerAndLock
  <2> QED BY <1>1, <2>1 DEF ksVars, GuardTypeOK
<1>2. CASE ks \notin {"TRIGGERED", "LOCKED"}
  <2>1. ks' \in {"TRIGGERED", "LOCKED"} BY <1>2 DEF TriggerAndLock
  <2>2. locked' \in BOOLEAN BY <1>2, Zenon DEF TriggerAndLock
  <2>3. Persist BY <1>2 DEF TriggerAndLock
  <2> QED BY <2>1, <2>2, <2>3, PersistType DEF KillSwitchState
<1> QED BY <1>1, <1>2

\* A trip keeps the invariant whatever the switch was doing.
LEMMA TripEffect ==
  ASSUME GuardTypeOK, Trip
  PROVE  /\ breaker' \in BreakerState /\ ks' \in KillSwitchState /\ locked' \in BOOLEAN
         /\ saved' \in Saved /\ halted' \in BOOLEAN /\ requested' \in BOOLEAN
         /\ GuardInv'
<1>1. TriggerAndLock BY DEF Trip
<1>2. /\ ks' \in {"TRIGGERED", "LOCKED"} /\ locked' \in BOOLEAN /\ saved' \in Saved
  BY <1>1, TriggerAndLockEffect
<1>3. halted' \in BOOLEAN /\ requested' \in BOOLEAN BY Zenon DEF Trip
<1>4. breaker' \in BreakerState BY DEF Trip, BreakerState
<1>5. GuardInv' BY <1>2 DEF GuardInv, TripHalts, PendingResetIsFresh, Blocked
<1> QED BY <1>2, <1>3, <1>4, <1>5 DEF KillSwitchState

LEMMA GuardNextInv ==
  ASSUME GuardTypeOK, GuardInv, [GuardNext]_guardVars
  PROVE  GuardTypeOK' /\ GuardInv'
<1> USE DEF breakerVars, ksVars, historyVars
<1>1. CASE Admit
  <2>1. GuardTypeOK' BY <1>1, GuardAssumption DEF Admit, GuardTypeOK, BreakerState
  <2>2. GuardInv' BY <1>1 DEF Admit, GuardInv, TripHalts, PendingResetIsFresh, Blocked
  <2> QED BY <2>1, <2>2
<1>2. CASE RecordFailure
  <2>a. inFlight > 0 /\ inFlight' = inFlight - 1 /\ restarts' = restarts
    BY <1>2, Zenon DEF RecordFailure
  <2>0. inFlight' \in 0..MaxInFlight /\ restarts' \in 0..MaxRestarts
    BY <2>a, GuardAssumption DEF GuardTypeOK
  <2>1. CASE breaker = "OPEN"
    <3>1. UNCHANGED <<breakerVars, ksVars, historyVars>> BY <1>2, <2>1 DEF RecordFailure
    <3> QED BY <2>0, <3>1
            DEF GuardTypeOK, GuardInv, TripHalts, PendingResetIsFresh, Blocked
  <2>2. CASE breaker # "OPEN"
    <3>1. failures' \in 0..Threshold
      BY <1>2, <2>2, GuardAssumption DEF RecordFailure, GuardTypeOK
    <3>2. cooled' \in BOOLEAN BY <1>2, <2>2, Zenon DEF RecordFailure
    <3>3. CASE Trip
      BY <2>0, <3>1, <3>2, <3>3, TripEffect DEF GuardTypeOK
    <3>4. CASE UNCHANGED <<breaker, ksVars, halted, requested>>
      BY <2>0, <3>1, <3>2, <3>4
         DEF GuardTypeOK, GuardInv, TripHalts, PendingResetIsFresh, Blocked
    <3> QED BY <1>2, <2>2, <3>3, <3>4 DEF RecordFailure
  <2> QED BY <2>1, <2>2
<1>3. CASE RecordSuccess
  <2>1. GuardTypeOK' BY <1>3, GuardAssumption DEF RecordSuccess, GuardTypeOK, BreakerState
  <2>2. GuardInv' BY <1>3 DEF RecordSuccess, GuardInv, TripHalts, PendingResetIsFresh, Blocked
  <2> QED BY <2>1, <2>2
<1>4. CASE EndUnreported
  <2>1. GuardTypeOK' BY <1>4, GuardAssumption DEF EndUnreported, GuardTypeOK
  <2>2. GuardInv' BY <1>4 DEF EndUnreported, GuardInv, TripHalts, PendingResetIsFresh, Blocked
  <2> QED BY <2>1, <2>2
<1>5. CASE Trigger
  <2>1. ks' \in KillSwitchState /\ locked' \in BOOLEAN
    BY <1>5 DEF Trigger, GuardTypeOK, KillSwitchState
  <2>2. saved' \in Saved BY <1>5, <2>1, PersistType DEF Trigger
  <2>3. GuardTypeOK' BY <1>5, <2>1, <2>2 DEF Trigger, GuardTypeOK
  <2>4. GuardInv' BY <1>5 DEF Trigger, GuardInv, TripHalts, PendingResetIsFresh, Blocked
  <2> QED BY <2>3, <2>4
<1>6. CASE Lock
  <2>1. ks' \in KillSwitchState BY <1>6 DEF Lock, KillSwitchState
  <2>2. locked' \in BOOLEAN BY <1>6, Zenon DEF Lock
  <2>3. saved' \in Saved BY <1>6, <2>1, <2>2, PersistType DEF Lock
  <2>4. GuardTypeOK' BY <1>6, <2>1, <2>2, <2>3 DEF Lock, GuardTypeOK
  <2>5. GuardInv' BY <1>6 DEF Lock, GuardInv, TripHalts, PendingResetIsFresh, Blocked
  <2> QED BY <2>4, <2>5
<1>7. CASE RequestReset
  <2>1. ks' \in KillSwitchState /\ locked' \in BOOLEAN
    BY <1>7 DEF RequestReset, GuardTypeOK, KillSwitchState
  <2>2. requested' \in BOOLEAN /\ requested' BY <1>7, Zenon DEF RequestReset
  <2>3. saved' \in Saved BY <1>7, <2>1, PersistType DEF RequestReset
  <2>4. GuardTypeOK' BY <1>7, <2>1, <2>2, <2>3 DEF RequestReset, GuardTypeOK
  <2>5. GuardInv'
    BY <1>7, <2>2 DEF RequestReset, GuardInv, TripHalts, PendingResetIsFresh, Blocked
  <2> QED BY <2>4, <2>5
<1>8. CASE ConfirmReset
  <2>1. ks' \in KillSwitchState BY <1>8 DEF ConfirmReset, KillSwitchState
  <2>2. locked' \in BOOLEAN /\ halted' \in BOOLEAN BY <1>8, Zenon DEF ConfirmReset
  <2>3. saved' \in Saved BY <1>8, <2>1, <2>2, PersistType DEF ConfirmReset
  <2>4. GuardTypeOK' BY <1>8, <2>1, <2>2, <2>3 DEF ConfirmReset, GuardTypeOK
  <2>5. ~halted'
    BY <1>8 DEF ConfirmReset, GuardInv, PendingResetIsFresh
  <2>6. GuardInv' BY <2>5 DEF GuardInv, TripHalts, PendingResetIsFresh
  <2> QED BY <2>4, <2>6
<1>9. CASE TripManual
  <2>1. Trip /\ failures' \in 0..Threshold /\ UNCHANGED <<cooled, inFlight, restarts>>
    BY <1>9, GuardAssumption DEF TripManual
  <2> QED BY <2>1, TripEffect DEF GuardTypeOK
<1>10. CASE ResetBreaker
  <2>1. GuardTypeOK'
    BY <1>10, GuardAssumption DEF ResetBreaker, GuardTypeOK, BreakerState
  <2>2. GuardInv' BY <1>10 DEF ResetBreaker, GuardInv, TripHalts, PendingResetIsFresh, Blocked
  <2> QED BY <2>1, <2>2
<1>11. CASE CooldownElapses
  <2>1. cooled' \in BOOLEAN BY <1>11, Zenon DEF CooldownElapses
  <2> QED BY <1>11, <2>1
          DEF CooldownElapses, GuardTypeOK, GuardInv, TripHalts, PendingResetIsFresh, Blocked
<1>12. CASE Restart
  <2>1. /\ cooled' \in BOOLEAN /\ locked' \in BOOLEAN
        /\ halted' \in BOOLEAN /\ requested' \in BOOLEAN /\ ~halted'
    BY <1>12, Zenon DEF Restart
  <2>2. GuardTypeOK'
    BY <1>12, <2>1, GuardAssumption DEF Restart, GuardTypeOK, BreakerState, KillSwitchState
  <2>3. GuardInv' BY <2>1 DEF GuardInv, TripHalts, PendingResetIsFresh
  <2> QED BY <2>2, <2>3
<1>13. CASE UNCHANGED guardVars
  BY <1>13 DEF guardVars, GuardTypeOK, GuardInv, TripHalts, PendingResetIsFresh, Blocked
<1> QED
  BY <1>1, <1>2, <1>3, <1>4, <1>5, <1>6, <1>7, <1>8, <1>9, <1>10, <1>11, <1>12, <1>13
     DEF GuardNext, Finish, Operator

\* The guard's state stays typed for every threshold.
THEOREM GuardTypeCorrect == GuardSpec => []GuardTypeOK
  BY GuardInitInv, GuardNextInv, PTL DEF GuardSpec

\* A tripped breaker keeps every order out until a reset that was requested
\* after the trip is confirmed.
THEOREM TripHaltsHolds == GuardSpec => []TripHalts
<1>1. GuardInit => GuardTypeOK /\ GuardInv BY GuardInitInv
<1>2. GuardTypeOK /\ GuardInv /\ [GuardNext]_guardVars => GuardTypeOK' /\ GuardInv'
  BY GuardNextInv
<1>3. GuardInv => TripHalts BY DEF GuardInv
<1> QED BY <1>1, <1>2, <1>3, PTL DEF GuardSpec

-----------------------------------------------------------------------------
(***************************************************************************)
(* Proofs about Reconciliation, for every set of tickets, every interval   *)
(* and every choice of failing readers.                                    *)
(***************************************************************************)

\* The periodic runner's counter stays below its interval.
LEMMA CounterInRange ==
  ASSUME NEW n \in Nat, NEW i \in Nat \ {0}
  PROVE  (n + 1) % i \in 0..(i - 1)
  OBVIOUS

\* Every comparison run leaves one of the three outcomes.
LEMMA RunOnceType ==
  ASSUME RunOnce(Outcomes)
  PROVE  lastRun' \in {"none", "clean", "critical", "error"}
  BY DEF RunOnce, Outcomes, Outcome

\* Type correctness of the ledgers, the runner and the recovery coordinator.
THEOREM RecTypeCorrect == RecSpec => []RecTypeOK
<1>1. RecInit => RecTypeOK
  <2> SUFFICES ASSUME RecInit PROVE RecTypeOK
    OBVIOUS
  <2>1. resting \in BOOLEAN /\ blind \in BOOLEAN /\ bootEmpty \in BOOLEAN
    BY Zenon DEF RecInit
  <2>2. /\ broker = {} /\ used = {} /\ mem = {} /\ store = {} /\ lastSeen = {}
        /\ cycles = 0 /\ lastRun = "none"
        /\ recovery = "PENDING" /\ reboots = 0 /\ bootOrphans = {}
    BY Zenon DEF RecInit
  <2> QED
    BY <2>1, <2>2, ReconciliationAssumption DEF RecTypeOK, RecoveryState
<1>2. RecTypeOK /\ [RecNext]_recVars => RecTypeOK'
  <2> SUFFICES ASSUME RecTypeOK, [RecNext]_recVars PROVE RecTypeOK'
    OBVIOUS
  <2> USE ReconciliationAssumption
  <2>1. CASE ReadOpenPositions
    BY <2>1 DEF ReadOpenPositions, RecTypeOK, RecoveryState, bookVars, ledgerVars, runnerVars
  <2>2. CASE Reconcile
    BY <2>2 DEF Reconcile, RecTypeOK, RecoveryState, bookVars, ledgerVars, runnerVars
  <2>3. CASE Tick
    <3>1. cycles' \in 0..(Interval - 1)
      BY <2>3, CounterInRange DEF Tick, RecTypeOK
    <3>2. lastRun' \in {"none", "clean", "critical", "error"}
      BY <2>3, RunOnceType DEF Tick, RecTypeOK
    <3> QED
      BY <2>3, <3>1, <3>2 DEF Tick, RecTypeOK, bookVars, ledgerVars, bootVars
  <2>4. CASE ForceRun
    BY <2>4, RunOnceType DEF ForceRun, RecTypeOK, bookVars, ledgerVars, bootVars
  <2>5. CASE DetectPositionChanges
    BY <2>5 DEF DetectPositionChanges, GetPositions, RecTypeOK, bookVars, runnerVars, bootVars
  <2>6. CASE RestingOrder
    BY <2>6 DEF RestingOrder, RecTypeOK, ledgerVars, runnerVars, bootVars
  <2>7. CASE RestartProcess
    <3>1. blind' \in BOOLEAN /\ bootEmpty' \in BOOLEAN
      BY <2>7, Zenon DEF RestartProcess
    <3> QED
      BY <2>7, <3>1 DEF RestartProcess, RecTypeOK, RecoveryState, bookVars
  <2>8. ASSUME NEW t \in Tickets, Enter(t) PROVE RecTypeOK'
    BY <2>8 DEF Enter, RecTypeOK, runnerVars, bootVars
  <2>9. ASSUME NEW t \in Tickets, OpenManually(t) PROVE RecTypeOK'
    BY <2>9 DEF OpenManually, RecTypeOK, ledgerVars, runnerVars, bootVars
  <2>10. ASSUME NEW t \in Tickets, CloseAtBroker(t) PROVE RecTypeOK'
    BY <2>10 DEF CloseAtBroker, RecTypeOK, ledgerVars, runnerVars, bootVars
  <2>11. CASE UNCHANGED recVars
    BY <2>11 DEF RecTypeOK, recVars, bookVars, ledgerVars, runnerVars, bootVars
  <2> QED
    BY <2>1, <2>2, <2>3, <2>4, <2>5, <2>6, <2>7, <2>8, <2>9, <2>10, <2>11 DEF RecNext
<1> QED
  BY <1>1, <1>2, PTL DEF RecSpec

-----------------------------------------------------------------------------
(* BootOrphansBlock is not inductive: a later ledger write could in        *)
(* principle claim an orphan's ticket, and the comparison would then pass. *)
(* Tickets are issued once, and the orphans were issued before the restart.*)
(* And until recovery has ended nothing touches the ledger, so the         *)
(* comparison is made with what the restart loaded.                        *)

OrphansOutsideLedger ==
  /\ bootOrphans \subseteq used
  /\ bootOrphans \cap store = {}
  /\ ~Started /\ store = {} => bootEmpty

\* Whichever reads fail, a process becomes ready over an open position that was
\* missing from its ledger at boot only if that ledger was empty and the read of
\* _reconcile failed too.
THEOREM BootOrphansBlockHolds == RecSpec => []BootOrphansBlock
<1>1. RecInit => OrphansOutsideLedger /\ BootOrphansBlock
  BY DEF RecInit, OrphansOutsideLedger, BootOrphansBlock
<1>2. RecTypeOK /\ OrphansOutsideLedger /\ BootOrphansBlock /\ [RecNext]_recVars
        => OrphansOutsideLedger' /\ BootOrphansBlock'
  <2> SUFFICES ASSUME RecTypeOK, OrphansOutsideLedger, BootOrphansBlock, [RecNext]_recVars
               PROVE  OrphansOutsideLedger' /\ BootOrphansBlock'
    OBVIOUS
  <2> USE DEF OrphansOutsideLedger, BootOrphansBlock, Ready, Started
  <2>1. CASE ReadOpenPositions
    BY <2>1 DEF ReadOpenPositions, bookVars, ledgerVars
  <2>2. CASE Reconcile
    <3>1. PICK read \in GetPositionsEx("reconcile") :
            /\ recovery' = IF Clean(store, read[2], FALSE) THEN "RECONCILED" ELSE "BLOCKED"
            /\ blind' = (read[2] # broker)
      BY <2>2 DEF Reconcile
    <3>2. read[2] = broker \/ read[2] = {}
      <4>1. \A seen \in GetPositions("reconcile") : seen = broker \/ seen = {}
        BY DEF GetPositions
      <4>2. \/ \E seen \in GetPositions("reconcile") : read = <<TRUE, seen>>
            \/ read = <<FALSE, {}>>
        BY <3>1 DEF GetPositionsEx
      <4>3. ASSUME NEW seen \in GetPositions("reconcile"), read = <<TRUE, seen>>
            PROVE  read[2] = broker \/ read[2] = {}
        <5>1. read[2] = seen
          BY <4>3
        <5> QED BY <4>1, <5>1
      <4>4. CASE read = <<FALSE, {}>>
        BY <4>4
      <4> QED BY <4>2, <4>3, <4>4
    <3>3. recovery' = "RECONCILED" => store = read[2]
      BY <3>1 DEF Clean
    <3>4. /\ UNCHANGED <<broker, used, store, bootOrphans, bootEmpty>>
          /\ store = {} => bootEmpty
      BY <2>2 DEF Reconcile, bookVars, ledgerVars
    <3>5. recovery' \in {"RECONCILED", "BLOCKED"}
      BY <3>1
    <3>6. CASE read[2] = broker
      BY <3>3, <3>4, <3>5, <3>6
    <3>7. CASE read[2] # broker
      <4>1. read[2] = {} /\ blind'
        BY <3>1, <3>2, <3>7
      <4> QED
        BY <3>3, <3>4, <3>5, <4>1
    <3> QED
      BY <3>6, <3>7
  <2>3. CASE Tick
    BY <2>3 DEF Tick, bookVars, ledgerVars, bootVars
  <2>4. CASE ForceRun
    BY <2>4 DEF ForceRun, bookVars, ledgerVars, bootVars
  <2>5. CASE DetectPositionChanges
    BY <2>5 DEF DetectPositionChanges, bookVars, bootVars
  <2>6. CASE RestingOrder
    BY <2>6 DEF RestingOrder, ledgerVars, bootVars
  <2>7. CASE RestartProcess
    BY <2>7 DEF RestartProcess, RecTypeOK, bookVars
  <2>8. ASSUME NEW t \in Tickets, Enter(t)
        PROVE  OrphansOutsideLedger' /\ BootOrphansBlock'
    <3>1. t \notin bootOrphans /\ Started /\ recovery \in {"RECONCILED", "BLOCKED"}
      BY <2>8 DEF Enter, Permitted
    <3>2. /\ UNCHANGED <<recovery, bootOrphans, bootEmpty, blind>>
          /\ broker' = broker \cup {t} /\ used' = used \cup {t} /\ store' \subseteq store \cup {t}
      BY <2>8 DEF Enter, bootVars
    <3>3. OrphansOutsideLedger'
      BY <3>1, <3>2
    <3>4. BootOrphansBlock'
      BY <3>1, <3>2
    <3> QED BY <3>3, <3>4
  <2>9. ASSUME NEW t \in Tickets, OpenManually(t)
        PROVE  OrphansOutsideLedger' /\ BootOrphansBlock'
    BY <2>9 DEF OpenManually, ledgerVars, bootVars
  <2>10. ASSUME NEW t \in Tickets, CloseAtBroker(t)
         PROVE  OrphansOutsideLedger' /\ BootOrphansBlock'
    BY <2>10 DEF CloseAtBroker, ledgerVars, bootVars
  <2>11. CASE UNCHANGED recVars
    BY <2>11 DEF recVars, bookVars, ledgerVars, bootVars
  <2> QED
    BY <2>1, <2>2, <2>3, <2>4, <2>5, <2>6, <2>7, <2>8, <2>9, <2>10, <2>11 DEF RecNext
<1> QED
  BY <1>1, <1>2, RecTypeCorrect, PTL DEF RecSpec

-----------------------------------------------------------------------------
(***************************************************************************)
(* Proofs about SignalGate, for any set of symbols and any bounds.         *)
(***************************************************************************)

USE DEF Phase, Position

-----------------------------------------------------------------------------
(* Type correctness                                                        *)

\* What every step of a cycle leaves well-typed.
LEMMA TransitionType ==
  ASSUME SignalTypeOK, NEW S, NEW p \in Phase, Transition(S, p)
  PROVE  phase' \in [Symbols -> Phase]
  BY DEF Transition, SignalTypeOK

LEMMA AtType ==
  ASSUME SignalTypeOK, NEW g \in {"idle", "analyse", "guards", "observe"}, At(g)
  PROVE  /\ cycle' \in [stage : {"idle", "analyse", "guards", "observe"},
                        symbol : Symbols, own : BOOLEAN]
         /\ cycle'.stage = g /\ cycle'.symbol = cycle.symbol /\ cycle'.own = cycle.own
  BY DEF At, SignalTypeOK

LEMMA FillType ==
  ASSUME SignalTypeOK, NEW s \in Symbols, NEW m \in {"ours", "other"}, Fill(s, m)
  PROVE  /\ positions' \subseteq Position
         /\ issued' \in 0..MaxTickets
         /\ \A t \in positions' : t.ticket <= issued'
         /\ \A t \in known : t.ticket <= issued'
  BY SignalGateAssumption DEF Fill, SignalTypeOK

\* SignalTypeOK is inductive by itself.
LEMMA TypeStep ==
  ASSUME SignalTypeOK, [SignalNext]_gateVars
  PROVE  SignalTypeOK'
<1> USE SignalGateAssumption
<1>1. ASSUME NEW s \in Symbols, BeginCycle(s) PROVE SignalTypeOK'
  <2>1. PICK own \in HasOwnPosition(s) :
          cycle' = [stage |-> IF ShouldConvene(s) THEN "analyse" ELSE "observe",
                    symbol |-> s, own |-> own]
    BY <1>1 DEF BeginCycle
  <2>2. own \in BOOLEAN
    BY DEF HasOwnPosition
  <2> QED BY <1>1, <2>1, <2>2 DEF BeginCycle, SignalTypeOK, cycleVars, positionVars
<1>2. CASE NoSignal
  BY <1>2, AtType DEF NoSignal, SignalTypeOK, cycleVars, positionVars
<1>3. CASE Signal
  BY <1>3, AtType DEF Signal, OpenSignal, SignalTypeOK, positionVars
<1>4. CASE Refuse
  BY <1>4, AtType, TransitionType DEF Refuse, SignalTypeOK, positionVars
<1>5. CASE Abort
  BY <1>5, AtType DEF Abort, SignalTypeOK, cycleVars, positionVars
<1>6. CASE ExecuteOk
  <2>1. cycle.symbol \in Symbols
    BY DEF SignalTypeOK
  <2> QED
    BY <1>6, <2>1, AtType, TransitionType, FillType DEF ExecuteOk, SignalTypeOK
<1>7. CASE ExecuteFailed
  <2>1. cycle.symbol \in Symbols
    BY DEF SignalTypeOK
  <2>2. /\ positions' \subseteq Position
        /\ issued' \in 0..MaxTickets
        /\ \A t \in positions' : t.ticket <= issued'
        /\ \A t \in known : t.ticket <= issued'
    BY <1>7, <2>1, FillType DEF ExecuteFailed, SignalTypeOK, positionVars
  <2> QED
    BY <1>7, <2>1, <2>2, AtType, TransitionType DEF ExecuteFailed, SignalTypeOK
<1>8. CASE Observe
  <2>1. known' \subseteq positions
    BY <1>8 DEF Observe
  <2> QED
    BY <1>8, <2>1, AtType, TransitionType DEF Observe, SignalTypeOK, positionVars
<1>9. ASSUME NEW s \in Symbols, CooldownOver(s) \/ EntryCooldownOver(s)
      PROVE  SignalTypeOK'
  BY <1>9 DEF CooldownOver, EntryCooldownOver, SignalTypeOK, positionVars
<1>10. ASSUME NEW s \in Symbols, OpenByHand(s) PROVE SignalTypeOK'
  BY <1>10, FillType DEF OpenByHand, SignalTypeOK, cycleVars
<1>11. ASSUME NEW t \in positions, PositionCloses(t) PROVE SignalTypeOK'
  BY <1>11 DEF PositionCloses, SignalTypeOK, cycleVars
<1>12. CASE RestartSignals
  BY <1>12, AtType DEF RestartSignals, SignalTypeOK, positionVars
<1>13. CASE UNCHANGED gateVars
  BY <1>13 DEF gateVars, cycleVars, positionVars, SignalTypeOK
<1> QED
  BY <1>1, <1>2, <1>3, <1>4, <1>5, <1>6, <1>7, <1>8, <1>9, <1>10, <1>11, <1>12, <1>13
  DEF SignalNext, RunCycle

\* The registry, the detector, the running cycle and the broker's book keep
\* their types in every behaviour.
THEOREM SignalTypeCorrect == SignalSpec => []SignalTypeOK
<1>1. ASSUME SignalInit PROVE SignalTypeOK
  <2>1. cycle \in [stage : {"idle", "analyse", "guards", "observe"},
                   symbol : Symbols, own : BOOLEAN]
    <3>1. cycle \in [stage : {"idle"}, symbol : Symbols, own : {FALSE}]
      BY <1>1 DEF SignalInit
    <3>2. {"idle"} \subseteq {"idle", "analyse", "guards", "observe"} /\ {FALSE} \subseteq BOOLEAN
      BY Zenon
    <3> QED BY <3>1, <3>2
  <2> QED BY <1>1, <2>1, SignalGateAssumption DEF SignalInit, SignalTypeOK
<1> QED BY <1>1, TypeStep, PTL DEF SignalSpec

-----------------------------------------------------------------------------
(* The single-entry policy                                                 *)

\* The inductive part: a cycle that has not seen a position of ours runs while
\* there is none, until its own order fills.
Sighted ==
  cycle.stage \in {"analyse", "guards"} /\ ~cycle.own => Own(positions) = {}

EntryInv == SignalTypeOK /\ OneEntry /\ Sighted

LEMMA EntryStep ==
  ASSUME SingleEntryPolicy, ~FlakyContext, EntryInv, [SignalNext]_gateVars
  PROVE  EntryInv'
<1> USE DEF EntryInv
<1>0. SignalTypeOK'
  BY TypeStep
<1>1. ASSUME NEW s \in Symbols, BeginCycle(s) PROVE EntryInv'
  <2>1. PICK own \in HasOwnPosition(s) :
          cycle' = [stage |-> IF ShouldConvene(s) THEN "analyse" ELSE "observe",
                    symbol |-> s, own |-> own]
    BY <1>1 DEF BeginCycle
  <2>2. own = (Own(positions) # {})
    BY DEF HasOwnPosition
  <2>3. ~cycle'.own => Own(positions) = {}
    BY <2>1, <2>2
  <2>4. positions' = positions
    BY <1>1 DEF BeginCycle, positionVars
  <2> QED BY <1>0, <2>3, <2>4 DEF OneEntry, Sighted, Own
<1>2. CASE NoSignal
  BY <1>0, <1>2, AtType DEF NoSignal, OneEntry, Sighted, Own, positionVars
<1>3. CASE Signal
  <2>1. positions' = positions /\ cycle.stage = "analyse" /\ At("guards")
    BY <1>3 DEF Signal, positionVars
  <2>2. cycle'.stage = "guards" /\ cycle'.own = cycle.own
    BY <2>1, AtType
  <2> QED BY <1>0, <2>1, <2>2 DEF OneEntry, Sighted, Own
<1>4. CASE Refuse \/ Abort
  BY <1>0, <1>4, AtType DEF Refuse, Abort, OneEntry, Sighted, Own, positionVars
<1>5. ASSUME Fill(cycle.symbol, "ours"), EntryAllowed, At("observe")
      PROVE  EntryInv'
  <2>1. ~cycle.own /\ cycle.stage = "guards"
    BY <1>5 DEF EntryAllowed
  <2>2. Own(positions) = {}
    BY <2>1 DEF Sighted
  <2>3. \A t \in Own(positions') :
          t = [ticket |-> issued + 1, symbol |-> cycle.symbol, magic |-> "ours"]
    BY <1>5, <2>2 DEF Fill, Own
  <2>4. cycle'.stage = "observe"
    BY <1>5, AtType
  <2> QED BY <1>0, <2>3, <2>4 DEF OneEntry, Sighted, Own
<1>6. CASE ExecuteOk
  BY <1>5, <1>6 DEF ExecuteOk
<1>7. CASE ExecuteFailed
  <2>1. CASE UNCHANGED positionVars
    BY <1>0, <1>7, <2>1, AtType DEF ExecuteFailed, OneEntry, Sighted, Own, positionVars
  <2> QED BY <1>5, <1>7, <2>1 DEF ExecuteFailed
<1>8. CASE Observe
  BY <1>0, <1>8, AtType DEF Observe, OneEntry, Sighted, Own, positionVars
<1>9. ASSUME NEW s \in Symbols, CooldownOver(s) \/ EntryCooldownOver(s)
      PROVE  EntryInv'
  BY <1>0, <1>9 DEF CooldownOver, EntryCooldownOver, OneEntry, Sighted, Own, positionVars
<1>10. ASSUME NEW s \in Symbols, OpenByHand(s) PROVE EntryInv'
  <2>1. Own(positions') = Own(positions) /\ cycle' = cycle
    BY <1>10 DEF OpenByHand, Fill, Own
  <2> QED BY <1>0, <2>1 DEF OneEntry, Sighted, Own
<1>11. ASSUME NEW t \in positions, PositionCloses(t) PROVE EntryInv'
  <2>1. Own(positions') \subseteq Own(positions) /\ cycle' = cycle
    BY <1>11 DEF PositionCloses, Own
  <2> QED BY <1>0, <2>1 DEF OneEntry, Sighted, Own
<1>12. CASE RestartSignals
  BY <1>0, <1>12, AtType DEF RestartSignals, OneEntry, Sighted, Own, positionVars
<1>13. CASE UNCHANGED gateVars
  BY <1>0, <1>13 DEF gateVars, cycleVars, positionVars, OneEntry, Sighted, Own
<1> QED
  BY <1>1, <1>2, <1>3, <1>4, <1>6, <1>7, <1>8, <1>9, <1>10, <1>11, <1>12, <1>13
  DEF SignalNext, RunCycle

\* With the single-entry policy on and position contexts that can be read, the
\* pipeline never holds two positions: whatever the broker, other traders,
\* lost replies, exceptions, false closes and restarts do in between.
THEOREM OneEntryHolds ==
  ASSUME SingleEntryPolicy, ~FlakyContext
  PROVE  SignalSpec => []OneEntry
<1>1. SignalInit => OneEntry /\ Sighted
  BY DEF SignalInit, OneEntry, Sighted, Own
<1>2. SignalSpec => []SignalTypeOK
  BY SignalTypeCorrect
<1>3. EntryInv /\ [SignalNext]_gateVars => EntryInv'
  BY EntryStep
<1>4. EntryInv => OneEntry
  BY DEF EntryInv
<1>5. SignalTypeOK /\ OneEntry /\ Sighted => EntryInv
  BY DEF EntryInv
<1> QED BY <1>1, <1>2, <1>3, <1>4, <1>5, PTL DEF SignalSpec

-----------------------------------------------------------------------------
(* The committee rests while a trade is open                               *)

\* Nobody else trades the account, reads succeed, replies arrive and the
\* process does not restart.
Undisturbed ==
  ManualSymbols = {} /\ ~FlakyMonitor /\ ~LostReplies /\ MaxBoots = 0

\* A symbol with a position, seen or unseen by the detector, is OPEN; a position
\* shares its symbol with no other, nor with a stale entry of the detector.
OpenWhileHeld ==
  /\ \A t \in positions \cup known : phase[t.symbol] = "OPEN"
  /\ \A t \in positions, u \in positions \cup known : t.symbol = u.symbol => t = u

\* The stage of the cycle and the phase of its symbol agree.
StageMatchesPhase ==
  /\ cycle.stage = "analyse" => ~IsActive(cycle.symbol)
  /\ cycle.stage = "guards" => phase[cycle.symbol] = "PENDING"

RestInv == SignalTypeOK /\ OpenWhileHeld /\ StageMatchesPhase

LEMMA RestStep ==
  ASSUME Undisturbed, RestInv, [SignalNext]_gateVars
  PROVE  RestInv'
<1> USE DEF RestInv
<1>0. SignalTypeOK'
  BY TypeStep
<1>1. ASSUME NEW s \in Symbols, BeginCycle(s) PROVE RestInv'
  <2>1. PICK own \in HasOwnPosition(s) :
          cycle' = [stage |-> IF ShouldConvene(s) THEN "analyse" ELSE "observe",
                    symbol |-> s, own |-> own]
    BY <1>1 DEF BeginCycle
  <2>2. cycle'.symbol = s /\ (cycle'.stage = "analyse" => ~IsActive(s)) /\ cycle'.stage # "guards"
    BY <2>1 DEF ShouldConvene
  <2>3. UNCHANGED <<phase, positions, known>>
    BY <1>1 DEF BeginCycle, cycleVars, positionVars
  <2> QED BY <1>0, <2>2, <2>3 DEF OpenWhileHeld, StageMatchesPhase, IsActive
<1>2. CASE NoSignal
  BY <1>0, <1>2, AtType DEF NoSignal, OpenWhileHeld, StageMatchesPhase, cycleVars, positionVars
<1>3. CASE Signal
  <2>1. /\ UNCHANGED <<positions, known>> /\ At("guards")
        /\ phase' = [phase EXCEPT ![cycle.symbol] = "PENDING"]
        /\ ~IsActive(cycle.symbol) /\ cycle.symbol \in Symbols
    BY <1>3 DEF Signal, OpenSignal, positionVars, StageMatchesPhase, SignalTypeOK
  <2>2. \A t \in positions \cup known : t.symbol # cycle.symbol
    BY <2>1 DEF OpenWhileHeld, IsActive
  <2>3. OpenWhileHeld'
    BY <2>1, <2>2 DEF OpenWhileHeld, SignalTypeOK
  <2>4. cycle'.stage = "guards" /\ cycle'.symbol = cycle.symbol
    BY <2>1, AtType
  <2> QED BY <1>0, <2>1, <2>3, <2>4 DEF StageMatchesPhase, SignalTypeOK
<1>4. ASSUME NEW p \in {"SKIPPED", "FAILED"}, Transition({cycle.symbol}, p),
             cycle.stage = "guards", At("observe"), UNCHANGED <<positions, known>>
      PROVE  RestInv'
  <2>1. \A t \in positions \cup known : t.symbol # cycle.symbol
    BY <1>4 DEF OpenWhileHeld, StageMatchesPhase
  <2>2. OpenWhileHeld'
    BY <1>4, <2>1 DEF OpenWhileHeld, Transition, SignalTypeOK
  <2>3. cycle'.stage = "observe"
    BY <1>4, AtType
  <2> QED BY <1>0, <2>2, <2>3 DEF StageMatchesPhase
<1>5. CASE Refuse
  BY <1>4, <1>5 DEF Refuse, positionVars
<1>6. CASE Abort
  BY <1>0, <1>6, AtType DEF Abort, OpenWhileHeld, StageMatchesPhase, cycleVars, positionVars
<1>7. CASE ExecuteOk
  <2>1. /\ cycle.stage = "guards" /\ Fill(cycle.symbol, "ours") /\ At("observe")
        /\ Transition({cycle.symbol}, "OPEN") /\ known' = known
        /\ phase[cycle.symbol] = "PENDING" /\ cycle.symbol \in Symbols
    BY <1>7 DEF ExecuteOk, EntryAllowed, StageMatchesPhase, SignalTypeOK
  <2>2. \A t \in positions \cup known : t.symbol # cycle.symbol
    BY <2>1 DEF OpenWhileHeld
  <2>3. phase'[cycle.symbol] = "OPEN" /\ \A s \in Symbols : s # cycle.symbol => phase'[s] = phase[s]
    BY <2>1 DEF Transition
  <2> DEFINE new == [ticket |-> issued + 1, symbol |-> cycle.symbol, magic |-> "ours"]
  <2>4. positions' = positions \cup {new} /\ new.symbol = cycle.symbol
    BY <2>1 DEF Fill
  <2>5. \A t \in positions \cup known : t.symbol \in Symbols
    BY DEF SignalTypeOK
  <2> HIDE DEF new
  <2>6. OpenWhileHeld'
    BY <2>1, <2>2, <2>3, <2>4, <2>5 DEF OpenWhileHeld
  <2>7. cycle'.stage = "observe"
    BY <2>1, AtType
  <2> QED BY <1>0, <2>6, <2>7 DEF StageMatchesPhase
<1>8. CASE ExecuteFailed
  BY <1>4, <1>8 DEF ExecuteFailed, EntryAllowed, Undisturbed, positionVars
<1>9. CASE Observe
  <2>1. /\ known' = positions /\ positions' = positions /\ At("idle")
        /\ Transition({t.symbol : t \in known \ known'}, "CLOSED")
    BY <1>9 DEF Observe, Undisturbed, positionVars
  <2>2. \A t \in positions : t.symbol \notin {u.symbol : u \in known \ positions}
    BY DEF OpenWhileHeld
  <2>3. \A t \in positions : phase'[t.symbol] = phase[t.symbol]
    BY <2>1, <2>2 DEF Transition, SignalTypeOK
  <2>4. \A t, u \in positions : t.symbol = u.symbol => t = u
    BY DEF OpenWhileHeld
  <2> QED BY <1>0, <2>1, <2>3, <2>4, AtType DEF OpenWhileHeld, StageMatchesPhase
<1>10. ASSUME NEW s \in Symbols, CooldownOver(s) \/ EntryCooldownOver(s)
       PROVE  RestInv'
  BY <1>0, <1>10 DEF CooldownOver, EntryCooldownOver, OpenWhileHeld, StageMatchesPhase, IsActive, positionVars
<1>11. ASSUME NEW s \in Symbols, OpenByHand(s) PROVE RestInv'
  BY <1>11 DEF OpenByHand, Undisturbed
<1>12. ASSUME NEW t \in positions, PositionCloses(t) PROVE RestInv'
  BY <1>0, <1>12 DEF PositionCloses, OpenWhileHeld, StageMatchesPhase, IsActive, cycleVars
<1>13. CASE RestartSignals
  BY <1>13 DEF RestartSignals, Undisturbed, SignalTypeOK
<1>14. CASE UNCHANGED gateVars
  BY <1>0, <1>14 DEF gateVars, cycleVars, positionVars, OpenWhileHeld, StageMatchesPhase, IsActive
<1> QED
  BY <1>1, <1>2, <1>3, <1>5, <1>6, <1>7, <1>8, <1>9, <1>10, <1>11, <1>12, <1>13, <1>14
  DEF SignalNext, RunCycle

\* While nothing disturbs the detector, no committee is convened for a symbol
\* on which a position of ours is open, with the single-entry policy or without.
THEOREM CommitteeRestsHolds ==
  ASSUME Undisturbed
  PROVE  SignalSpec => []CommitteeRests
<1>1. ASSUME SignalInit PROVE OpenWhileHeld /\ StageMatchesPhase
  <2>1. cycle.stage = "idle"
    BY <1>1 DEF SignalInit
  <2> QED BY <1>1, <2>1 DEF SignalInit, OpenWhileHeld, StageMatchesPhase
<1>2. SignalSpec => []SignalTypeOK
  BY SignalTypeCorrect
<1>3. RestInv /\ [SignalNext]_gateVars => RestInv'
  BY RestStep
<1>4. RestInv => CommitteeRests
  BY DEF RestInv, OpenWhileHeld, StageMatchesPhase, CommitteeRests, IsActive, On, Own
<1>5. SignalTypeOK /\ OpenWhileHeld /\ StageMatchesPhase => RestInv
  BY DEF RestInv
<1> QED BY <1>1, <1>2, <1>3, <1>4, <1>5, PTL DEF SignalSpec

=============================================================================
