--------------------------- MODULE Reconciliation ---------------------------
(***************************************************************************)
(* Agreement between the order ledger and the broker's book:               *)
(*   - restart recovery and its readiness gate                             *)
(*     (execution/restart_recovery.py, system/startup_checks.py);          *)
(*   - the periodic reconciliation and its guard                           *)
(*     (execution/reconciliation.py, _runner.py, _providers.py);           *)
(*   - the position monitor's change detection                             *)
(*     (monitoring/position_monitor.py), which closes ledger records.      *)
(* Live mode: out of it both comparisons are no-ops.  A ledger is the set  *)
(* of tickets it believes open; how records get there, with their I/O      *)
(* faults, is OrderExecution.                                              *)
(***************************************************************************)
EXTENDS Integers, FiniteSets

CONSTANTS
  Tickets,
  Plain,                 \* tickets whose position carries no magic, SL or TP
  Interval,              \* ReconciliationRunner.interval
  FlakyReads,            \* the callers whose broker reads may fail
  ChangesPolled,         \* something calls detect_position_changes
  MaxReboots            \* bound: process reboots

ASSUME ReconciliationAssumption ==
  /\ Plain \subseteq Tickets
  /\ Interval \in Nat \ {0} /\ MaxReboots \in Nat
  /\ FlakyReads \subseteq {"recovery", "reconcile", "periodic", "monitor"}
  /\ ChangesPolled \in BOOLEAN

VARIABLES
  broker, resting,   \* open positions; whether pending orders rest at the broker
  used,              \* tickets the broker has issued
  mem,               \* state_machine._order_store: tickets believed open
  store,             \* OrderStateStore (cache and file): tickets believed open
  lastSeen,          \* PositionMonitor._last_sl, saved on disk
  cycles, lastRun,   \* ReconciliationRunner: cycles since the last due run, outcome
  recovery,          \* RestartRecoveryCoordinator: report state, or progress of run()
  reboots,
  bootOrphans,       \* history: positions the ledger did not hold at the restart
  bootEmpty,         \* history: the ledger was empty at the restart
  blind              \* history: _reconcile of this process did not see the book

bookVars == <<broker, resting, used>>
ledgerVars == <<mem, store>>
runnerVars == <<cycles, lastRun>>
bootVars == <<recovery, reboots, bootOrphans, bootEmpty, blind>>
recVars == <<bookVars, ledgerVars, lastSeen, runnerVars, bootVars>>

RecoveryState == {"PENDING", "VERIFIED", "RECONCILED", "BLOCKED"}

RecTypeOK ==
  /\ broker \subseteq used /\ used \subseteq Tickets /\ resting \in BOOLEAN
  /\ mem \subseteq Tickets /\ store \subseteq Tickets /\ lastSeen \subseteq Tickets
  /\ cycles \in 0..(Interval - 1) /\ lastRun \in {"none", "clean", "critical", "error"}
  /\ recovery \in RecoveryState /\ reboots \in 0..MaxReboots
  /\ bootOrphans \subseteq Tickets /\ bootEmpty \in BOOLEAN /\ blind \in BOOLEAN

RecInit ==
  /\ broker = {} /\ resting = FALSE /\ used = {}
  /\ mem = {} /\ store = {} /\ lastSeen = {}
  /\ cycles = 0 /\ lastRun = "none"
  /\ recovery = "PENDING" /\ reboots = 0
  /\ bootOrphans = {} /\ bootEmpty = TRUE /\ blind = FALSE

-----------------------------------------------------------------------------
(* Broker reads (mt5/connector.py)                                         *)

\* get_positions: a failed read, by None or by exception, is an empty list.
GetPositions(caller) == IF caller \in FlakyReads THEN {broker, {}} ELSE {broker}

\* get_positions_ex: <<ok, positions>>.  It checks one read and returns the
\* result of a second one, which may fail by itself.
GetPositionsEx(caller) ==
  {<<TRUE, seen>> : seen \in GetPositions(caller)}
    \cup (IF caller \in FlakyReads THEN {<<FALSE, {}>>} ELSE {})

GetOrders(caller) == IF caller \in FlakyReads THEN {resting, FALSE} ELSE {resting}

-----------------------------------------------------------------------------
(* Reconciler                                                              *)

\* _compare_fields: an internal position is emitted with ticket, symbol and
\* volume only, so magic, SL and TP count as zero.
FieldsAgree(t) == t \in Plain

Clean_IgnoresMissingInternal(internal, seen, orders) ==
  /\ internal \subseteq seen /\ ~orders
  /\ \A t \in internal : FieldsAgree(t)

\* ~has_critical(): nothing missing on either side, no field mismatch, and no
\* order at the broker, since internal_orders is always empty.
Clean(internal, seen, orders) ==
  /\ internal = seen /\ ~orders
  /\ \A t \in internal : FieldsAgree(t)

-----------------------------------------------------------------------------
(* Restart recovery, run once in the lifespan before anything else starts  *)

Started == recovery \in {"RECONCILED", "BLOCKED"}

Ready == recovery = "RECONCILED"

\* Steps 1 to 3 of run(): the intents, the connection, the verified read.
ReadOpenPositions ==
  /\ recovery = "PENDING"
  /\ \E read \in GetPositionsEx("recovery") :
       recovery' = IF read[1] THEN "VERIFIED" ELSE "BLOCKED"
  /\ UNCHANGED <<bookVars, ledgerVars, lastSeen, runnerVars, reboots,
                 bootOrphans, bootEmpty, blind>>

\* Steps 4 to 7: the order read cannot fail; _reconcile reads the positions
\* again, drops the ok flag and compares no orders.
Reconcile ==
  /\ recovery = "VERIFIED"
  /\ \E read \in GetPositionsEx("reconcile") :
       /\ recovery' = IF Clean(store, read[2], FALSE) THEN "RECONCILED" ELSE "BLOCKED"
       /\ blind' = (read[2] # broker)
  /\ UNCHANGED <<bookVars, ledgerVars, lastSeen, runnerVars, reboots, bootOrphans, bootEmpty>>

-----------------------------------------------------------------------------
(* Periodic reconciliation                                                 *)

LastOk == lastRun \in {"none", "clean"}

Outcome(seen, orders) == IF Clean(mem, seen, orders) THEN "clean" ELSE "critical"

\* run_once: a provider that raises leaves the guard closed.
RunOnce(outcomes) == lastRun' \in outcomes \cup {"error"}

Outcomes ==
  {Outcome(seen, orders) : seen \in GetPositions("periodic"), orders \in GetOrders("periodic")}

Tick_NeverAdvances ==
  /\ Started
  /\ IF Interval = 1
       THEN RunOnce(Outcomes)
       ELSE UNCHANGED lastRun
  /\ UNCHANGED <<cycles, bookVars, ledgerVars, lastSeen, bootVars>>

\* tick(), after every drain pass and every HTTP cycle.
Tick ==
  /\ Started
  /\ cycles' = (cycles + 1) % Interval
  /\ IF cycles' = 0 THEN RunOnce(Outcomes) ELSE UNCHANGED lastRun
  /\ UNCHANGED <<bookVars, ledgerVars, lastSeen, bootVars>>

\* POST /reconciliation/run.
ForceRun ==
  /\ Started
  /\ RunOnce(Outcomes)
  /\ UNCHANGED <<cycles, bookVars, ledgerVars, lastSeen, bootVars>>

-----------------------------------------------------------------------------
(* Orders, the broker and the position monitor                             *)

\* The reconciliation guard, then the readiness gate.
Permitted == LastOk /\ Ready

\* A cycle passes both guards and its order fills.  The ledger holds the
\* ticket unless the reply or its confirmation was lost.
Enter(t) ==
  /\ Permitted /\ t \notin used
  /\ broker' = broker \cup {t} /\ used' = used \cup {t}
  /\ \E recorded \in SUBSET {t} :
       mem' = mem \cup recorded /\ store' = store \cup recorded
  /\ UNCHANGED <<resting, lastSeen, runnerVars, bootVars>>

\* Someone else trades on the account, or a stop is hit.
OpenManually(t) ==
  /\ t \notin used
  /\ broker' = broker \cup {t} /\ used' = used \cup {t}
  /\ UNCHANGED <<resting, ledgerVars, lastSeen, runnerVars, bootVars>>

CloseAtBroker(t) ==
  /\ t \in broker
  /\ broker' = broker \ {t}
  /\ UNCHANGED <<resting, used, ledgerVars, lastSeen, runnerVars, bootVars>>

RestingOrder ==
  /\ resting' = ~resting
  /\ UNCHANGED <<broker, used, ledgerVars, lastSeen, runnerVars, bootVars>>

\* A tracked ticket that is gone is marked closed in the store.  The runtime's
\* monitor has no connector of its own, so every read counts as verified.
DetectPositionChanges ==
  /\ ChangesPolled /\ Started
  /\ \E seen \in GetPositions("monitor") :
       store' = store \ (lastSeen \ seen) /\ lastSeen' = seen
  /\ UNCHANGED <<mem, bookVars, runnerVars, bootVars>>

\* The process dies and starts again; set_store reloads the ledger.
RestartProcess ==
  /\ reboots < MaxReboots /\ reboots' = reboots + 1
  /\ mem' = store /\ bootOrphans' = broker \ store /\ bootEmpty' = (store = {}) /\ blind' = FALSE
  /\ cycles' = 0 /\ lastRun' = "none" /\ recovery' = "PENDING"
  /\ UNCHANGED <<bookVars, store, lastSeen>>

RecNext ==
  \/ ReadOpenPositions \/ Reconcile
  \/ Tick \/ ForceRun \/ DetectPositionChanges \/ RestingOrder \/ RestartProcess
  \/ \E t \in Tickets : Enter(t) \/ OpenManually(t) \/ CloseAtBroker(t)

RecSpec == RecInit /\ [][RecNext]_recVars

\* Cycles keep coming, startup finishes, the monitor runs, and a due comparison
\* does not fail for ever.
DueRunReads == Tick /\ cycles' = 0 /\ lastRun' = Outcome(broker, resting)

RecFairSpec ==
  /\ RecSpec
  /\ WF_recVars(ReadOpenPositions) /\ WF_recVars(Reconcile)
  /\ WF_recVars(Tick) /\ SF_recVars(DueRunReads) /\ WF_recVars(DetectPositionChanges)

-----------------------------------------------------------------------------
(* Properties                                                              *)

\* A position of ours that a crash left out of the ledger keeps new orders
\* blocked for as long as it is open.  A failing read is not enough to lose it,
\* nor an empty ledger: it takes both, in one start (_reconcile, which drops
\* the ok flag of the read it compares with).
BootOrphansBlock ==
  bootOrphans \cap broker # {} /\ Ready => blind /\ bootEmpty

\* What the module promises without that exception: "Never internal-empty ==
\* broker-empty.  A broker read failure is reported as unverified"
\* (restart_recovery.py).
EmptyNeverAssumed == bootOrphans \cap broker # {} => ~Ready

\* A position the ledger does not know of closes the guard sooner or later.
OrphanEventuallyBlocks ==
  \A t \in Tickets :
    (Started /\ t \in broker \ mem) ~> (~LastOk \/ t \notin broker \/ ~Started)
=============================================================================
