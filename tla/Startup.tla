------------------------------ MODULE Startup ------------------------------
(***************************************************************************)
(* The lifespan of the service (main.lifespan): the order in which start-  *)
(* up wires learning, the durable stores, the agents, the operator's       *)
(* settings, restart recovery, the background tasks and the MT5 binding,   *)
(* what the lazily built runtime captures on its way (get_runtime,         *)
(* OrchestrationRuntime.__init__, _build_pipeline), the settings the       *)
(* dashboard changes while it serves (system/settings_store.py,            *)
(* put_settings), and the shutdown.  Every step of start-up has a handler  *)
(* of its own: it may fail and start-up goes on.                           *)
(*                                                                         *)
(* The 13 knobs fall into the three ways a knob takes effect: "cap" is     *)
(* read when the pipeline is built and pushed into it, "toggle" is read    *)
(* from the store on every use and seeded from the environment, "canon" is *)
(* read when the pipeline is built.  Value 0 is what coerce refuses.       *)
(***************************************************************************)
EXTENDS Naturals, Sequences, FiniteSets

CONSTANTS
  Optional,    \* the background services the environment may turn on
  MaxStarts,   \* bound: processes started
  MaxEdits     \* bound: hand edits of the settings file and dashboard PUTs

Values == 1 .. 2
Knobs == {"cap", "toggle", "canon"}
PatchKnobs == Knobs \ {"canon"}

\* The table's defaults: the cap's is 1.0 lot (2), the rest the cautious value.
Default == [k \in Knobs |-> IF k = "cap" THEN 2 ELSE 1]

\* The durable stores wired one after the other in one handler, the order ledger
\* first; "others" are the intents, kill switch, entry contexts, trades, reviews.
StoreOrder == <<"orders", "others">>

StartupOrder ==
  <<"learning", "stores", "agents", "settings", "safety", "recovery",
    "scheduler", "feed", "risk", "poller", "sampler", "watch", "binding", "serving">>

ShutdownOrder ==
  <<"sampler", "watch", "feed", "risk", "poller", "scheduler", "digest", "detach">>

VARIABLES
  step,       \* where the lifespan stands: down, a step of start-up, serving, stopping
  halting,    \* the step of the shutdown under way
  starts,     \* processes started
  enabled,    \* the environment: optional services turned on, live data wanted
  disk,       \* runtime_settings.json: knob -> value, some knobs perhaps absent
  edits,      \* edits and PUTs made
  store,      \* RuntimeSettingsStore: loaded, values, present
  attached,   \* the connector is in live mode
  lessonStore, reviewLead,  \* "memory" or "file": the default, the agent's
  wired,      \* durable stores attached
  runtime,    \* OrchestrationRuntime, or NoRuntime
  tasks       \* background services running

startupVars == <<step, halting, starts, enabled, disk, edits, store, attached, lessonStore,
                 reviewLead, wired, runtime, tasks>>

NoRuntime == [built |-> FALSE]

IndexOf(seq, x) == CHOOSE i \in 1 .. Len(seq) : seq[i] = x

FollowedBy(s) == StartupOrder[IndexOf(StartupOrder, s) + 1]

Starting == step \in {StartupOrder[i] : i \in 1 .. Len(StartupOrder) - 1}

-----------------------------------------------------------------------------
\* RuntimeSettingsStore

\* Knob.coerce
Coerces(v) == v \in Values

FreshStore == [loaded |-> FALSE, values |-> Default, present |-> {}]

\* load(): an unreadable file and a refused value leave the default.
Load(s, readable) ==
  LET keys == IF readable THEN {k \in DOMAIN disk : Coerces(disk[k])} ELSE {}
  IN  IF s.loaded THEN s
      ELSE [loaded |-> TRUE,
            values |-> [k \in Knobs |-> IF k \in keys THEN disk[k] ELSE s.values[k]],
            present |-> keys]

\* _write_locked(): an OSError is logged and the file stays as it was.
Write(s, written) == disk' = IF written THEN s.values ELSE disk

\* seed_missing(): the environment's value for a knob the file does not hold.
Seed(s, env) ==
  IF "toggle" \in s.present THEN s
  ELSE [s EXCEPT !.values["toggle"] = env, !.present = @ \union {"toggle"}]

\* update(): all or nothing.
Updated(s, patch) ==
  [s EXCEPT !.values = [k \in Knobs |-> IF k \in DOMAIN patch THEN patch[k] ELSE @[k]],
            !.present = @ \union DOMAIN patch]

-----------------------------------------------------------------------------
\* get_runtime(), OrchestrationRuntime.__init__ and _build_pipeline

\* _default_reconciliation_providers: chosen by the mode at construction.
Providers == IF attached THEN "broker" ELSE "none"

\* The size knobs read from the store when the pipeline is built.
PipelineCap(s) == s.values["cap"]

\* _canonical_fanout_enabled is asked once, when the pipeline is built.
FanoutWired(s) == s.values["canon"] = 2

\* _build_position_monitor takes the order ledger that is attached now.
MonitorLedger == "orders" \in wired

\* _build_pipeline: what it captures of the settings and the default stores.
BuildPipeline(s) ==
  [cap |-> PipelineCap(s), fanout |-> FanoutWired(s), lessons |-> lessonStore]

Build(s) ==
  [built |-> TRUE, providers |-> Providers, pipeline |-> BuildPipeline(s),
   orders |-> MonitorLedger, recovered |-> "unwired"]

GetRuntime(s) == IF runtime.built THEN runtime ELSE Build(s)

\* Mutant: nothing is pushed; a knob waits for the next start.
Pushed_Nothing(rt, values, keys) == rt

\* _apply_to_runtime: the pushed knobs; the others are read where they are used.
Pushed(rt, values, keys) ==
  [rt EXCEPT !.pipeline.cap = IF "cap" \in keys THEN values["cap"] ELSE @]

-----------------------------------------------------------------------------
\* Start-up, in order

Start ==
  /\ step = "down" /\ starts < MaxStarts
  /\ starts' = starts + 1
  /\ step' = StartupOrder[1]
  /\ UNCHANGED <<halting, enabled, disk, edits, store, attached, lessonStore, reviewLead,
                 wired, runtime, tasks>>

Goto(s) == step' = s /\ UNCHANGED <<halting, starts, enabled, edits>>

\* Learning feedback: the persistent lesson store is the last thing wired.
WireLearning ==
  /\ step = "learning"
  /\ lessonStore' \in {"memory", "file"}
  /\ Goto(FollowedBy(step))
  /\ UNCHANGED <<disk, store, attached, reviewLead, wired, runtime, tasks>>

\* Durable state: a failure leaves the stores wired before it.
WireStores ==
  /\ step = "stores"
  /\ \E n \in 0 .. Len(StoreOrder) : wired' = {StoreOrder[i] : i \in 1 .. n}
  /\ Goto(FollowedBy(step))
  /\ UNCHANGED <<disk, store, attached, lessonStore, reviewLead, runtime, tasks>>

\* register_default_agents: ReviewLead takes the store that is the default now.
RegisterAgents ==
  /\ step = "agents"
  /\ reviewLead' = lessonStore
  /\ Goto(FollowedBy(step))
  /\ UNCHANGED <<disk, store, attached, lessonStore, wired, runtime, tasks>>

\* Load, seed from the environment, build the runtime, push every value.
ApplySettings ==
  /\ step = "settings"
  /\ \E readable, written \in BOOLEAN, env \in Values :
       LET loaded == Load(store, readable)
           seeded == Seed(loaded, env)
       IN  /\ IF "toggle" \in loaded.present THEN UNCHANGED disk ELSE Write(seeded, written)
           /\ store' = seeded
           /\ runtime' = Pushed(GetRuntime(seeded), seeded.values, Knobs)
  /\ Goto(FollowedBy(step))
  /\ UNCHANGED <<attached, lessonStore, reviewLead, wired, tasks>>

\* The handler around it: nothing is seeded or pushed.
ApplySettingsFails ==
  /\ step = "settings"
  /\ Goto(FollowedBy(step))
  /\ UNCHANGED <<disk, store, attached, lessonStore, reviewLead, wired, runtime, tasks>>

\* run_startup_safety_gate: asks for the pipeline, so the runtime exists from
\* here on; a cap the store accepted is inside (0, 100] and is left alone.
SafetyGate ==
  /\ step = "safety"
  /\ \E readable \in BOOLEAN :
       /\ store' = IF runtime.built THEN store ELSE Load(store, readable)
       /\ runtime' = GetRuntime(store')
  /\ Goto(FollowedBy(step))
  /\ UNCHANGED <<disk, attached, lessonStore, reviewLead, wired, tasks>>

\* _build_restart_coordinator: its callbacks read the broker's book only in live
\* mode and find an empty one otherwise.
RecoveryOutcomes == IF attached THEN {"compared", "blocked"} ELSE {"empty"}

\* run_restart_recovery; "unwired" when the coordinator cannot be built.
RestartRecovery ==
  /\ step = "recovery"
  /\ \E outcome \in {"unwired"} \union RecoveryOutcomes :
       runtime' = [runtime EXCEPT !.recovered = outcome]
  /\ Goto(FollowedBy(step))
  /\ UNCHANGED <<disk, store, attached, lessonStore, reviewLead, wired, tasks>>

\* Scheduler, feed loop, risk monitor and poller when the environment turns
\* them on; sampler and price watch always.  The poller's wiring may fail.
StartTask ==
  /\ step \in {"scheduler", "feed", "risk", "poller", "sampler", "watch"}
  /\ \/ step \notin Optional \ enabled /\ tasks' = tasks \union {step}
     \/ step \in Optional \ enabled /\ UNCHANGED tasks
     \/ step = "poller" /\ UNCHANGED tasks
  /\ Goto(FollowedBy(step))
  /\ UNCHANGED <<disk, store, attached, lessonStore, reviewLead, wired, runtime>>

\* _start_mt5_data_binding: the saved terminal or none, the default one when
\* none was saved; either may fail.
Bind ==
  /\ step = "binding"
  /\ attached' \in IF "live" \in enabled THEN BOOLEAN ELSE {FALSE}
  /\ Goto(FollowedBy(step))
  /\ UNCHANGED <<disk, store, lessonStore, reviewLead, wired, runtime, tasks>>

-----------------------------------------------------------------------------
\* Serving

\* PUT /settings: validated as a whole, stored, written, pushed.
PutSettings ==
  /\ step = "serving" /\ edits < MaxEdits
  /\ edits' = edits + 1
  /\ \E keys \in SUBSET PatchKnobs, written \in BOOLEAN :
     \E patch \in [keys -> 0 .. 2] :
       IF keys = {} \/ \E k \in keys : ~Coerces(patch[k])
       THEN UNCHANGED <<disk, store, runtime>>
       ELSE /\ store' = Updated(store, patch)
            /\ Write(store', written)
            /\ runtime' = Pushed(runtime, store'.values, keys)
  /\ UNCHANGED <<step, halting, starts, enabled, attached, lessonStore, reviewLead, wired,
                 tasks>>

\* The operator selects a terminal, which attaches the connector to it.
SelectTerminal ==
  /\ step = "serving"
  /\ attached' \in BOOLEAN
  /\ UNCHANGED <<step, halting, starts, enabled, disk, edits, store, lessonStore, reviewLead, wired,
                 runtime, tasks>>

-----------------------------------------------------------------------------
\* Shutdown, a crash, and the operator's editor

Shutdown ==
  /\ step = "serving"
  /\ step' = "stopping" /\ halting' = 1
  /\ UNCHANGED <<starts, enabled, disk, edits, store, attached, lessonStore, reviewLead,
                 wired, runtime, tasks>>

ProcessEnds ==
  /\ step' = "down" /\ halting' = 0
  /\ tasks' = {} /\ wired' = {} /\ runtime' = NoRuntime /\ store' = FreshStore
  /\ attached' = FALSE /\ lessonStore' = "memory" /\ reviewLead' = "memory"
  /\ UNCHANGED <<starts, enabled, disk, edits>>

\* Each task is told to stop and awaited, the connector detaches last.
StopTask ==
  /\ step = "stopping"
  /\ IF halting = Len(ShutdownOrder) THEN ProcessEnds
     ELSE /\ halting' = halting + 1
          /\ tasks' = tasks \ {ShutdownOrder[halting]}
          /\ UNCHANGED <<step, starts, enabled, disk, edits, store, attached, lessonStore,
                         reviewLead, wired, runtime>>

Crash == step # "down" /\ ProcessEnds

HandEdit ==
  /\ step = "down" /\ edits < MaxEdits
  /\ edits' = edits + 1
  /\ \E k \in Knobs, v \in 0 .. 2 :
       disk' = [j \in DOMAIN disk \union {k} |-> IF j = k THEN v ELSE disk[j]]
  /\ UNCHANGED <<step, halting, starts, enabled, store, attached, lessonStore, reviewLead, wired,
                 runtime, tasks>>

-----------------------------------------------------------------------------
StartupInit ==
  /\ step = "down" /\ halting = 0 /\ starts = 0 /\ edits = 0
  /\ enabled \in SUBSET (Optional \union {"live"})
  /\ disk = [k \in {} |-> 0]
  /\ store = FreshStore /\ attached = FALSE
  /\ lessonStore = "memory" /\ reviewLead = "memory"
  /\ wired = {} /\ runtime = NoRuntime /\ tasks = {}

StartupSteps ==
  \/ WireLearning \/ WireStores \/ RegisterAgents \/ ApplySettings \/ ApplySettingsFails
  \/ SafetyGate \/ RestartRecovery \/ StartTask \/ Bind

StartupNext ==
  \/ Start \/ StartupSteps
  \/ PutSettings \/ SelectTerminal
  \/ Shutdown \/ StopTask \/ Crash \/ HandEdit

-----------------------------------------------------------------------------
(* Properties *)

\* Once the service serves, the lot cap orders are sized with is the one the
\* settings store holds, whatever step of start-up failed and whichever PUT
\* came last: it is read when the pipeline is built and pushed afterwards.
CapsAreOperators == step = "serving" => runtime.pipeline.cap = store.values["cap"]

\* runtime.py: the reconciliation providers "default to the MT5-backed providers
\* so the reconciliation gate sees real internal-broker state" in live mode.
ComparesWithBroker == step = "serving" /\ attached => runtime.providers = "broker"

StartupSpec == StartupInit /\ [][StartupNext]_startupVars
=============================================================================
