----------------------------- MODULE Strategies -----------------------------
(***************************************************************************)
(* The strategy registry and its endpoints: versions of named strategies,  *)
(* their life cycle and evidence, and the configuration the deterministic  *)
(* engine takes from the active one.  The handlers run on the event loop,  *)
(* one at a time; a restart forgets everything and registers the default.  *)
(***************************************************************************)
EXTENDS Naturals, Sequences, FiniteSetsExt

CONSTANTS
  StrategyKeys,     \* records [name, version]
  LiveKey,          \* _LIVE_NAME, _LIVE_VERSION
  Grids,            \* parameter sets
  DefaultGrid       \* DEFAULT_CONFIG

ASSUME StrategiesAssumption ==
  /\ StrategyKeys \subseteq [name : STRING, version : STRING \ {"none"}]
  /\ LiveKey \in StrategyKeys /\ DefaultGrid \in Grids

VARIABLES
  registered,       \* keys in the order they were registered
  strategies,       \* key -> [status, parameters, metrics, passed]
  activeByName      \* name -> the version in force, "none" without one

strategyVars == <<registered, strategies, activeByName>>

Names == {k.name : k \in StrategyKeys}
Draft(p) == [status |-> "DRAFT", parameters |-> p, metrics |-> "none", passed |-> FALSE]
Unregistered == [status |-> "absent", parameters |-> DefaultGrid,
                 metrics |-> "none", passed |-> FALSE]

Known(k) == strategies[k].status # "absent"
IsActive(k) == strategies[k].status = "ACTIVE"

-----------------------------------------------------------------------------
(* The promotion gate                                                      *)

\* PROMOTION_RULES, read for the one transition the endpoints ask for.
PromotableToActive ==
  {"DRAFT", "TESTING", "BACKTESTED", "WALK_FORWARD", "PAPER", "DEMO", "APPROVED"}

\* can_promote(status, ACTIVE): the evidence is a passed validation or, except
\* from TESTING, metrics with a win rate of at least one half.
CanPromote(s) ==
  /\ s.status \in PromotableToActive
  /\ s.passed \/ (s.status # "TESTING" /\ s.metrics = "good")

\* activate: retires the version in force, then puts the new one in force.
Activated(s, k) ==
  [j \in StrategyKeys |->
     IF j = k THEN [s[j] EXCEPT !.status = "ACTIVE"]
     ELSE IF j.name = k.name /\ j.version = activeByName[k.name]
     THEN [s[j] EXCEPT !.status = "RETIRED"]
     ELSE s[j]]

-----------------------------------------------------------------------------
(* The endpoints                                                           *)

\* POST /strategies.
CreateStrategy(k, p) ==
  /\ ~Known(k)
  /\ registered' = Append(registered, k)
  /\ strategies' = [strategies EXCEPT ![k] = Draft(p)]
  /\ UNCHANGED activeByName

\* POST /strategies/{id}/active with active = true: evidence in the body is
\* stored first, and stays when the gate then refuses.
SetActive(k, metrics, passed) ==
  LET s == [strategies EXCEPT
              ![k].metrics = IF metrics = "unsaid" THEN @ ELSE metrics,
              ![k].passed = IF passed = "unsaid" THEN @ ELSE passed = "yes"]
  IN
  /\ Known(k)
  /\ IF CanPromote(s[k])
     THEN /\ strategies' = Activated(s, k)
          /\ activeByName' = [activeByName EXCEPT ![k.name] = k.version]
     ELSE strategies' = s /\ UNCHANGED activeByName
  /\ UNCHANGED registered

\* DELETE /strategies/{id}, and POST .../active with active = false.
Retire(k) ==
  /\ Known(k)
  /\ strategies' = [strategies EXCEPT ![k].status = "RETIRED"]
  /\ activeByName' = [activeByName EXCEPT ![k.name] = IF @ = k.version THEN "none" ELSE @]
  /\ UNCHANGED registered

\* Mutant: parameters of an active strategy are edited too.
EditStrategy_Active(k, p) ==
  /\ Known(k)
  /\ strategies' = [strategies EXCEPT ![k].parameters = p]
  /\ UNCHANGED <<registered, activeByName>>

\* PATCH /strategies/{id}: the evidence is kept whatever the new parameters.
EditStrategy(k, p) ==
  /\ Known(k) /\ ~IsActive(k)
  /\ strategies' = [strategies EXCEPT ![k].parameters = p]
  /\ UNCHANGED <<registered, activeByName>>

ActiveAt == {i \in DOMAIN registered : IsActive(registered[i])}
FirstActive == registered[Min(ActiveAt)]

\* GET /strategies/performance/summary and start-up: the metrics of the closed
\* trades go to the default live version, in force or not.
RefreshPerformance(metrics) ==
  /\ Known(LiveKey) \/ ActiveAt # {}
  /\ LET k == IF Known(LiveKey) THEN LiveKey ELSE FirstActive IN
     strategies' = [strategies EXCEPT ![k].metrics = metrics]
  /\ UNCHANGED <<registered, activeByName>>

\* A restart: register_live_strategy registers the default and puts it in
\* force without asking the gate.
RestartRegistry ==
  /\ registered' = <<LiveKey>>
  /\ strategies' = [k \in StrategyKeys |->
       IF k = LiveKey THEN [Draft(DefaultGrid) EXCEPT !.status = "ACTIVE"]
       ELSE Unregistered]
  /\ activeByName' = [n \in Names |-> IF n = LiveKey.name THEN LiveKey.version ELSE "none"]

\* get_active_strategy_config: the version in force of the live name, else the
\* first active version of any name, else the engine's own default.
InForce == [name |-> LiveKey.name, version |-> activeByName[LiveKey.name]]
RunningConfig ==
  IF InForce.version # "none" THEN strategies[InForce].parameters
  ELSE IF ActiveAt # {} THEN strategies[FirstActive].parameters
  ELSE DefaultGrid

-----------------------------------------------------------------------------
(* Specification                                                           *)

StrategiesInit ==
  /\ registered = <<LiveKey>>
  /\ strategies = [k \in StrategyKeys |->
       IF k = LiveKey THEN [Draft(DefaultGrid) EXCEPT !.status = "ACTIVE"]
       ELSE Unregistered]
  /\ activeByName = [n \in Names |-> IF n = LiveKey.name THEN LiveKey.version ELSE "none"]

MetricReadings == {"low", "good"}

\* The operator's decisions, which may change what runs.
GovernanceStep ==
  \/ \E k \in StrategyKeys, metrics \in MetricReadings \cup {"unsaid"},
        passed \in {"unsaid", "yes", "no"} : SetActive(k, metrics, passed)
  \/ \E k \in StrategyKeys : Retire(k)
  \/ RestartRegistry

StrategiesNext ==
  \/ GovernanceStep
  \/ \E k \in StrategyKeys, p \in Grids : CreateStrategy(k, p) \/ EditStrategy(k, p)
  \/ \E metrics \in MetricReadings : RefreshPerformance(metrics)

StrategiesSpec == StrategiesInit /\ [][StrategiesNext]_strategyVars

-----------------------------------------------------------------------------
(* Properties                                                              *)

\* The configuration the engine runs is the one that was put in force: creating
\* and editing versions or refreshing metrics never changes it, however versions
\* of several names were activated and retired before (edit_strategy: "Parameters
\* of an ACTIVE strategy are read-only").
RunningConfigStable ==
  [][RunningConfig' # RunningConfig => GovernanceStep]_strategyVars

=============================================================================
