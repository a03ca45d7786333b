----------------------------- MODULE MCOffline -----------------------------
(***************************************************************************)
(* The services beside the trading path: the LLM advisor and the model     *)
(* registry, the backtest engines, the experiment store, the strategy      *)
(* registry, paper trading, the learning chain after a close and the       *)
(* operational drills.  They share no state, so each behaviour explores    *)
(* one of them (focus) while the others rest.                              *)
(***************************************************************************)
EXTENDS Advisor, Backtest, Experiments, Strategies, Learning, Paper, OpsDrills

MCModels == <<"gpt-4o-mini", "gemini-free", "deepseek-free", "sonnet">>
MCFallbacks == <<"deepseek-free">>

MCLiveKey == [name |-> "ta", version |-> "1"]
MCStrategyKeys == {MCLiveKey, [name |-> "ta", version |-> "2"],
                   [name |-> "rsi", version |-> "1"]}

VARIABLE focus

offlineVars == <<focus, advisorVars, backtestVars, labVars, strategyVars, learningVars,
                 paperVars, drillVars>>

OfflineInit ==
  /\ focus \in {"advisor", "backtest", "experiments", "strategies", "learning", "paper",
               "drills"}
  /\ AdvisorInit /\ BacktestInit /\ ExperimentsInit /\ StrategiesInit /\ LearningInit
  /\ PaperInit /\ OpsInit
  /\ focus # "advisor" => budget = 2
  /\ focus # "backtest" => engine = "builtin" /\ strategy = "ema_crossover"

OfflineNext ==
  /\ \/ /\ focus = "advisor" /\ AdvisorNext
        /\ UNCHANGED <<backtestVars, labVars, strategyVars, learningVars, paperVars, drillVars>>
     \/ /\ focus = "backtest" /\ BacktestNext
        /\ UNCHANGED <<advisorVars, labVars, strategyVars, learningVars, paperVars, drillVars>>
     \/ /\ focus = "experiments" /\ ExperimentsNext
        /\ UNCHANGED <<advisorVars, backtestVars, strategyVars, learningVars, paperVars, drillVars>>
     \/ /\ focus = "strategies" /\ StrategiesNext
        /\ UNCHANGED <<advisorVars, backtestVars, labVars, learningVars, paperVars, drillVars>>
     \/ /\ focus = "learning" /\ LearningNext
        /\ UNCHANGED <<advisorVars, backtestVars, labVars, strategyVars, paperVars, drillVars>>
     \/ /\ focus = "paper" /\ PaperNext
        /\ UNCHANGED <<advisorVars, backtestVars, labVars, strategyVars, learningVars,
                       drillVars>>
     \/ /\ focus = "drills" /\ OpsDrillsNext
        /\ UNCHANGED <<advisorVars, backtestVars, labVars, strategyVars, learningVars,
                       paperVars>>
  /\ UNCHANGED focus

OfflineSpec == OfflineInit /\ [][OfflineNext]_offlineVars
=============================================================================
