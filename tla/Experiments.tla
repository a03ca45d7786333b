---------------------------- MODULE Experiments ----------------------------
(***************************************************************************)
(* Experiments, their results and their provenance: the memory of the      *)
(* ResearchEngine, shared by the request threads of the API, and the       *)
(* append-only JSONL log it is rebuilt from after a restart.  _hydrate     *)
(* keeps the last record of a kind and key, so the log is modelled by that *)
(* record.  A write that fails, a crash in the middle of one, and a result *)
(* too long for one block of the file's buffer leave a line without its    *)
(* end, to which the next record is glued; neither is then read back.      *)
(***************************************************************************)
EXTENDS Naturals, FiniteSets

CONSTANTS
  ExperimentIds,    \* uuids still to be given out
  VersionKeys,      \* strategy versions, keyed by their parameter grid
  LabTypes,         \* strategy types, "ema_crossover" among them
  Requests          \* request threads

ASSUME ExperimentsAssumption ==
  "ema_crossover" \in LabTypes /\ Requests \cap {"none", "cut"} = {}

NoExperiment == [status |-> "absent", type |-> "none", version |-> "none"]

VARIABLES
  experiments,      \* memory: id -> [status, type, version]
  results,          \* memory: id -> has a backtest result
  provenance,       \* memory: id -> has a provenance record
  versions,         \* memory: strategy versions created
  disk,             \* what replaying the finished lines of the log would rebuild
  tail,             \* the same with the unfinished last line, if it can be read
  line,             \* that line: none, cut short, or the request writing it
  swallowed,        \* history: experiments a result of which was glued to
  persisted,        \* the store still accepts writes
  req               \* the request each thread serves, and its next step

logVars == <<disk, tail, line, swallowed>>
labVars == <<experiments, results, provenance, versions, logVars, persisted, req>>

NoRequest == [step |-> "idle", id |-> "none", version |-> "none",
              type |-> "ema_crossover"]

EmptyLog == [experiments |-> [e \in ExperimentIds |-> NoExperiment],
             results |-> [e \in ExperimentIds |-> FALSE],
             provenance |-> [e \in ExperimentIds |-> FALSE],
             versions |-> {}]

Exists(e) == experiments[e] # NoExperiment

-----------------------------------------------------------------------------
(* The store                                                               *)

\* The experiments a result of which is lost when the record at hand is.
Lost(after) == {e \in ExperimentIds : after.results[e] /\ ~disk.results[e]}

\* A record ends with its newline: it can be read if the line holds it alone.
EndLine(alone, after) ==
  /\ disk' = IF alone THEN after ELSE disk
  /\ tail' = disk' /\ line' = "none"
  /\ swallowed' = IF alone THEN swallowed ELSE swallowed \cup Lost(after)

\* A record is cut short: all of it but the newline is written, or less.
CutLine(alone, after) ==
  /\ tail' \in (IF alone THEN {disk, after} ELSE {disk})
  /\ line' = "cut" /\ UNCHANGED <<disk, swallowed>>

\* Mutant: a failed write is forgotten instead of ending persistence.
AppendRecord_Forgets(after) ==
  \/ EndLine(line = "none", after) /\ UNCHANGED persisted
  \/ UNCHANGED <<logVars, persisted>>

\* append: once a write has failed, nothing is written until the restart.
AppendRecord(after) ==
  \/ persisted /\ EndLine(line = "none", after) /\ UNCHANGED persisted
  \/ persisted /\ CutLine(line = "none", after) /\ persisted' = FALSE
  \/ persisted' = FALSE /\ UNCHANGED logVars

GoTo(t, step) == req' = [req EXCEPT ![t].step = step]

-----------------------------------------------------------------------------
(* Creating an experiment                                                  *)

\* POST /experiments: looks for the strategy version of the grid.
CreateRequest(t, v, type) ==
  /\ req[t].step = "idle"
  /\ req' = [req EXCEPT ![t] = [NoRequest EXCEPT
       !.step = IF v \in versions THEN "experiment" ELSE "version",
       !.version = v, !.type = type]]
  /\ UNCHANGED <<experiments, results, provenance, versions, logVars, persisted>>

\* create_strategy_version refuses a key that another request created since.
CreateVersion(t) ==
  /\ req[t].step = "version"
  /\ versions' = versions \cup {req[t].version}
  /\ GoTo(t, IF req[t].version \in versions THEN "idle" ELSE "append version")
  /\ UNCHANGED <<experiments, results, provenance, logVars, persisted>>

PersistVersion(t) ==
  /\ req[t].step = "append version"
  /\ AppendRecord([disk EXCEPT !.versions = @ \cup {req[t].version}])
  /\ GoTo(t, "experiment")
  /\ UNCHANGED <<experiments, results, provenance, versions>>

\* create_experiment.
CreateExperiment(t, e) ==
  LET created == [status |-> "pending", type |-> req[t].type,
                  version |-> req[t].version] IN
  /\ req[t].step = "experiment" /\ ~Exists(e)
  /\ experiments' = [experiments EXCEPT ![e] = created]
  /\ AppendRecord([disk EXCEPT !.experiments[e] = created])
  /\ GoTo(t, "idle")
  /\ UNCHANGED <<results, provenance, versions>>

-----------------------------------------------------------------------------
(* Running a backtest                                                      *)

\* POST /experiments/{id}/backtest, past its refusals.  A realistic run that
\* cannot be made falls back to the builtin one.
BacktestRequest(t, e, realistic) ==
  /\ req[t].step = "idle" /\ Exists(e)
  /\ req' = [req EXCEPT ![t] = [NoRequest EXCEPT !.id = e,
       !.step = IF realistic THEN "provenance" ELSE "simulate"]]
  /\ UNCHANGED <<experiments, results, provenance, versions, logVars, persisted>>

\* run_backtest: the result, then the status, in memory.  Too few bars make an
\* empty result without a look at the strategy version; else an experiment whose
\* version did not survive a restart cannot be run.
RunBacktest(t) ==
  /\ req[t].step = "simulate"
  /\ results' = [results EXCEPT ![req[t].id] = TRUE]
  /\ experiments' = [experiments EXCEPT ![req[t].id].status = "completed"]
  /\ GoTo(t, "result")
  /\ UNCHANGED <<provenance, versions, logVars, persisted>>

RunFails(t) ==
  /\ req[t].step = "simulate" /\ experiments[req[t].id].version \notin versions
  /\ GoTo(t, "idle")
  /\ UNCHANGED <<experiments, results, provenance, versions, logVars, persisted>>

\* _persist_result: the result's record, then the experiment's.
PersistResult(t) ==
  /\ req[t].step = "result"
  /\ AppendRecord([disk EXCEPT !.results[req[t].id] = TRUE])
  /\ GoTo(t, "status")
  /\ UNCHANGED <<experiments, results, provenance, versions>>

\* A long list of trades leaves the buffer in two blocks, between which other
\* requests may write.
WriteBlock(t) ==
  /\ req[t].step = "result" /\ persisted
  /\ line' = t /\ tail' = disk
  /\ GoTo(t, "rest")
  /\ UNCHANGED <<experiments, results, provenance, versions, disk, swallowed, persisted>>

WriteRest(t) ==
  LET after == [disk EXCEPT !.results[req[t].id] = TRUE] IN
  /\ req[t].step = "rest"
  /\ \/ EndLine(line = t, after) /\ UNCHANGED persisted
     \/ CutLine(line = t, after) /\ persisted' = FALSE
  /\ GoTo(t, "status")
  /\ UNCHANGED <<experiments, results, provenance, versions>>

PersistStatus(t) ==
  /\ req[t].step = "status"
  /\ AppendRecord([disk EXCEPT !.experiments[req[t].id] = experiments[req[t].id]])
  /\ GoTo(t, "provenance")
  /\ UNCHANGED <<experiments, results, provenance, versions>>

\* record_run_provenance.
RecordProvenance(t) ==
  /\ req[t].step = "provenance"
  /\ provenance' = [provenance EXCEPT ![req[t].id] = TRUE]
  /\ AppendRecord([disk EXCEPT !.provenance[req[t].id] = TRUE])
  /\ GoTo(t, "idle")
  /\ UNCHANGED <<experiments, results, versions>>

-----------------------------------------------------------------------------
(* Restart                                                                 *)

\* _hydrate rebuilds an experiment without its strategy type.
Hydrated(record) ==
  IF record = NoExperiment THEN NoExperiment ELSE [record EXCEPT !.type = "ema_crossover"]

\* The service stops at any point; the next get_research_engine replays the log,
\* or starts from nothing, in memory only, when the file cannot be read.
Restart ==
  /\ \E read \in {TRUE, FALSE} :
       LET log == IF read THEN tail ELSE EmptyLog IN
       /\ experiments' = [e \in ExperimentIds |-> Hydrated(log.experiments[e])]
       /\ results' = log.results /\ provenance' = log.provenance
       /\ versions' = log.versions
       /\ persisted' = read
  /\ line' = IF line = "none" THEN "none" ELSE "cut"
  /\ req' = [t \in Requests |-> NoRequest]
  /\ UNCHANGED <<disk, tail, swallowed>>

-----------------------------------------------------------------------------
(* Specification                                                           *)

ExperimentsInit ==
  /\ experiments = EmptyLog.experiments /\ results = EmptyLog.results
  /\ provenance = EmptyLog.provenance /\ versions = {}
  /\ disk = EmptyLog /\ tail = EmptyLog /\ line = "none" /\ swallowed = {}
  /\ persisted = TRUE
  /\ req = [t \in Requests |-> NoRequest]

ExperimentsNext ==
  \/ \E t \in Requests :
       \/ \E v \in VersionKeys, type \in LabTypes : CreateRequest(t, v, type)
       \/ CreateVersion(t) \/ PersistVersion(t)
       \/ \E e \in ExperimentIds : CreateExperiment(t, e)
       \/ \E e \in ExperimentIds, realistic \in BOOLEAN : BacktestRequest(t, e, realistic)
       \/ RunBacktest(t) \/ RunFails(t)
       \/ PersistResult(t) \/ WriteBlock(t) \/ WriteRest(t)
       \/ PersistStatus(t) \/ RecordProvenance(t)
  \/ Restart

ExperimentsSpec == ExperimentsInit /\ [][ExperimentsNext]_labVars

-----------------------------------------------------------------------------
(* Properties                                                              *)

\* An experiment shown as completed has the result it is ranked by, whichever
\* writes failed, whatever other requests did and wherever the service was
\* stopped: its status is written behind its result, and a write that failed
\* ends persistence (_persist_result; list_experiments, compare_experiments).
\* The one way to lose the result is a line without its end, to which the
\* record was glued.
CompletedHasResult ==
  \A e \in ExperimentIds \ swallowed :
    experiments[e].status = "completed" => results[e]

=============================================================================
