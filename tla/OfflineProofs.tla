---------------------------- MODULE OfflineProofs ----------------------------
(***************************************************************************)
(* Proofs about the services beside the trading path: the experiment store *)
(* (Experiments), the learning chain (Learning), the strategy registry     *)
(* (Strategies), the backtest engines (Backtest), the model registry of    *)
(* the advisor (Advisor), paper trading (Paper) and the operational drills *)
(* (OpsDrills).                                                            *)
(***************************************************************************)
EXTENDS Advisor, Backtest, Experiments, Strategies, Learning, Paper, OpsDrills,
        SumProofs, FiniteSetTheorems, TLAPS

-----------------------------------------------------------------------------
(* Experiments.  A status may reach the log only behind its result: once a *)
(* write has failed nothing more is written, so a request at the status    *)
(* step whose store still accepts writes has its result in the finished    *)
(* lines of the log, or its record was glued to a line without an end.     *)

Experiment ==
  [status : {"absent", "pending", "completed"}, type : LabTypes \cup {"none", "ema_crossover"},
   version : VersionKeys \cup {"none"}]

LabSteps ==
  {"idle", "version", "append version", "experiment", "simulate", "provenance", "result", "rest",
   "status"}

LabRequest ==
  [step : LabSteps, id : ExperimentIds \cup {"none"}, version : VersionKeys \cup {"none"},
   type : LabTypes \cup {"ema_crossover"}]

LabLog ==
  [experiments : [ExperimentIds -> Experiment], results : [ExperimentIds -> BOOLEAN],
   provenance : [ExperimentIds -> BOOLEAN], versions : SUBSET VersionKeys]

LogOk ==
  /\ disk \in LabLog /\ tail \in LabLog
  /\ line \in {"none", "cut"} \cup Requests
  /\ swallowed \subseteq ExperimentIds
  /\ persisted \in BOOLEAN

StoresOk ==
  /\ experiments \in [ExperimentIds -> Experiment]
  /\ results \in [ExperimentIds -> BOOLEAN] /\ provenance \in [ExperimentIds -> BOOLEAN]
  /\ versions \subseteq VersionKeys

RequestsOk ==
  /\ req \in [Requests -> LabRequest]
  /\ \A t \in Requests :
       /\ req[t].step \in {"simulate", "provenance", "result", "rest", "status"}
            => req[t].id \in ExperimentIds
       /\ req[t].step \in {"version", "append version", "experiment"} => req[t].version \in VersionKeys

LabTypeOK == LogOk /\ StoresOk /\ RequestsOk

LogHasResult ==
  \A e \in ExperimentIds \ swallowed :
    /\ disk.experiments[e].status = "completed" => disk.results[e] = TRUE
    /\ tail.experiments[e].status = "completed" => tail.results[e] = TRUE

StatusBehindResult ==
  \A t \in Requests :
    req[t].step = "status" /\ persisted = TRUE /\ req[t].id \notin swallowed
      => disk.results[req[t].id] = TRUE

LabInv == LabTypeOK /\ CompletedHasResult /\ LogHasResult /\ StatusBehindResult

\* What writing one record may do: it is read back, or not, and what it loses
\* is counted as swallowed.
Moves(after) ==
  /\ disk' \in {disk, after} /\ tail' \in {tail, disk, after}
  /\ line' \in {"none", "cut"} \cup Requests
  /\ swallowed \subseteq swallowed' /\ swallowed' \subseteq ExperimentIds
  /\ persisted' \in BOOLEAN
  /\ persisted' = TRUE =>
       /\ persisted = TRUE
       /\ \A e \in ExperimentIds : after.results[e] = TRUE =>
            disk'.results[e] = TRUE \/ e \in swallowed'

LEMMA EndLineMoves ==
  ASSUME LogOk, NEW alone \in BOOLEAN, NEW after \in LabLog, EndLine(alone, after),
         UNCHANGED persisted
  PROVE  Moves(after)
<1>1. CASE alone
  BY <1>1 DEF EndLine, Moves, LogOk
<1>2. CASE ~alone
  <2>1. disk' = disk /\ tail' = disk /\ line' = "none" /\ swallowed' = swallowed \cup Lost(after)
    BY <1>2 DEF EndLine
  <2>2. \A e \in ExperimentIds : after.results[e] = TRUE => disk.results[e] = TRUE \/ e \in Lost(after)
    <3> TAKE e \in ExperimentIds
    <3>1. after.results[e] \in BOOLEAN /\ disk.results[e] \in BOOLEAN
      BY DEF LogOk, LabLog
    <3>2. after.results[e] /\ ~disk.results[e] => e \in Lost(after)
      BY DEF Lost
    <3> QED BY <3>1, <3>2
  <2>3. Lost(after) \subseteq ExperimentIds
    BY DEF Lost
  <2> QED BY <2>1, <2>2, <2>3 DEF Moves, LogOk
<1> QED BY <1>1, <1>2

LEMMA CutLineMoves ==
  ASSUME LogOk, NEW alone \in BOOLEAN, NEW after \in LabLog, CutLine(alone, after),
         persisted' = FALSE
  PROVE  Moves(after)
<1>1. tail' \in {disk, after}
  BY DEF CutLine
<1>2. persisted' \in BOOLEAN /\ persisted' # TRUE
  BY Zenon
<1> QED BY <1>1, <1>2 DEF CutLine, Moves, LogOk

\* A write takes effect, is glued, is cut short or does not happen, and only
\* while the store accepts writes.
LEMMA AppendMoves ==
  ASSUME LogOk, NEW after \in LabLog, AppendRecord(after)
  PROVE  Moves(after) /\ (persisted # TRUE => UNCHANGED logVars)
<1>1. CASE persisted /\ EndLine(line = "none", after) /\ UNCHANGED persisted
  <2>1. persisted = TRUE
    BY <1>1, Zenon DEF LogOk
  <2> QED BY <1>1, <2>1, EndLineMoves
<1>2. CASE persisted /\ CutLine(line = "none", after) /\ persisted' = FALSE
  <2>1. persisted = TRUE
    BY <1>2, Zenon DEF LogOk
  <2> QED BY <1>2, <2>1, CutLineMoves
<1>3. CASE persisted' = FALSE /\ UNCHANGED logVars
  <2>1. persisted' \in BOOLEAN /\ persisted' # TRUE
    BY <1>3, Zenon
  <2> QED BY <1>3, <2>1 DEF logVars, Moves, LogOk
<1> QED BY <1>1, <1>2, <1>3 DEF AppendRecord

\* A record that keeps results, and brings a status only behind its result,
\* keeps the log in order.
LEMMA MovesKeepLog ==
  ASSUME LabInv, NEW after \in LabLog, Moves(after),
         \A e \in ExperimentIds \ swallowed :
           after.experiments[e].status = "completed" => after.results[e] = TRUE,
         \A e \in ExperimentIds : disk.results[e] = TRUE => after.results[e] = TRUE
  PROVE  /\ LogOk' /\ LogHasResult'
         /\ \A e \in ExperimentIds : disk.results[e] = TRUE => disk'.results[e] = TRUE
<1>1. LogOk'
  BY DEF LabInv, LabTypeOK, LogOk, Moves
<1>2. LogHasResult'
  <2> SUFFICES ASSUME NEW e \in ExperimentIds \ swallowed'
               PROVE  /\ disk'.experiments[e].status = "completed" => disk'.results[e] = TRUE
                      /\ tail'.experiments[e].status = "completed" => tail'.results[e] = TRUE
    BY DEF LogHasResult
  <2>1. e \in ExperimentIds \ swallowed
    BY DEF Moves
  <2> QED BY <2>1 DEF LabInv, LogHasResult, Moves
<1> QED BY <1>1, <1>2 DEF Moves

\* What a request leaves of the others' statuses, and of what memory shows.
LEMMA MovesKeepRequests ==
  ASSUME LabInv, NEW t \in Requests, NEW after, Moves(after), RequestsOk',
         \A u \in Requests : u # t => req'[u] = req[u],
         \A e \in ExperimentIds : disk.results[e] = TRUE => disk'.results[e] = TRUE,
         req'[t].step = "status" => after.results[req'[t].id] = TRUE
  PROVE  StatusBehindResult'
<1> SUFFICES ASSUME NEW u \in Requests, req'[u].step = "status", persisted' = TRUE,
                    req'[u].id \notin swallowed'
             PROVE  disk'.results[req'[u].id] = TRUE
  BY DEF StatusBehindResult
<1>1. req'[u].id \in ExperimentIds
  BY DEF RequestsOk
<1>2. CASE u = t
  BY <1>1, <1>2 DEF Moves
<1>3. CASE u # t
  <2>1. req'[u] = req[u] /\ persisted = TRUE /\ req[u].id \notin swallowed
    BY <1>3 DEF Moves
  <2> QED BY <1>1, <2>1 DEF LabInv, StatusBehindResult
<1> QED BY <1>2, <1>3

\* A step of one request: the others are where they were.
LEMMA GoToType ==
  ASSUME LabTypeOK, NEW t \in Requests, NEW step \in LabSteps, GoTo(t, step),
         step \in {"simulate", "provenance", "result", "rest", "status"} => req[t].id \in ExperimentIds,
         step \in {"version", "append version", "experiment"} => req[t].version \in VersionKeys
  PROVE  /\ RequestsOk'
         /\ \A u \in Requests : u # t => req'[u] = req[u]
         /\ req'[t].step = step /\ req'[t].id = req[t].id
<1>1. req[t] \in LabRequest /\ req \in [Requests -> LabRequest]
  BY DEF LabTypeOK, RequestsOk
<1> DEFINE mine == [req[t] EXCEPT !.step = step]
<1>2. req' = [req EXCEPT ![t] = mine]
  BY DEF GoTo
<1>3. mine \in LabRequest /\ mine.step = step /\ mine.id = req[t].id /\ mine.version = req[t].version
  BY <1>1 DEF LabRequest
<1> HIDE DEF mine
<1> QED BY <1>1, <1>2, <1>3 DEF LabTypeOK, RequestsOk

LEMMA NoRequestType == NoRequest \in LabRequest /\ NoRequest.step = "idle"
  BY DEF NoRequest, LabRequest, LabSteps

LEMMA NoExperimentType == NoExperiment \in Experiment /\ NoExperiment.status = "absent"
  BY DEF NoExperiment, Experiment

LEMMA EmptyLogType ==
  EmptyLog \in LabLog /\ \A e \in ExperimentIds : EmptyLog.experiments[e].status = "absent"
  BY NoExperimentType DEF EmptyLog, LabLog

LEMMA LabInit == ExperimentsInit => LabInv
<1> SUFFICES ASSUME ExperimentsInit PROVE LabInv
  OBVIOUS
<1>1. /\ EmptyLog.experiments = [e \in ExperimentIds |-> NoExperiment]
      /\ EmptyLog.results = [e \in ExperimentIds |-> FALSE]
      /\ EmptyLog.provenance = [e \in ExperimentIds |-> FALSE]
      /\ EmptyLog.versions = {}
  BY DEF EmptyLog
<1>2. /\ EmptyLog.experiments \in [ExperimentIds -> Experiment]
      /\ EmptyLog.results \in [ExperimentIds -> BOOLEAN]
      /\ EmptyLog.provenance \in [ExperimentIds -> BOOLEAN]
  BY <1>1, NoExperimentType
<1>3. EmptyLog \in LabLog
  BY <1>1, <1>2 DEF EmptyLog, LabLog
<1>4. /\ experiments = [e \in ExperimentIds |-> NoExperiment] /\ versions = {}
      /\ results = EmptyLog.results /\ provenance = EmptyLog.provenance
      /\ disk = EmptyLog /\ tail = EmptyLog /\ line = "none" /\ swallowed = {}
      /\ req = [t \in Requests |-> NoRequest]
  BY <1>1 DEF ExperimentsInit
<1>5. persisted \in BOOLEAN
  BY Zenon DEF ExperimentsInit
<1>6. LabTypeOK
  <2>1. experiments \in [ExperimentIds -> Experiment] /\ req \in [Requests -> LabRequest]
    BY <1>4, NoExperimentType, NoRequestType
  <2>2. \A t \in Requests : req[t].step = "idle"
    BY <1>4, NoRequestType
  <2> QED BY <1>2, <1>3, <1>4, <1>5, <2>1, <2>2 DEF LabTypeOK, LogOk, StoresOk, RequestsOk
<1>7. CompletedHasResult /\ LogHasResult
  BY <1>1, <1>4, NoExperimentType DEF CompletedHasResult, LogHasResult
<1>8. StatusBehindResult
  BY <1>4, NoRequestType DEF StatusBehindResult
<1> QED BY <1>6, <1>7, <1>8 DEF LabInv

LEMMA LabStep ==
  ASSUME LabInv, [ExperimentsNext]_labVars
  PROVE  LabInv'
<1>t. /\ experiments \in [ExperimentIds -> Experiment]
      /\ results \in [ExperimentIds -> BOOLEAN] /\ provenance \in [ExperimentIds -> BOOLEAN]
      /\ versions \subseteq VersionKeys
      /\ disk \in LabLog /\ persisted \in BOOLEAN
      /\ req \in [Requests -> LabRequest]
  BY DEF LabInv, LabTypeOK, LogOk, StoresOk, RequestsOk
<1>r. \A t \in Requests :
       /\ req[t].step \in {"simulate", "provenance", "result", "rest", "status"}
            => req[t].id \in ExperimentIds
       /\ req[t].step \in {"version", "append version", "experiment"} => req[t].version \in VersionKeys
  BY DEF LabInv, LabTypeOK, RequestsOk
<1>i. /\ LabTypeOK /\ CompletedHasResult /\ LogHasResult /\ StatusBehindResult
      /\ LogOk /\ StoresOk
  BY DEF LabInv, LabTypeOK
\* A step that does not touch the log, and puts no request behind its result.
<1>q. ASSUME NEW t \in Requests, UNCHANGED <<logVars, persisted>>, StoresOk', RequestsOk',
             CompletedHasResult', req'[t].step # "status",
             \A u \in Requests : u # t => req'[u] = req[u]
      PROVE  LabInv'
  <2>1. LogOk' /\ LogHasResult'
    BY <1>i, <1>q DEF logVars, LogOk, LogHasResult
  <2>2. StatusBehindResult'
    <3> SUFFICES ASSUME NEW u \in Requests, req'[u].step = "status", persisted' = TRUE,
                        req'[u].id \notin swallowed'
                 PROVE  disk'.results[req'[u].id] = TRUE
      BY DEF StatusBehindResult
    <3> QED BY <1>i, <1>q DEF StatusBehindResult, logVars
  <2> QED BY <1>q, <2>1, <2>2 DEF LabInv, LabTypeOK
\* A step that writes a record.
<1>w. ASSUME NEW t \in Requests, NEW after \in LabLog, Moves(after), StoresOk', RequestsOk',
             \A u \in Requests : u # t => req'[u] = req[u],
             \A e \in ExperimentIds \ swallowed :
               after.experiments[e].status = "completed" => after.results[e] = TRUE,
             \A e \in ExperimentIds : disk.results[e] = TRUE => after.results[e] = TRUE,
             req'[t].step = "status" => after.results[req'[t].id] = TRUE,
             \A e \in ExperimentIds \ swallowed : experiments'[e].status = "completed" => results'[e]
      PROVE  LabInv'
  <2>1. /\ LogOk' /\ LogHasResult'
        /\ \A e \in ExperimentIds : disk.results[e] = TRUE => disk'.results[e] = TRUE
    BY <1>w, MovesKeepLog
  <2>2. StatusBehindResult'
    BY <1>w, <2>1, MovesKeepRequests
  <2>3. CompletedHasResult'
    BY <1>w DEF CompletedHasResult, Moves
  <2> QED BY <1>w, <2>1, <2>2, <2>3 DEF LabInv, LabTypeOK
<1>1. ASSUME NEW t \in Requests, NEW v \in VersionKeys, NEW type \in LabTypes,
             CreateRequest(t, v, type)
      PROVE  LabInv'
  <2> DEFINE step == IF v \in versions THEN "experiment" ELSE "version"
             mine == [NoRequest EXCEPT !.step = step, !.version = v, !.type = type]
  <2>1. /\ req' = [req EXCEPT ![t] = mine]
        /\ UNCHANGED <<experiments, results, provenance, versions, logVars, persisted>>
    BY <1>1 DEF CreateRequest
  <2>2. mine \in LabRequest /\ mine.step \in {"experiment", "version"} /\ mine.version = v
    BY DEF NoRequest, LabRequest, LabSteps
  <2> HIDE DEF mine
  <2>3. StoresOk' /\ RequestsOk' /\ \A u \in Requests : u # t => req'[u] = req[u]
    BY <1>t, <1>r, <2>1, <2>2 DEF StoresOk, RequestsOk
  <2>4. CompletedHasResult' /\ req'[t].step # "status"
    BY <1>t, <1>i, <2>1, <2>2 DEF CompletedHasResult, logVars
  <2> QED BY <1>q, <2>1, <2>3, <2>4
<1>2. ASSUME NEW t \in Requests, CreateVersion(t)
      PROVE  LabInv'
  <2> DEFINE step == IF req[t].version \in versions THEN "idle" ELSE "append version"
  <2>1. /\ req[t].step = "version" /\ versions' = versions \cup {req[t].version}
        /\ GoTo(t, step)
        /\ UNCHANGED <<experiments, results, provenance, logVars, persisted>>
    BY <1>2 DEF CreateVersion
  <2>2. step \in {"idle", "append version"} /\ req[t].version \in VersionKeys
    BY <1>r, <2>1
  <2> HIDE DEF step
  <2>3. /\ RequestsOk'
        /\ \A u \in Requests : u # t => req'[u] = req[u]
        /\ req'[t].step = step
    BY <1>i, <2>1, <2>2, GoToType DEF LabSteps
  <2>4. StoresOk' /\ CompletedHasResult'
    BY <1>t, <1>i, <2>1, <2>2 DEF StoresOk, CompletedHasResult, logVars
  <2> QED BY <1>q, <2>1, <2>2, <2>3, <2>4
<1>3. ASSUME NEW t \in Requests, PersistVersion(t)
      PROVE  LabInv'
  <2> DEFINE after == [disk EXCEPT !.versions = disk.versions \cup {req[t].version}]
  <2>1. /\ req[t].step = "append version" /\ AppendRecord(after) /\ GoTo(t, "experiment")
        /\ UNCHANGED <<experiments, results, provenance, versions>>
    BY <1>3 DEF PersistVersion, AppendRecord, EndLine, CutLine, Lost
  <2>2. /\ after \in LabLog /\ after.experiments = disk.experiments
        /\ after.results = disk.results
    BY <1>t, <1>r, <2>1 DEF LabLog
  <2> HIDE DEF after
  <2>3. Moves(after)
    BY <1>i, <2>1, <2>2, AppendMoves
  <2>4. /\ RequestsOk'
        /\ \A u \in Requests : u # t => req'[u] = req[u]
        /\ req'[t].step = "experiment"
    BY <1>i, <1>r, <2>1, GoToType DEF LabSteps
  <2>5. StoresOk'
    BY <1>i, <2>1 DEF StoresOk
  <2> QED BY <1>w, <1>i, <2>1, <2>2, <2>3, <2>4, <2>5 DEF CompletedHasResult, LogHasResult
<1>4. ASSUME NEW t \in Requests, NEW e \in ExperimentIds, CreateExperiment(t, e)
      PROVE  LabInv'
  <2> DEFINE created == [status |-> "pending", type |-> req[t].type, version |-> req[t].version]
             after == [disk EXCEPT !.experiments = [disk.experiments EXCEPT ![e] = created]]
  <2>1. /\ req[t].step = "experiment" /\ experiments' = [experiments EXCEPT ![e] = created]
        /\ AppendRecord(after) /\ GoTo(t, "idle")
        /\ UNCHANGED <<results, provenance, versions>>
    BY <1>4 DEF CreateExperiment, AppendRecord, EndLine, CutLine, Lost
  <2>2. created \in Experiment /\ created.status = "pending"
    <3>1. req[t] \in LabRequest
      BY <1>t
    <3> QED BY <3>1 DEF LabRequest, Experiment
  <2> HIDE DEF created
  <2>3. /\ after \in LabLog /\ after.experiments = [disk.experiments EXCEPT ![e] = created]
        /\ after.results = disk.results
    BY <1>t, <2>2 DEF LabLog
  <2> HIDE DEF after
  <2>4. Moves(after)
    BY <1>i, <2>1, <2>3, AppendMoves
  <2>5. /\ RequestsOk'
        /\ \A u \in Requests : u # t => req'[u] = req[u]
        /\ req'[t].step = "idle"
    BY <1>i, <2>1, GoToType DEF LabSteps
  <2>6. StoresOk'
    BY <1>t, <2>1, <2>2 DEF StoresOk
  <2>7. disk.experiments \in [ExperimentIds -> Experiment]
    BY <1>t DEF LabLog
  <2>8. \A d \in ExperimentIds \ swallowed :
          after.experiments[d].status = "completed" => after.results[d] = TRUE
    BY <1>i, <2>2, <2>3, <2>7 DEF LogHasResult
  <2>9. \A d \in ExperimentIds \ swallowed : experiments'[d].status = "completed" => results'[d]
    BY <1>t, <1>i, <2>1, <2>2 DEF CompletedHasResult
  <2> QED BY <1>w, <2>3, <2>4, <2>5, <2>6, <2>8, <2>9
<1>5. ASSUME NEW t \in Requests, NEW e \in ExperimentIds, NEW realistic \in BOOLEAN,
             BacktestRequest(t, e, realistic)
      PROVE  LabInv'
  <2> DEFINE step == IF realistic THEN "provenance" ELSE "simulate"
             mine == [NoRequest EXCEPT !.id = e, !.step = step]
  <2>1. /\ req' = [req EXCEPT ![t] = mine]
        /\ UNCHANGED <<experiments, results, provenance, versions, logVars, persisted>>
    BY <1>5 DEF BacktestRequest
  <2>2. mine \in LabRequest /\ mine.step \in {"provenance", "simulate"} /\ mine.id = e
    BY DEF NoRequest, LabRequest, LabSteps
  <2> HIDE DEF mine
  <2>3. StoresOk' /\ RequestsOk' /\ \A u \in Requests : u # t => req'[u] = req[u]
    BY <1>t, <1>r, <2>1, <2>2 DEF StoresOk, RequestsOk
  <2>4. CompletedHasResult' /\ req'[t].step # "status"
    BY <1>t, <1>i, <2>1, <2>2 DEF CompletedHasResult, logVars
  <2> QED BY <1>q, <2>1, <2>3, <2>4
<1>6. ASSUME NEW t \in Requests, RunBacktest(t)
      PROVE  LabInv'
  <2> DEFINE e == req[t].id
  <2>1. /\ req[t].step = "simulate" /\ GoTo(t, "result")
        /\ results' = [results EXCEPT ![e] = TRUE]
        /\ experiments' = [experiments EXCEPT ![e] = [experiments[e] EXCEPT !.status = "completed"]]
        /\ UNCHANGED <<provenance, versions, logVars, persisted>>
    BY <1>6 DEF RunBacktest
  <2>2. e \in ExperimentIds
    BY <1>r, <2>1
  <2>3. /\ RequestsOk'
        /\ \A u \in Requests : u # t => req'[u] = req[u]
        /\ req'[t].step = "result"
    BY <1>i, <2>1, <2>2, GoToType DEF LabSteps
  <2> HIDE DEF e
  <2>4. [experiments[e] EXCEPT !.status = "completed"] \in Experiment
    BY <1>t, <2>2 DEF Experiment
  <2>5. StoresOk'
    BY <1>t, <2>1, <2>2, <2>4 DEF StoresOk
  <2>6. CompletedHasResult'
    <3> SUFFICES ASSUME NEW d \in ExperimentIds \ swallowed, experiments'[d].status = "completed"
                 PROVE  results'[d]
      BY <2>1 DEF CompletedHasResult, logVars
    <3>1. CASE d = e
      BY <1>t, <2>1, <2>2, <3>1
    <3>2. CASE d # e
      <4>1. experiments'[d] = experiments[d] /\ results'[d] = results[d]
        BY <1>t, <2>1, <2>2, <3>2
      <4> QED BY <1>i, <4>1 DEF CompletedHasResult
    <3> QED BY <3>1, <3>2
  <2> QED BY <1>q, <2>1, <2>3, <2>5, <2>6
<1>7. ASSUME NEW t \in Requests, RunFails(t)
      PROVE  LabInv'
  <2>1. /\ GoTo(t, "idle")
        /\ UNCHANGED <<experiments, results, provenance, versions, logVars, persisted>>
    BY <1>7 DEF RunFails
  <2>2. /\ RequestsOk'
        /\ \A u \in Requests : u # t => req'[u] = req[u]
        /\ req'[t].step = "idle"
    BY <1>i, <2>1, GoToType DEF LabSteps
  <2>3. StoresOk' /\ CompletedHasResult'
    BY <1>i, <2>1 DEF StoresOk, CompletedHasResult, logVars
  <2> QED BY <1>q, <2>1, <2>2, <2>3
\* A result's record, written at once or in two blocks.
<1>8. ASSUME NEW t \in Requests, NEW after, after = [disk EXCEPT !.results[req[t].id] = TRUE],
             req[t].step \in {"result", "rest"}, after \in LabLog => Moves(after), GoTo(t, "status"),
             UNCHANGED <<experiments, results, provenance, versions>>
      PROVE  LabInv'
  <2>1. PICK e \in ExperimentIds : e = req[t].id
    BY <1>r, <1>8
  <2>2. /\ RequestsOk'
        /\ \A u \in Requests : u # t => req'[u] = req[u]
        /\ req'[t].id = e
    BY <1>i, <1>8, <2>1, GoToType DEF LabSteps
  <2>3. disk.results \in [ExperimentIds -> BOOLEAN]
    BY <1>t DEF LabLog
  <2>4. after = [disk EXCEPT !.results = [disk.results EXCEPT ![e] = TRUE]]
    BY <1>t, <1>8, <2>1 DEF LabLog
  <2>5. /\ after \in LabLog /\ after.experiments = disk.experiments
        /\ after.results = [disk.results EXCEPT ![e] = TRUE]
    BY <1>t, <2>3, <2>4 DEF LabLog
  <2>6. /\ \A d \in ExperimentIds \ swallowed :
             after.experiments[d].status = "completed" => after.results[d] = TRUE
        /\ \A d \in ExperimentIds : disk.results[d] = TRUE => after.results[d] = TRUE
        /\ after.results[e] = TRUE
    BY <1>i, <2>3, <2>5 DEF LogHasResult
  <2>7. StoresOk' /\ \A d \in ExperimentIds \ swallowed : experiments'[d].status = "completed" => results'[d]
    BY <1>i, <1>8 DEF StoresOk, CompletedHasResult
  <2> QED BY <1>w, <1>8, <2>2, <2>5, <2>6, <2>7
<1>9. ASSUME NEW t \in Requests, PersistResult(t)
      PROVE  LabInv'
  <2> DEFINE after == [disk EXCEPT !.results[req[t].id] = TRUE]
  <2>1. /\ req[t].step = "result" /\ AppendRecord(after) /\ GoTo(t, "status")
        /\ UNCHANGED <<experiments, results, provenance, versions>>
    BY <1>9 DEF PersistResult, AppendRecord, EndLine, CutLine, Lost
  <2>2. after \in LabLog => Moves(after)
    BY <1>i, <2>1, AppendMoves
  <2> QED BY <1>8, <2>1, <2>2
<1>10. ASSUME NEW t \in Requests, WriteBlock(t)
       PROVE  LabInv'
  <2>1. /\ req[t].step = "result" /\ GoTo(t, "rest")
        /\ line' = t /\ tail' = disk
        /\ UNCHANGED <<experiments, results, provenance, versions, disk, swallowed, persisted>>
    BY <1>10 DEF WriteBlock
  <2>2. req[t].id \in ExperimentIds
    BY <1>r, <2>1
  <2>3. /\ RequestsOk'
        /\ \A u \in Requests : u # t => req'[u] = req[u]
        /\ req'[t].step = "rest"
    BY <1>i, <2>1, <2>2, GoToType DEF LabSteps
  <2>4. LogOk' /\ StoresOk' /\ CompletedHasResult' /\ LogHasResult'
    BY <1>i, <2>1 DEF LogOk, StoresOk, CompletedHasResult, LogHasResult
  <2>5. StatusBehindResult'
    BY <1>i, <2>1, <2>3 DEF StatusBehindResult
  <2> QED BY <2>3, <2>4, <2>5 DEF LabInv, LabTypeOK
<1>11. ASSUME NEW t \in Requests, WriteRest(t)
       PROVE  LabInv'
  <2> DEFINE after == [disk EXCEPT !.results[req[t].id] = TRUE]
  <2>1. /\ req[t].step = "rest" /\ GoTo(t, "status")
        /\ \/ EndLine(line = t, after) /\ UNCHANGED persisted
           \/ CutLine(line = t, after) /\ persisted' = FALSE
        /\ UNCHANGED <<experiments, results, provenance, versions>>
    BY <1>11 DEF WriteRest
  <2>2. after \in LabLog => Moves(after)
    BY <1>i, <2>1, EndLineMoves, CutLineMoves
  <2> QED BY <1>8, <2>1, <2>2
<1>12. ASSUME NEW t \in Requests, PersistStatus(t)
       PROVE  LabInv'
  <2> DEFINE e == req[t].id
             after == [disk EXCEPT !.experiments = [disk.experiments EXCEPT ![e] = experiments[e]]]
  <2>1. /\ req[t].step = "status" /\ AppendRecord(after) /\ GoTo(t, "provenance")
        /\ UNCHANGED <<experiments, results, provenance, versions>>
    BY <1>12 DEF PersistStatus, AppendRecord, EndLine, CutLine, Lost
  <2>2. e \in ExperimentIds
    BY <1>r, <2>1
  <2>3. /\ RequestsOk'
        /\ \A u \in Requests : u # t => req'[u] = req[u]
        /\ req'[t].step = "provenance"
    BY <1>i, <2>1, <2>2, GoToType DEF LabSteps
  <2>4. persisted = TRUE /\ e \notin swallowed => disk.results[e] = TRUE
    BY <1>i, <2>1 DEF StatusBehindResult
  <2> HIDE DEF e
  <2>5. /\ after \in LabLog /\ after.results = disk.results
        /\ after.experiments = [disk.experiments EXCEPT ![e] = experiments[e]]
    BY <1>t, <2>2 DEF LabLog
  <2>6. disk.experiments \in [ExperimentIds -> Experiment]
    BY <1>t DEF LabLog
  <2> HIDE DEF after
  <2>7. Moves(after) /\ (persisted # TRUE => UNCHANGED logVars)
    BY <1>i, <2>1, <2>5, AppendMoves
  <2>8. StoresOk'
    BY <1>i, <2>1 DEF StoresOk
  <2>9. CASE persisted = TRUE
    <3>1. \A d \in ExperimentIds \ swallowed :
            after.experiments[d].status = "completed" => after.results[d] = TRUE
      BY <1>i, <2>2, <2>4, <2>5, <2>6, <2>9 DEF LogHasResult
    <3>2. \A d \in ExperimentIds \ swallowed : experiments'[d].status = "completed" => results'[d]
      BY <1>i, <2>1 DEF CompletedHasResult
    <3> QED BY <1>w, <2>3, <2>5, <2>7, <2>8, <3>1, <3>2
  <2>10. CASE persisted # TRUE
    <3>1. UNCHANGED logVars /\ persisted' # TRUE /\ persisted' \in BOOLEAN
      BY <2>7, <2>10 DEF Moves
    <3>2. LogOk' /\ LogHasResult' /\ CompletedHasResult' /\ StatusBehindResult'
      BY <1>i, <2>1, <3>1
      DEF LogOk, LogHasResult, CompletedHasResult, StatusBehindResult, logVars
    <3> QED BY <2>3, <2>8, <3>2 DEF LabInv, LabTypeOK
  <2> QED BY <2>9, <2>10
<1>13. ASSUME NEW t \in Requests, RecordProvenance(t)
       PROVE  LabInv'
  <2> DEFINE e == req[t].id
             after == [disk EXCEPT !.provenance = [disk.provenance EXCEPT ![e] = TRUE]]
  <2>1. /\ req[t].step = "provenance" /\ AppendRecord(after) /\ GoTo(t, "idle")
        /\ provenance' = [provenance EXCEPT ![e] = TRUE]
        /\ UNCHANGED <<experiments, results, versions>>
    BY <1>13 DEF RecordProvenance, AppendRecord, EndLine, CutLine, Lost
  <2>2. /\ RequestsOk'
        /\ \A u \in Requests : u # t => req'[u] = req[u]
        /\ req'[t].step = "idle"
    BY <1>i, <2>1, GoToType DEF LabSteps
  <2> HIDE DEF e
  <2>3. /\ after \in LabLog /\ after.experiments = disk.experiments
        /\ after.results = disk.results
    BY <1>t DEF LabLog
  <2> HIDE DEF after
  <2>4. Moves(after)
    BY <1>i, <2>1, <2>3, AppendMoves
  <2>5. StoresOk'
    BY <1>t, <2>1 DEF StoresOk
  <2> QED BY <1>w, <1>i, <2>1, <2>2, <2>3, <2>4, <2>5 DEF CompletedHasResult, LogHasResult
<1>14. CASE Restart
  <2>1. PICK read \in {TRUE, FALSE} :
          LET log == IF read THEN tail ELSE EmptyLog IN
          /\ experiments' = [e \in ExperimentIds |-> Hydrated(log.experiments[e])]
          /\ results' = log.results /\ provenance' = log.provenance
          /\ versions' = log.versions /\ persisted' = read
    BY <1>14 DEF Restart
  <2>2. /\ persisted' \in BOOLEAN
        /\ UNCHANGED <<disk, tail, swallowed>> /\ line' \in {"none", "cut"}
        /\ req' = [t \in Requests |-> NoRequest]
    BY <1>14, <2>1 DEF Restart
  <2>3. PICK log \in LabLog :
          /\ experiments' = [e \in ExperimentIds |-> Hydrated(log.experiments[e])]
          /\ results' = log.results /\ provenance' = log.provenance
          /\ versions' = log.versions
          /\ log = tail \/ log = EmptyLog
    BY <1>i, <2>1, EmptyLogType DEF LogOk
  <2>4. \A e \in ExperimentIds :
          /\ Hydrated(log.experiments[e]) \in Experiment
          /\ Hydrated(log.experiments[e]).status = log.experiments[e].status
    <3> TAKE e \in ExperimentIds
    <3>1. PICK record \in Experiment : record = log.experiments[e]
      BY DEF LabLog
    <3>2. Hydrated(record) \in Experiment /\ Hydrated(record).status = record.status
      BY DEF Hydrated, Experiment
    <3> QED BY <3>1, <3>2 DEF Hydrated
  <2>5. StoresOk' /\ LogOk'
    BY <1>i, <2>2, <2>3, <2>4 DEF StoresOk, LogOk, LabLog
  <2>6. \A t \in Requests : req'[t] = NoRequest
    BY <2>2
  <2>7. RequestsOk' /\ StatusBehindResult'
    BY <2>2, <2>6, NoRequestType DEF RequestsOk, StatusBehindResult
  <2>8. \A e \in ExperimentIds \ swallowed : log.experiments[e].status = "completed" => log.results[e] = TRUE
    BY <1>i, <2>3, EmptyLogType DEF LogHasResult
  <2>9. CompletedHasResult' /\ LogHasResult'
    BY <1>i, <2>2, <2>3, <2>4, <2>8 DEF CompletedHasResult, LogHasResult
  <2> QED BY <2>5, <2>7, <2>9 DEF LabInv, LabTypeOK
<1>15. CASE UNCHANGED labVars
  BY <1>t, <1>r, <1>i, <1>15
  DEF labVars, logVars, LabInv, LabTypeOK, LogOk, StoresOk, RequestsOk, CompletedHasResult,
      LogHasResult, StatusBehindResult
<1> QED
  BY <1>1, <1>2, <1>3, <1>4, <1>5, <1>6, <1>7, <1>9, <1>10, <1>11, <1>12, <1>13, <1>14, <1>15
  DEF ExperimentsNext

\* An experiment shown as completed has the result it is ranked by, for any number
\* of requests, whichever writes fail and wherever the service stops.
THEOREM CompletedHasResultHolds == ExperimentsSpec => []CompletedHasResult
<1>1. LabInv => CompletedHasResult
  BY DEF LabInv
<1> QED BY <1>1, LabInit, LabStep, PTL DEF ExperimentsSpec

-----------------------------------------------------------------------------
(* Closed trades are reviewed.  A review counted as a duplicate is not     *)
(* written, so the property needs every review the store holds in memory   *)
(* to be in the file, or its write to have failed.                         *)

Reviewed(trade) == trade \in spoilt \/ \E k \in reviewFile : k[1] = trade

ReviewInv ==
  /\ ledger = [t \in Trades |-> ledger[t]]
  /\ review # NoReview => review.trade \in Trades /\ review.key[1] = review.trade
  /\ \A k \in reviewIds : k \in reviewFile \/ k[1] \in spoilt
  /\ At("ledger") => Reviewed(review.trade)
  /\ ClosedIsReviewed

LEMMA ReviewStep ==
  ASSUME ReviewInv, [LearningNext]_learningVars
  PROVE  ReviewInv'
<1>t. /\ ledger = [t \in Trades |-> ledger[t]]
      /\ review # NoReview => review.trade \in Trades /\ review.key[1] = review.trade
      /\ \A k \in reviewIds : k \in reviewFile \/ k[1] \in spoilt
      /\ At("ledger") => Reviewed(review.trade)
      /\ \A t \in Trades : ledger[t] # NoClose => Reviewed(t)
  BY DEF ReviewInv, ClosedIsReviewed, Reviewed
<1>a. ASSUME UNCHANGED <<ledger, reviewIds, reviewFile, spoilt>>, stage' # "ledger",
             review' # NoReview => review'.trade \in Trades /\ review'.key[1] = review'.trade
      PROVE  ReviewInv'
  BY <1>t, <1>a DEF ReviewInv, ClosedIsReviewed, Reviewed, At
<1>1. CASE OnPositionClosed
  <2>1. PICK n \in CloseNotices : review' = ReviewRecord(n)
    BY <1>1 DEF OnPositionClosed
  <2>2. review'.trade \in Trades /\ review'.key[1] = review'.trade
    BY <2>1 DEF ReviewRecord, CloseNotices
  <2> QED BY <1>1, <1>a, <2>2 DEF OnPositionClosed
<1>2. CASE RecordLesson \/ Bridge \/ RecordAgents \/ RecordNews \/ RecordEngineLesson
  <2>1. UNCHANGED <<ledger, reviewIds, reviewFile, spoilt, review>> /\ stage' # "ledger"
    BY <1>2 DEF RecordLesson, Bridge, RecordAgents, RecordNews, RecordEngineLesson, Then
  <2> QED BY <1>t, <1>a, <2>1
<1>3. CASE PersistReview
  <2>1. review # NoReview /\ AddReview /\ UNCHANGED <<review, ledger>> /\ stage' = "ledger"
    BY <1>3 DEF PersistReview, At, Then
  <2>2. /\ review.trade \in Trades /\ review.key[1] = review.trade
    BY <1>t, <2>1
  <2>3. CASE review.key \in reviewIds
    <3>1. UNCHANGED <<reviewIds, reviewFile, spoilt>>
      BY <2>1, <2>3 DEF AddReview
    <3>2. Reviewed(review.trade)
      BY <1>t, <2>2, <2>3 DEF Reviewed
    <3> QED BY <1>t, <2>1, <2>2, <3>1, <3>2 DEF ReviewInv, ClosedIsReviewed, Reviewed, At
  <2>4. CASE review.key \notin reviewIds
    <3>1. PICK ok \in BOOLEAN :
            /\ reviewIds' = reviewIds \union {review.key}
            /\ reviewFile' = IF ok THEN reviewFile \union {review.key} ELSE reviewFile
            /\ spoilt' = IF ok THEN spoilt ELSE spoilt \union {review.trade}
      BY <2>1, <2>4 DEF AddReview
    <3>2. /\ reviewFile \subseteq reviewFile' /\ spoilt \subseteq spoilt'
          /\ review.key \in reviewFile' \/ review.trade \in spoilt'
      BY <3>1
    <3>3. \A k \in reviewIds' : k \in reviewFile' \/ k[1] \in spoilt'
      BY <1>t, <2>2, <3>1, <3>2
    <3>4. review'.trade \in spoilt' \/ \E k \in reviewFile' : k[1] = review'.trade
      BY <2>1, <2>2, <3>2
    <3>5. ClosedIsReviewed'
      BY <1>t, <2>1, <3>2 DEF ClosedIsReviewed, Reviewed
    <3> QED BY <1>t, <2>1, <2>2, <3>3, <3>4, <3>5 DEF ReviewInv, Reviewed
  <2> QED BY <2>3, <2>4
<1>4. CASE CompleteLedger
  <2>1. /\ At("ledger") /\ UpdateTrade /\ review' = NoReview /\ stage' = "idle"
        /\ UNCHANGED <<reviewIds, reviewFile, spoilt>>
    BY <1>4 DEF CompleteLedger
  <2>2. review.trade \in Trades /\ Reviewed(review.trade)
    BY <1>t, <2>1 DEF At
  <2>3. PICK close : ledger' = ledger \/ ledger' = [ledger EXCEPT ![review.trade] = close]
    BY <2>1 DEF UpdateTrade
  <2>4. /\ ledger' = [t \in Trades |-> ledger'[t]]
        /\ \A t \in Trades : t # review.trade => ledger'[t] = ledger[t]
    BY <1>t, <2>2, <2>3
  <2>5. ClosedIsReviewed'
    BY <1>t, <2>1, <2>2, <2>4 DEF ClosedIsReviewed, Reviewed
  <2> QED BY <1>t, <2>1, <2>4, <2>5 DEF ReviewInv, At
<1>5. CASE Reboot
  <2>1. /\ review' = NoReview /\ UNCHANGED <<reviewFile, ledger, spoilt>>
        /\ reviewIds' = reviewFile \/ reviewIds' = {}
    BY <1>5 DEF Reboot, ReviewsLoaded
  <2> QED BY <1>t, <2>1 DEF ReviewInv, ClosedIsReviewed, Reviewed, At
<1>6. CASE UNCHANGED learningVars
  BY <1>t, <1>6 DEF learningVars, ReviewInv, ClosedIsReviewed, Reviewed, At
<1> QED BY <1>1, <1>2, <1>3, <1>4, <1>5, <1>6 DEF LearningNext

\* A trade the ledger shows closed has its review on disk unless writing that review
\* failed, for any number of notices, crashes and failing files.
THEOREM ClosedIsReviewedHolds == LearningSpec => []ClosedIsReviewed
<1>1. LearningInit => ReviewInv
  BY DEF LearningInit, ReviewInv, ClosedIsReviewed, At
<1>2. ReviewInv => ClosedIsReviewed
  BY DEF ReviewInv
<1> QED BY <1>1, <1>2, ReviewStep, PTL DEF LearningSpec

-----------------------------------------------------------------------------
(* The running configuration.  An active version cannot be edited, so the  *)
(* property needs whatever is in force to be active, and the first active  *)
(* version to stay the first when drafts are appended.                     *)

LEMMA LeastExists ==
  ASSUME NEW S \in SUBSET Nat, S # {}
  PROVE  Min(S) \in S
  BY LeastElement DEF Min

StrategyRecords ==
  [status : PromotableToActive \cup {"absent", "ACTIVE", "RETIRED"}, parameters : Grids,
   metrics : MetricReadings \cup {"none"}, passed : BOOLEAN]

InForceIsActive ==
  \A n \in Names :
    activeByName[n] # "none" =>
      \E k \in StrategyKeys : k.name = n /\ k.version = activeByName[n] /\ IsActive(k)

RegistryInv ==
  /\ registered \in Seq(StrategyKeys)
  /\ strategies \in [StrategyKeys -> StrategyRecords]
  /\ activeByName = [n \in Names |-> activeByName[n]]
  /\ InForceIsActive

LEMMA KeyShape ==
  \A k \in StrategyKeys :
    /\ k = [name |-> k.name, version |-> k.version]
    /\ k.name \in Names /\ k.version # "none"
<1> TAKE k \in StrategyKeys
<1>1. k \in [name : STRING, version : STRING \ {"none"}]
  BY StrategiesAssumption
<1>2. k.name \in Names
  BY DEF Names
<1> QED BY <1>1, <1>2

LEMMA KeyOfNameAndVersion ==
  ASSUME NEW j \in StrategyKeys, NEW k \in StrategyKeys, j.name = k.name, j.version = k.version
  PROVE  j = k
<1>1. j = [name |-> j.name, version |-> j.version] /\ k = [name |-> k.name, version |-> k.version]
  BY KeyShape
<1> QED BY <1>1

LEMMA DraftType ==
  ASSUME NEW p \in Grids
  PROVE  /\ Draft(p) \in StrategyRecords /\ Draft(p).status = "DRAFT"
         /\ [Draft(p) EXCEPT !.status = "ACTIVE"] \in StrategyRecords
         /\ [Draft(p) EXCEPT !.status = "ACTIVE"].status = "ACTIVE"
         /\ Unregistered \in StrategyRecords /\ Unregistered.status = "absent"
<1>1. Draft(p) \in StrategyRecords
  BY Zenon DEF Draft, StrategyRecords, PromotableToActive
<1>2. Draft(p).status = "DRAFT"
  BY Zenon DEF Draft
<1>3. DefaultGrid \in Grids
  BY StrategiesAssumption
<1>4. Unregistered \in StrategyRecords
  BY <1>3, Zenon DEF Unregistered, StrategyRecords
<1>5. Unregistered.status = "absent"
  BY Zenon DEF Unregistered
<1>6. \A r \in StrategyRecords :
        [r EXCEPT !.status = "ACTIVE"] \in StrategyRecords /\ [r EXCEPT !.status = "ACTIVE"].status = "ACTIVE"
  BY DEF StrategyRecords
<1> QED BY <1>1, <1>2, <1>4, <1>5, <1>6

\* The default version, registered and in force, is a legal registry.
LEMMA DefaultRegistry ==
  ASSUME registered = <<LiveKey>>,
         strategies = [k \in StrategyKeys |->
           IF k = LiveKey THEN [Draft(DefaultGrid) EXCEPT !.status = "ACTIVE"] ELSE Unregistered],
         activeByName = [n \in Names |-> IF n = LiveKey.name THEN LiveKey.version ELSE "none"]
  PROVE  RegistryInv
<1>1. LiveKey \in StrategyKeys /\ DefaultGrid \in Grids
  BY StrategiesAssumption
<1>2. strategies \in [StrategyKeys -> StrategyRecords] /\ strategies[LiveKey].status = "ACTIVE"
  BY <1>1, DraftType
<1>3. registered \in Seq(StrategyKeys)
  BY <1>1
<1>4. InForceIsActive
  BY <1>1, <1>2 DEF InForceIsActive, IsActive
<1> QED BY <1>2, <1>3, <1>4 DEF RegistryInv

\* What the steps that are not the operator's decisions leave alone: which versions
\* are active, their parameters, what is in force, and the places in the registry.
Untouched ==
  /\ activeByName' = activeByName
  /\ \A k \in StrategyKeys :
       /\ strategies'[k].status = "ACTIVE" <=> strategies[k].status = "ACTIVE"
       /\ IsActive(k) => strategies'[k].parameters = strategies[k].parameters
  /\ ActiveAt' = ActiveAt
  /\ \A i \in DOMAIN registered : registered'[i] = registered[i]

LEMMA SameRegistered ==
  ASSUME RegistryInv, registered' = registered,
         \A k \in StrategyKeys : strategies'[k].status = "ACTIVE" <=> strategies[k].status = "ACTIVE"
  PROVE  ActiveAt' = ActiveAt
<1>1. \A i \in DOMAIN registered : registered[i] \in StrategyKeys
  BY DEF RegistryInv
<1> QED BY <1>1 DEF ActiveAt, IsActive

LEMMA CreateUntouched ==
  ASSUME RegistryInv, NEW k \in StrategyKeys, NEW p \in Grids, CreateStrategy(k, p)
  PROVE  RegistryInv' /\ Untouched
<1>1. /\ ~Known(k) /\ registered' = Append(registered, k)
      /\ strategies' = [strategies EXCEPT ![k] = Draft(p)] /\ activeByName' = activeByName
  BY DEF CreateStrategy
<1>2. /\ registered \in Seq(StrategyKeys) /\ strategies \in [StrategyKeys -> StrategyRecords]
      /\ activeByName = [n \in Names |-> activeByName[n]] /\ InForceIsActive
  BY DEF RegistryInv
<1>3. Draft(p) \in StrategyRecords /\ Draft(p).status = "DRAFT"
  BY DraftType
<1>4. /\ strategies' \in [StrategyKeys -> StrategyRecords]
      /\ registered' \in Seq(StrategyKeys)
  BY <1>1, <1>2, <1>3
<1>5. strategies[k].status = "absent"
  BY <1>1 DEF Known
<1>6. \A j \in StrategyKeys :
        /\ strategies'[j].status = "ACTIVE" <=> strategies[j].status = "ACTIVE"
        /\ IsActive(j) => strategies'[j] = strategies[j]
  BY <1>1, <1>2, <1>3, <1>5 DEF IsActive
<1>7. /\ Len(registered') = Len(registered) + 1 /\ Len(registered) \in Nat
      /\ DOMAIN registered = 1..Len(registered) /\ DOMAIN registered' = 1..Len(registered')
      /\ \A i \in 1..Len(registered) : registered'[i] = registered[i] /\ registered[i] \in StrategyKeys
      /\ registered'[Len(registered) + 1] = k
  BY <1>1, <1>2
<1>8. ActiveAt' = ActiveAt
  <2>1. ActiveAt' = {i \in DOMAIN registered' : strategies'[registered'[i]].status = "ACTIVE"}
    BY DEF ActiveAt, IsActive
  <2>2. ActiveAt = {i \in DOMAIN registered : strategies[registered[i]].status = "ACTIVE"}
    BY DEF ActiveAt, IsActive
  <2>3. \A i \in 1..Len(registered) :
          strategies'[registered'[i]].status = "ACTIVE" <=> strategies[registered[i]].status = "ACTIVE"
    BY <1>6, <1>7
  <2>4. strategies'[registered'[Len(registered) + 1]].status # "ACTIVE"
    BY <1>1, <1>2, <1>3, <1>7
  <2>5. \A i : i \in 1..Len(registered') <=> i \in 1..Len(registered) \/ i = Len(registered) + 1
    BY <1>7
  <2> QED BY <1>7, <2>1, <2>2, <2>3, <2>4, <2>5
<1>9. InForceIsActive'
  BY <1>1, <1>2, <1>6 DEF InForceIsActive, IsActive
<1> QED BY <1>1, <1>2, <1>4, <1>6, <1>7, <1>8, <1>9 DEF RegistryInv, Untouched

LEMMA EditUntouched ==
  ASSUME RegistryInv, NEW k \in StrategyKeys, NEW p \in Grids, EditStrategy(k, p)
  PROVE  RegistryInv' /\ Untouched
<1>1. /\ ~IsActive(k) /\ UNCHANGED <<registered, activeByName>>
      /\ strategies' = [strategies EXCEPT ![k] = [strategies[k] EXCEPT !.parameters = p]]
  BY DEF EditStrategy
<1>2. /\ registered \in Seq(StrategyKeys) /\ strategies \in [StrategyKeys -> StrategyRecords]
      /\ activeByName = [n \in Names |-> activeByName[n]] /\ InForceIsActive
  BY DEF RegistryInv
<1>3. /\ [strategies[k] EXCEPT !.parameters = p] \in StrategyRecords
      /\ [strategies[k] EXCEPT !.parameters = p].status = strategies[k].status
  <2>1. strategies[k] \in StrategyRecords
    BY <1>2
  <2> QED BY <2>1 DEF StrategyRecords
<1>4. strategies' \in [StrategyKeys -> StrategyRecords]
  BY <1>1, <1>2, <1>3
<1>5. \A j \in StrategyKeys :
        /\ strategies'[j].status = "ACTIVE" <=> strategies[j].status = "ACTIVE"
        /\ IsActive(j) => strategies'[j] = strategies[j]
  BY <1>1, <1>2, <1>3 DEF IsActive
<1>6. ActiveAt' = ActiveAt
  BY <1>1, <1>5, SameRegistered
<1>7. InForceIsActive'
  BY <1>1, <1>2, <1>5 DEF InForceIsActive, IsActive
<1> QED BY <1>1, <1>2, <1>4, <1>5, <1>6, <1>7 DEF RegistryInv, Untouched

LEMMA RefreshUntouched ==
  ASSUME RegistryInv, NEW metrics \in MetricReadings, RefreshPerformance(metrics)
  PROVE  RegistryInv' /\ Untouched
<1>2. /\ registered \in Seq(StrategyKeys) /\ strategies \in [StrategyKeys -> StrategyRecords]
      /\ activeByName = [n \in Names |-> activeByName[n]] /\ InForceIsActive
  BY DEF RegistryInv
<1>1. PICK k \in StrategyKeys :
        strategies' = [strategies EXCEPT ![k] = [strategies[k] EXCEPT !.metrics = metrics]]
  <2>1. CASE Known(LiveKey)
    <3>1. strategies' = [strategies EXCEPT ![LiveKey] = [strategies[LiveKey] EXCEPT !.metrics = metrics]]
      BY <2>1 DEF RefreshPerformance
    <3> QED BY <3>1, StrategiesAssumption
  <2>2. CASE ~Known(LiveKey)
    <3>1. ActiveAt # {}
      BY <2>2 DEF RefreshPerformance
    <3>2. ActiveAt \in SUBSET Nat
      BY <1>2 DEF ActiveAt
    <3>3. Min(ActiveAt) \in DOMAIN registered
      BY <3>1, <3>2, LeastExists DEF ActiveAt
    <3>4. FirstActive \in StrategyKeys
      BY <1>2, <3>3 DEF FirstActive
    <3>5. strategies' = [strategies EXCEPT ![FirstActive] = [strategies[FirstActive] EXCEPT !.metrics = metrics]]
      BY <2>2 DEF RefreshPerformance
    <3> QED BY <3>4, <3>5
  <2> QED BY <2>1, <2>2
<1>3. UNCHANGED <<registered, activeByName>>
  BY DEF RefreshPerformance
<1>4. /\ [strategies[k] EXCEPT !.metrics = metrics] \in StrategyRecords
      /\ [strategies[k] EXCEPT !.metrics = metrics].status = strategies[k].status
      /\ [strategies[k] EXCEPT !.metrics = metrics].parameters = strategies[k].parameters
  <2>1. strategies[k] \in StrategyRecords
    BY <1>2
  <2> QED BY <2>1 DEF StrategyRecords
<1>5. strategies' \in [StrategyKeys -> StrategyRecords]
  BY <1>1, <1>2, <1>4
<1>6. \A j \in StrategyKeys :
        /\ strategies'[j].status = "ACTIVE" <=> strategies[j].status = "ACTIVE"
        /\ IsActive(j) => strategies'[j].parameters = strategies[j].parameters
  BY <1>1, <1>2, <1>4 DEF IsActive
<1>7. ActiveAt' = ActiveAt
  BY <1>3, <1>6, SameRegistered
<1>8. InForceIsActive'
  BY <1>2, <1>3, <1>6 DEF InForceIsActive, IsActive
<1> QED BY <1>2, <1>3, <1>5, <1>6, <1>7, <1>8 DEF RegistryInv, Untouched

\* Untouched, the engine runs what it ran.
LEMMA UntouchedRuns ==
  ASSUME RegistryInv, Untouched
  PROVE  RunningConfig' = RunningConfig
<1>1. activeByName' = activeByName /\ ActiveAt' = ActiveAt
  BY DEF Untouched
<1>2. InForce' = InForce
  BY <1>1 DEF InForce
<1>3. CASE InForce.version # "none"
  <2>1. LiveKey.name \in Names
    BY KeyShape, StrategiesAssumption
  <2>2. /\ InForce = [name |-> LiveKey.name, version |-> activeByName[LiveKey.name]]
        /\ activeByName[LiveKey.name] # "none"
    BY <1>3 DEF InForce
  <2>3. PICK k \in StrategyKeys :
          k.name = LiveKey.name /\ k.version = activeByName[LiveKey.name] /\ IsActive(k)
    BY <2>1, <2>2 DEF RegistryInv, InForceIsActive
  <2>4. InForce = k
    BY <2>2, <2>3, KeyShape
  <2>5. strategies'[k].parameters = strategies[k].parameters
    BY <2>3 DEF Untouched
  <2> QED BY <1>2, <1>3, <2>4, <2>5 DEF RunningConfig
<1>4. CASE InForce.version = "none" /\ ActiveAt # {}
  <2>1. ActiveAt \in SUBSET Nat
    BY DEF ActiveAt, RegistryInv
  <2> DEFINE first == Min(ActiveAt)
  <2>2. first \in ActiveAt
    BY <1>4, <2>1, LeastExists
  <2>3. first' = first
    BY <1>1 DEF Min
  <2>4. /\ first \in DOMAIN registered /\ IsActive(registered[first])
        /\ registered[first] \in StrategyKeys
    BY <2>2 DEF ActiveAt, RegistryInv
  <2> HIDE DEF first
  <2>5. FirstActive = registered[first] /\ FirstActive' = registered'[first]
    BY <2>3 DEF FirstActive, first
  <2>6. FirstActive' = FirstActive /\ strategies'[FirstActive].parameters = strategies[FirstActive].parameters
    BY <2>4, <2>5 DEF Untouched
  <2>7. /\ RunningConfig = strategies[FirstActive].parameters
        /\ RunningConfig' = strategies'[FirstActive'].parameters
    BY <1>1, <1>2, <1>4 DEF RunningConfig
  <2> QED BY <2>6, <2>7
<1>5. CASE InForce.version = "none" /\ ActiveAt = {}
  BY <1>1, <1>2, <1>5 DEF RunningConfig
<1> QED BY <1>3, <1>4, <1>5

\* Putting a version in force retires the one of that name, and no other.
LEMMA GovernanceKeeps ==
  ASSUME RegistryInv, GovernanceStep
  PROVE  RegistryInv'
<1>2. /\ registered \in Seq(StrategyKeys) /\ strategies \in [StrategyKeys -> StrategyRecords]
      /\ activeByName = [n \in Names |-> activeByName[n]] /\ InForceIsActive
  BY DEF RegistryInv
<1>3. ASSUME NEW k \in StrategyKeys, NEW metrics \in MetricReadings \cup {"unsaid"},
             NEW tested \in {"unsaid", "yes", "no"}, SetActive(k, metrics, tested)
      PROVE  RegistryInv'
  <2> DEFINE m == IF metrics = "unsaid" THEN strategies[k].metrics ELSE metrics
             q == IF tested = "unsaid" THEN strategies[k].passed ELSE tested = "yes"
             evident == [strategies[k] EXCEPT !.metrics = m, !.passed = q]
             s == [strategies EXCEPT ![k] = evident]
  <2>1. strategies[k] \in StrategyRecords
    BY <1>2
  <2>2. m \in MetricReadings \cup {"none"} /\ q \in BOOLEAN
    <3>1. strategies[k].metrics \in MetricReadings \cup {"none"} /\ strategies[k].passed \in BOOLEAN
      BY <2>1 DEF StrategyRecords
    <3>2. m \in MetricReadings \cup {"none"}
      BY <3>1
    <3>3. q \in BOOLEAN
      BY <3>1, Zenon
    <3> QED BY <3>2, <3>3
  <2>3. /\ registered' = registered
        /\ \/ strategies' = Activated(s, k) /\ activeByName' = [activeByName EXCEPT ![k.name] = k.version]
           \/ strategies' = s /\ activeByName' = activeByName
    <3>1. registered' = registered
      BY <1>3 DEF SetActive
    <3>2. s = [strategies EXCEPT
              ![k].metrics = IF metrics = "unsaid" THEN @ ELSE metrics,
              ![k].passed = IF tested = "unsaid" THEN @ ELSE tested = "yes"]
      BY <1>2, <2>1
    <3>3. \/ strategies' = Activated(s, k) /\ activeByName' = [activeByName EXCEPT ![k.name] = k.version]
          \/ strategies' = s /\ activeByName' = activeByName
      <4> HIDE DEF s
      <4> QED BY <1>3, <3>2, Zenon DEF SetActive
    <3> QED BY <3>1, <3>3
  <2> HIDE DEF m, q
  <2>4. evident \in StrategyRecords /\ evident.status = strategies[k].status
    BY <2>1, <2>2 DEF StrategyRecords
  <2> HIDE DEF evident
  <2>5. /\ s \in [StrategyKeys -> StrategyRecords]
        /\ \A j \in StrategyKeys : s[j].status = strategies[j].status
    BY <1>2, <2>4
  <2> HIDE DEF s
  <2>6. CASE strategies' = s /\ activeByName' = activeByName
    <3>1. InForceIsActive'
      BY <1>2, <2>5, <2>6 DEF InForceIsActive, IsActive
    <3> QED BY <1>2, <2>3, <2>5, <2>6, <3>1 DEF RegistryInv
  <2>7. CASE strategies' = Activated(s, k) /\ activeByName' = [activeByName EXCEPT ![k.name] = k.version]
    <3>1. \A r \in StrategyRecords, status \in {"ACTIVE", "RETIRED"} :
            [r EXCEPT !.status = status] \in StrategyRecords /\ [r EXCEPT !.status = status].status = status
      BY DEF StrategyRecords
    <3>2. strategies' = [j \in StrategyKeys |->
             IF j = k THEN [s[j] EXCEPT !.status = "ACTIVE"]
             ELSE IF j.name = k.name /\ j.version = activeByName[k.name]
             THEN [s[j] EXCEPT !.status = "RETIRED"]
             ELSE s[j]]
      BY <2>7 DEF Activated
    <3>3. strategies' \in [StrategyKeys -> StrategyRecords]
      BY <2>5, <3>1, <3>2
    <3>4. strategies'[k].status = "ACTIVE"
      BY <2>5, <3>1, <3>2
    <3>5. \A j \in StrategyKeys : j.name # k.name => strategies'[j].status = strategies[j].status
      BY <2>5, <3>2
    <3>6. InForceIsActive'
      <4> SUFFICES ASSUME NEW n \in Names, activeByName'[n] # "none"
                   PROVE  \E j \in StrategyKeys : j.name = n /\ j.version = activeByName'[n]
                                                   /\ strategies'[j].status = "ACTIVE"
        BY DEF InForceIsActive, IsActive
      <4>1. CASE n = k.name
        BY <1>2, <2>7, <3>4, <4>1
      <4>2. CASE n # k.name
        <5>1. activeByName'[n] = activeByName[n]
          BY <1>2, <2>7, <4>2
        <5>2. PICK j \in StrategyKeys : j.name = n /\ j.version = activeByName[n] /\ strategies[j].status = "ACTIVE"
          BY <1>2, <5>1 DEF InForceIsActive, IsActive
        <5> QED BY <3>5, <4>2, <5>1, <5>2
      <4> QED BY <4>1, <4>2
    <3>7. activeByName' = [n \in Names |-> activeByName'[n]]
      BY <1>2, <2>7
    <3> QED BY <1>2, <2>3, <3>3, <3>6, <3>7 DEF RegistryInv
  <2> QED BY <2>3, <2>6, <2>7
<1>4. ASSUME NEW k \in StrategyKeys, Retire(k)
      PROVE  RegistryInv'
  <2>1. /\ registered' = registered
        /\ strategies' = [strategies EXCEPT ![k] = [strategies[k] EXCEPT !.status = "RETIRED"]]
        /\ activeByName' = [activeByName EXCEPT ![k.name] =
                              IF activeByName[k.name] = k.version THEN "none" ELSE activeByName[k.name]]
    BY <1>4 DEF Retire
  <2>2. [strategies[k] EXCEPT !.status = "RETIRED"] \in StrategyRecords
    <3>1. strategies[k] \in StrategyRecords
      BY <1>2
    <3> QED BY <3>1 DEF StrategyRecords
  <2>3. /\ strategies' \in [StrategyKeys -> StrategyRecords]
        /\ \A j \in StrategyKeys : j # k => strategies'[j] = strategies[j]
    BY <1>2, <2>1, <2>2
  <2>4. activeByName' = [n \in Names |-> activeByName'[n]]
    BY <1>2, <2>1
  <2>5. InForceIsActive'
    <3> SUFFICES ASSUME NEW n \in Names, activeByName'[n] # "none"
                 PROVE  \E j \in StrategyKeys : j.name = n /\ j.version = activeByName'[n]
                                                 /\ strategies'[j].status = "ACTIVE"
      BY DEF InForceIsActive, IsActive
    <3>1. activeByName'[n] = activeByName[n] /\ (n = k.name => activeByName[n] # k.version)
      BY <1>2, <2>1
    <3>2. PICK j \in StrategyKeys : j.name = n /\ j.version = activeByName[n] /\ strategies[j].status = "ACTIVE"
      BY <1>2, <3>1 DEF InForceIsActive, IsActive
    <3>3. j # k
      BY <3>1, <3>2
    <3> QED BY <2>3, <3>1, <3>2, <3>3
  <2> QED BY <1>2, <2>1, <2>3, <2>4, <2>5 DEF RegistryInv
<1>5. CASE RestartRegistry
  <2>1. LiveKey \in StrategyKeys /\ DefaultGrid \in Grids
    BY StrategiesAssumption
  <2>2. strategies' \in [StrategyKeys -> StrategyRecords] /\ strategies'[LiveKey].status = "ACTIVE"
    BY <1>5, <2>1, DraftType DEF RestartRegistry
  <2>3. registered' \in Seq(StrategyKeys)
    BY <1>5, <2>1 DEF RestartRegistry
  <2>4. activeByName' = [n \in Names |-> IF n = LiveKey.name THEN LiveKey.version ELSE "none"]
    BY <1>5 DEF RestartRegistry
  <2>5. InForceIsActive'
    BY <2>1, <2>2, <2>4 DEF InForceIsActive, IsActive
  <2> QED BY <2>2, <2>3, <2>4, <2>5 DEF RegistryInv
<1> QED BY <1>3, <1>4, <1>5 DEF GovernanceStep

\* Creating and editing versions or refreshing metrics never changes what the engine
\* runs, for any versions of any names (edit_strategy, get_active_strategy_config).
THEOREM RunningConfigStableHolds == StrategiesSpec => RunningConfigStable
<1>1. StrategiesInit => RegistryInv
  BY DefaultRegistry DEF StrategiesInit
<1>2. RegistryInv /\ StrategiesNext => GovernanceStep \/ (RegistryInv' /\ Untouched)
  BY CreateUntouched, EditUntouched, RefreshUntouched DEF StrategiesNext
<1>3. RegistryInv /\ [StrategiesNext]_strategyVars => RegistryInv'
  <2>1. RegistryInv /\ UNCHANGED strategyVars => RegistryInv'
    BY DEF RegistryInv, strategyVars, InForceIsActive, IsActive
  <2> QED BY <1>2, <2>1, GovernanceKeeps
<1>4. RegistryInv /\ [StrategiesNext]_strategyVars
        => [RunningConfig' # RunningConfig => GovernanceStep]_strategyVars
  BY <1>2, UntouchedRuns
<1> QED BY <1>1, <1>3, <1>4, PTL DEF StrategiesSpec, RunningConfigStable

-----------------------------------------------------------------------------
(* Backtests.  Every bar looks at the stop first, so a position that is    *)
(* still held has not been stopped by the bar it is settled at.            *)

Held == [dir : {-1, 0, 1}, entry : Int, distance : Nat]
Waiting == [dir : {-1, 0, 1}, wait : Nat]

\* A trade as the ledger keeps it, within its stop.
KeptTrade(t) ==
  /\ t.pnl \in Int /\ t.distance \in Nat
  /\ t.distance > 0 => t.pnl >= -t.distance

\* Closing at a price no worse than the stop loses no more than the distance.
LEMMA TradeWithinStop ==
  ASSUME NEW p \in Held, NEW price \in Int, NEW reason,
         p.distance > 0 => (price - p.entry) * p.dir >= -p.distance
  PROVE  KeptTrade(Trade(p, price, reason))
<1>1. p.entry \in Int /\ p.distance \in Nat /\ p.dir \in {-1, 0, 1}
  BY DEF Held
<1> DEFINE pnl == (price - p.entry) * p.dir
<1>2. pnl \in Int /\ (p.distance > 0 => pnl >= -p.distance)
  BY <1>1
<1>3. Trade(p, price, reason) = [pnl |-> pnl, distance |-> p.distance, reason |-> reason]
  BY DEF Trade
<1> HIDE DEF pnl
<1> QED BY <1>1, <1>2, <1>3 DEF KeptTrade

\* What a bar offers: four prices, the close between the extremes.
LEMMA BarPrices ==
  ASSUME NEW b \in Bars
  PROVE  /\ b.open \in Nat /\ b.high \in Nat /\ b.low \in Nat /\ b.close \in Nat
         /\ b.low <= b.close /\ b.close <= b.high
<1>1. b \in [open : Prices, high : Prices, low : Prices, close : Prices]
      /\ \A p \in {b.open, b.close} : b.low <= p /\ p <= b.high
  BY DEF Bars
<1>2. Prices \subseteq Nat
  BY BacktestAssumption
<1>3. b.open \in Prices /\ b.high \in Prices /\ b.low \in Prices /\ b.close \in Prices
  BY <1>1
<1> QED BY <1>1, <1>2, <1>3

\* A bar that does not reach the stop has every price of its on the good side.
LEMMA NotStopped ==
  ASSUME NEW p \in Held, NEW b \in Bars, p.distance > 0, p.dir \in {-1, 1}, ~Stopped(p, b)
  PROVE  (b.close - p.entry) * p.dir >= -p.distance
<1>1. p.entry \in Int /\ p.distance \in Nat
  BY DEF Held
<1>2. /\ b.low \in Int /\ b.high \in Int /\ b.close \in Int
      /\ b.low <= b.close /\ b.close <= b.high
  BY BarPrices
<1>3. CASE p.dir = 1
  <2>1. ~(b.low <= p.entry - p.distance)
    BY <1>1, <1>3 DEF Stopped, Reaches, StopOf
  <2>2. b.close - p.entry >= -p.distance
    BY <1>1, <1>2, <2>1
  <2> QED BY <1>1, <1>2, <1>3, <2>2
<1>4. CASE p.dir = -1
  <2>1. -p.dir = 1 /\ StopOf(p) = p.entry + p.distance
    <3>1. -p.dir = 1
      <4>1. p.dir \in Int /\ p.dir + 1 = 0
        BY <1>4
      <4> DEFINE dir == p.dir
      <4>2. dir \in Int /\ dir + 1 = 0
        BY <4>1
      <4> HIDE DEF dir
      <4>3. -dir = 1
        BY <4>2
      <4> QED BY <4>3 DEF dir
    <3>2. p.dir * p.distance = -p.distance
      BY <1>1, <1>4
    <3>3. StopOf(p) = p.entry - p.dir * p.distance
      BY DEF StopOf
    <3> QED BY <1>1, <3>1, <3>2, <3>3
  <2>2. ~(b.high >= StopOf(p))
    BY <2>1 DEF Stopped, Reaches
  <2>3. p.entry - b.close >= -p.distance
    BY <1>1, <1>2, <2>1, <2>2
  <2> QED BY <1>1, <1>2, <1>4, <2>3
<1> QED BY <1>3, <1>4

\* What a bar does to a position: it stays and was not stopped, or it is closed
\* within its stop.
LEMMA CloseWithinStop ==
  ASSUME NEW p \in Held, NEW b \in Bars, NEW signalled \in BOOLEAN, p.dir \in {-1, 1},
         KeptTrade(closed)
  PROVE  LET after == CloseAt(p, ExitOf(p, b, signalled))
         IN  /\ KeptTrade(after.closed)
             /\ after.open = Flat \/ (after.open = p /\ ~Stopped(p, b))
<1> DEFINE exit == ExitOf(p, b, signalled)
           after == CloseAt(p, exit)
<1>1. p.entry \in Int /\ p.distance \in Nat
  BY DEF Held
<1>2. RewardRisk * p.distance \in Nat
  BY <1>1, BacktestAssumption
<1>3. b.close \in Int
  BY BarPrices
<1>4. ASSUME NEW price \in Int, NEW reason,
             after = [open |-> Flat, closed |-> Trade(p, price, reason)],
             p.distance > 0 => (price - p.entry) * p.dir >= -p.distance
      PROVE  KeptTrade(after.closed) /\ after.open = Flat
  <2>1. KeptTrade(Trade(p, price, reason))
    BY <1>4, TradeWithinStop
  <2> HIDE DEF after
  <2>2. after.closed = Trade(p, price, reason) /\ after.open = Flat
    BY <1>4
  <2> QED BY <2>1, <2>2
<1>5. CASE Stopped(p, b)
  <2>1. exit = <<StopOf(p), "stop_loss">>
    BY <1>5 DEF ExitOf
  <2>2. after = [open |-> Flat, closed |-> Trade(p, StopOf(p), "stop_loss")]
    BY <2>1 DEF CloseAt
  <2>3. StopOf(p) \in Int /\ (StopOf(p) - p.entry) * p.dir = -p.distance
    BY <1>1 DEF StopOf
  <2>4. (StopOf(p) - p.entry) * p.dir >= -p.distance
    BY <1>1, <2>3
  <2> HIDE DEF after
  <2>5. KeptTrade(after.closed) /\ after.open = Flat
    BY <1>4, <2>2, <2>3, <2>4
  <2> QED BY <2>5 DEF after
<1>6. CASE ~Stopped(p, b) /\ Reached(p, b)
  <2>1. exit = <<TargetOf(p), "take_profit">>
    BY <1>6 DEF ExitOf
  <2>2. after = [open |-> Flat, closed |-> Trade(p, TargetOf(p), "take_profit")]
    BY <2>1 DEF CloseAt
  <2>3. TargetOf(p) = p.entry + p.dir * (RewardRisk * p.distance)
    BY <1>1, BacktestAssumption DEF TargetOf
  <2>4. TargetOf(p) \in Int /\ (TargetOf(p) - p.entry) * p.dir = RewardRisk * p.distance
    BY <1>1, <1>2, <2>3
  <2>5. (TargetOf(p) - p.entry) * p.dir >= -p.distance
    BY <1>1, <1>2, <2>4
  <2> HIDE DEF after
  <2>6. KeptTrade(after.closed) /\ after.open = Flat
    BY <1>4, <2>2, <2>4, <2>5
  <2> QED BY <2>6 DEF after
<1>7. CASE ~Stopped(p, b) /\ ~Reached(p, b) /\ signalled
  <2>1. exit = <<b.close, "signal_reversal">>
    BY <1>7 DEF ExitOf
  <2>2. after = [open |-> Flat, closed |-> Trade(p, b.close, "signal_reversal")]
    BY <2>1 DEF CloseAt
  <2>3. p.distance > 0 => (b.close - p.entry) * p.dir >= -p.distance
    BY <1>7, NotStopped
  <2> HIDE DEF after
  <2>4. KeptTrade(after.closed) /\ after.open = Flat
    BY <1>3, <1>4, <2>2, <2>3
  <2> QED BY <2>4 DEF after
<1>8. CASE ~Stopped(p, b) /\ ~Reached(p, b) /\ ~signalled
  <2>1. exit = <<0, "none">>
    BY <1>8 DEF ExitOf
  <2>2. after = [open |-> p, closed |-> closed]
    BY <2>1 DEF CloseAt
  <2> QED BY <1>8, <2>2
<1> QED BY <1>5, <1>6, <1>7, <1>8

\* A bar settles its position: what it still holds has not been stopped by it, so
\* that closing it at the end of the data stays within the stop too.
LEMMA SettleKeeps ==
  ASSUME NEW open \in Held, NEW trade, NEW b \in Bars, NEW last \in BOOLEAN,
         KeptTrade(trade), open.dir = 0 => open.distance = 0,
         open.distance > 0 => (b.close - open.entry) * open.dir >= -open.distance,
         Settle([open |-> open, closed |-> trade], b, last)
  PROVE  position' \in Held /\ (position'.dir = 0 => position'.distance = 0) /\ KeptTrade(closed')
<1>1. b.close \in Int
  BY BarPrices
<1>2. KeptTrade(Trade(open, b.close, "end_of_data"))
  BY <1>1, TradeWithinStop
<1>3. /\ position' = IF last /\ open.dir # 0 THEN Flat ELSE open
      /\ closed' = IF last /\ open.dir # 0 THEN Trade(open, b.close, "end_of_data") ELSE trade
  BY DEF Settle
<1>4. Flat \in Held /\ Flat.dir = 0 /\ Flat.distance = 0
  BY DEF Flat, Held
<1>5. CASE last /\ open.dir # 0
  BY <1>2, <1>3, <1>4, <1>5
<1>6. CASE ~(last /\ open.dir # 0)
  BY <1>3, <1>6
<1> QED BY <1>5, <1>6

\* The position a bar settles after having looked for an exit.
LEMMA ExitSettles ==
  ASSUME NEW p \in Held, NEW b \in Bars, NEW signalled \in BOOLEAN, NEW last \in BOOLEAN,
         p.dir \in {-1, 1}, KeptTrade(closed),
         Settle(CloseAt(p, ExitOf(p, b, signalled)), b, last)
  PROVE  position' \in Held /\ (position'.dir = 0 => position'.distance = 0) /\ KeptTrade(closed')
<1> DEFINE after == CloseAt(p, ExitOf(p, b, signalled))
<1>1. KeptTrade(after.closed) /\ (after.open = Flat \/ (after.open = p /\ ~Stopped(p, b)))
  BY CloseWithinStop
<1>2. after = [open |-> after.open, closed |-> after.closed]
  BY DEF CloseAt
<1>3. Settle([open |-> after.open, closed |-> after.closed], b, last)
  BY <1>2
<1> HIDE DEF after
<1>4. CASE after.open = Flat
  <2>1. Flat \in Held /\ Flat.dir = 0 /\ Flat.distance = 0
    BY DEF Flat, Held
  <2> QED BY <1>1, <1>3, <1>4, <2>1, SettleKeeps
<1>5. CASE after.open = p /\ ~Stopped(p, b)
  <2>1. p.distance > 0 => (b.close - p.entry) * p.dir >= -p.distance
    BY <1>5, NotStopped
  <2> QED BY <1>1, <1>3, <1>5, <2>1, SettleKeeps
<1> QED BY <1>1, <1>4, <1>5

\* The inductive invariant: the position is a position, and the trade closed last
\* kept to its stop.
TradeInv ==
  /\ strategy \in {"ema_crossover", "rsi_reversal", "macd_crossover"}
  /\ position \in Held /\ (position.dir = 0 => position.distance = 0)
  /\ pending \in Waiting
  /\ KeptTrade(closed)

\* A strategy reads a direction or nothing.
LEMMA SignalsAreDirections ==
  ASSUME NEW r \in Readings, TradeInv
  PROVE  EntrySignal(r) \in {-1, 0, 1} /\ Crossing(r) \in {-1, 0, 1}
  BY DEF TradeInv, EntrySignal, Crossing, Readings

\* A bar of the research engine enters at its close or looks for an exit.
LEMMA BuiltinKeeps ==
  ASSUME NEW b \in Bars, NEW r \in Readings, NEW atr \in Atrs, NEW last \in BOOLEAN,
         TradeInv, BuiltinBar(b, r, atr, last)
  PROVE  TradeInv'
<1>1. UNCHANGED <<strategy, pending>>
  BY DEF BuiltinBar
<1>2. position \in Held /\ KeptTrade(closed)
  BY DEF TradeInv
<1>3. CASE position.dir # 0
  <2>1. position.dir \in {-1, 1}
    BY <1>2, <1>3 DEF Held
  <2>2. ExitSignal(position, r) \in BOOLEAN
    BY DEF ExitSignal
  <2>3. Settle(CloseAt(position, ExitOf(position, b, ExitSignal(position, r))), b, last)
    BY <1>3 DEF BuiltinBar
  <2> QED BY <1>1, <1>2, <2>1, <2>2, <2>3, ExitSettles DEF TradeInv
<1>4. CASE position.dir = 0
  <2> DEFINE open == IF EntrySignal(r) = 0 THEN Flat
                     ELSE [dir |-> EntrySignal(r), entry |-> b.close,
                           distance |-> StopMultiplier * atr]
  <2>1. Settle([open |-> open, closed |-> closed], b, last)
    BY <1>4 DEF BuiltinBar
  <2>2. EntrySignal(r) \in {-1, 0, 1}
    BY SignalsAreDirections
  <2>3. b.close \in Nat
    BY BarPrices
  <2>4. atr \in Nat /\ StopMultiplier * atr \in Nat
    BY BacktestAssumption
  <2>5. open \in Held /\ (open.dir = 0 => open.distance = 0)
    BY <2>2, <2>3, <2>4 DEF Flat, Held
  <2>6. open.distance > 0 => open.entry = b.close
    BY DEF Flat
  <2> HIDE DEF open
  <2>7. open.distance \in Nat /\ open.dir \in {-1, 0, 1}
    BY <2>5 DEF Held
  <2>8. open.distance > 0 => (b.close - open.entry) * open.dir >= -open.distance
    BY <2>3, <2>6, <2>7
  <2> QED BY <1>1, <1>2, <2>1, <2>5, <2>8, SettleKeeps DEF TradeInv
<1> QED BY <1>3, <1>4

\* A realistic fill is a position: the range of its bar is a distance.
LEMMA FillIsHeld ==
  ASSUME NEW b \in Bars, NEW dir \in {-1, 1}
  PROVE  Fill(b, dir) \in Held /\ Fill(b, dir).dir = dir
<1> DEFINE range == IF b.high = b.low THEN 1 ELSE b.high - b.low
           width == StopMultiplier * StopMultiplier * range
<1>1. b.open \in Nat /\ b.high \in Nat /\ b.low \in Nat /\ b.low <= b.high
  BY BarPrices
<1>2. range \in Nat
  BY <1>1
<1>3. StopMultiplier * StopMultiplier \in Nat
  BY BacktestAssumption
<1> HIDE DEF range
<1>4. width \in Nat
  BY <1>2, <1>3
<1> HIDE DEF width
<1>5. width \div 2 \in Nat
  BY <1>4
<1>6. b.open + dir * Cost \in Int
  BY <1>1, BacktestAssumption
<1>7. Fill(b, dir) = [dir |-> dir, entry |-> b.open + dir * Cost, distance |-> width \div 2]
  BY DEF Fill, width, range
<1> QED BY <1>5, <1>6, <1>7 DEF Held

\* A bar of the realistic engine fills what waits and looks for an exit.
LEMMA RealisticKeeps ==
  ASSUME NEW b \in Bars, NEW r \in Readings, NEW last \in BOOLEAN,
         TradeInv, RealisticBar(b, r, last)
  PROVE  TradeInv'
<1> DEFINE signal == IF position.dir # 0 \/ pending.dir # 0 THEN pending
                     ELSE [dir |-> Crossing(r), wait |-> 0]
           fills == position.dir = 0 /\ signal.dir # 0 /\ signal.wait >= Delay
           held == IF fills THEN Fill(b, signal.dir) ELSE position
<1>1. /\ Settle(IF held.dir = 0 THEN [open |-> Flat, closed |-> closed]
                ELSE CloseAt(held, ExitOf(held, b, Crossing(r) = -held.dir)), b, last)
      /\ pending' = IF fills \/ signal.dir = 0 THEN NoSignal
                    ELSE [signal EXCEPT !.wait = @ + 1]
      /\ UNCHANGED strategy
  BY DEF RealisticBar
<1>2. position \in Held /\ pending \in Waiting /\ KeptTrade(closed)
  BY DEF TradeInv
<1>3. signal \in Waiting
  BY <1>2, SignalsAreDirections DEF Waiting
<1> HIDE DEF signal
<1>4. signal.dir \in {-1, 0, 1} /\ signal.wait \in Nat
  BY <1>3 DEF Waiting
<1>5. pending' \in Waiting
  <2>1. [signal EXCEPT !.wait = @ + 1] = [dir |-> signal.dir, wait |-> signal.wait + 1]
    BY <1>3 DEF Waiting
  <2> QED BY <1>1, <1>4, <2>1 DEF Waiting, NoSignal
<1>6. held \in Held
  BY <1>2, <1>4, FillIsHeld
<1> HIDE DEF held
<1>7. CASE held.dir = 0
  <2>1. Flat \in Held /\ Flat.dir = 0 /\ Flat.distance = 0
    BY DEF Flat, Held
  <2>2. Settle([open |-> Flat, closed |-> closed], b, last)
    BY <1>1, <1>7
  <2> QED BY <1>1, <1>2, <1>5, <2>1, <2>2, SettleKeeps DEF TradeInv
<1>8. CASE held.dir # 0
  <2>1. held.dir \in {-1, 1}
    BY <1>6, <1>8 DEF Held
  <2>2. Settle(CloseAt(held, ExitOf(held, b, Crossing(r) = -held.dir)), b, last)
    BY <1>1, <1>8
  <2> QED BY <1>1, <1>2, <1>5, <1>6, <2>1, <2>2, ExitSettles DEF TradeInv
<1> QED BY <1>7, <1>8

\* A trade that carries a stop never loses more than the distance to it, whichever
\* engine runs, at whatever bar it is filled and by whatever rule it is closed, for
\* every price path (_simulate, RealisticBacktester.run).
THEOREM StopBoundsLossHolds == BacktestSpec => []StopBoundsLoss
<1>1. KeptTrade(NoClosedTrade) /\ NoSignal \in Waiting /\ Flat \in Held /\ Flat.distance = 0
  BY DEF KeptTrade, NoClosedTrade, NoSignal, Waiting, Flat, Held
<1>2. \A run \in Runs : run[2] \in {"ema_crossover", "rsi_reversal", "macd_crossover"}
  BY BacktestAssumption DEF Runs
<1>3. BacktestInit => TradeInv
  BY <1>1, <1>2 DEF BacktestInit, TradeInv
<1>4. TradeInv /\ [BacktestNext]_backtestVars => TradeInv'
  <2>1. TradeInv /\ StartRun => TradeInv'
    BY <1>1, <1>2 DEF StartRun, TradeInv
  <2>2. TradeInv /\ UNCHANGED backtestVars => TradeInv'
    BY DEF TradeInv, backtestVars, KeptTrade
  <2> QED BY <2>1, <2>2, BuiltinKeeps, RealisticKeeps DEF BacktestNext
<1>5. TradeInv => StopBoundsLoss
  BY DEF TradeInv, KeptTrade, StopBoundsLoss
<1> QED BY <1>3, <1>4, <1>5, PTL DEF BacktestSpec

-----------------------------------------------------------------------------
(* The model registry.  Whoever fetches holds the lock, and an outcome is  *)
(* remembered at a time the clock has shown, so that finding nothing fresh *)
(* under the lock means that what is remembered has lapsed.                *)

DiscoveryState ==
  [success : BOOLEAN, source : {"defaults", "gateway"}, attempt : 0..Never,
   discovered : 0..Never, failed : 0..Never]

RegistryTimes ==
  /\ now \in 0..MaxTime
  /\ reader \in [Readers -> {"idle", "wait", "fetch"}]
  /\ registry \in DiscoveryState
  /\ \A r \in Readers : reader[r] = "fetch" => lock = r /\ registry.attempt # Never
  /\ registry.success => registry.discovered # Never /\ registry.failed = Never

\* Under the lock and with nothing fresh, nobody fetches and what is remembered has
\* lapsed.
LEMMA LapsedUnderLock ==
  ASSUME RegistryTimes, lock = "free", ~Cached
  PROVE  /\ \A s \in Readers : reader[s] # "fetch"
         /\ registry.failed # Never => now >= registry.failed + FailureTtl
         /\ registry.success => now >= registry.discovered + CacheTtl
<1>1. /\ now \in Int /\ registry.success \in BOOLEAN
      /\ registry.discovered \in Int /\ registry.failed \in Int
      /\ FailureTtl \in Nat /\ CacheTtl \in Nat
  BY AdvisorAssumption DEF RegistryTimes, DiscoveryState, Never
<1>2. ~FreshSuccess /\ ~FreshFailure
  BY DEF Cached
<1>3. \A s \in Readers : reader[s] # "fetch"
  BY AdvisorAssumption DEF RegistryTimes
<1>4. registry.success => registry.failed = Never /\ registry.discovered # Never
  BY DEF RegistryTimes
<1>5. registry.failed # Never => ~(now - registry.failed < FailureTtl)
  BY <1>2, <1>4 DEF FreshFailure
<1>6. registry.success => ~(now - registry.discovered < CacheTtl)
  BY <1>2, <1>4 DEF FreshSuccess
<1> QED BY <1>1, <1>3, <1>5, <1>6

\* Every step keeps the registry's times, and only whoever takes the lock begins to
\* fetch.
LEMMA RegistryTimesKept ==
  ASSUME RegistryTimes, [AdvisorNext]_advisorVars
  PROVE  RegistryTimes' /\ \A r \in Readers :
           reader[r] # "fetch" /\ reader'[r] = "fetch" => lock = "free" /\ ~Cached
<1> USE DEF RegistryTimes
<1>1. MaxTime \in Nat /\ Never = MaxTime + 1
  BY AdvisorAssumption DEF Never
<1>2. now \in Nat /\ now \in 0..Never /\ now # Never
  BY <1>1
<1>3. /\ registry.success \in BOOLEAN /\ registry.source \in {"defaults", "gateway"}
      /\ registry.attempt \in 0..Never /\ registry.discovered \in 0..Never
      /\ registry.failed \in 0..Never /\ Never \in 0..Never
  BY <1>1 DEF DiscoveryState
<1>4. CASE UNCHANGED registryVars
  BY <1>4 DEF registryVars
<1>5. ASSUME NEW r \in Readers, ReadModels(r)
      PROVE  RegistryTimes' /\ \A s \in Readers :
               reader[s] # "fetch" /\ reader'[s] = "fetch" => lock = "free" /\ ~Cached
  BY <1>5 DEF ReadModels
<1>6. ASSUME NEW r \in Readers, TakeLock(r)
      PROVE  RegistryTimes' /\ \A s \in Readers :
               reader[s] # "fetch" /\ reader'[s] = "fetch" => lock = "free" /\ ~Cached
  <2>1. CASE Cached
    BY <1>6, <2>1 DEF TakeLock
  <2>2. CASE ~Cached
    <3>1. /\ lock = "free" /\ lock' = r /\ now' = now
          /\ reader' = [reader EXCEPT ![r] = "fetch"]
          /\ registry' = [registry EXCEPT !.attempt = now]
      BY <1>6, <2>2 DEF TakeLock
    <3>2. /\ registry' \in DiscoveryState /\ registry'.attempt = now
          /\ registry'.success = registry.success /\ registry'.failed = registry.failed
          /\ registry'.discovered = registry.discovered
      BY <1>2, <1>3, <3>1 DEF DiscoveryState
    <3>3. \A s \in Readers : reader[s] # "fetch"
      BY <3>1, AdvisorAssumption
    <3>4. \A s \in Readers : reader'[s] = "fetch" => s = r
      BY <3>1, <3>3
    <3> QED BY <1>2, <2>2, <3>1, <3>2, <3>4
  <2> QED BY <2>1, <2>2
<1>7. ASSUME NEW r \in Readers, Discover(r) \/ DiscoverFails(r)
      PROVE  RegistryTimes' /\ \A s \in Readers :
               reader[s] # "fetch" /\ reader'[s] = "fetch" => lock = "free" /\ ~Cached
  <2>1. reader[r] = "fetch" /\ lock = r /\ registry.attempt # Never
    BY <1>7 DEF Discover, DiscoverFails
  <2>2. now' = now /\ lock' = "free" /\ reader' = [reader EXCEPT ![r] = "idle"]
    BY <1>7 DEF Discover, DiscoverFails
  <2>3. \A s \in Readers : reader'[s] # "fetch"
    BY <2>1, <2>2
  <2>4. registry' \in DiscoveryState
        /\ (registry'.success => registry'.discovered # Never /\ registry'.failed = Never)
    <3>1. CASE Discover(r)
      <4>1. registry' = [registry EXCEPT !.success = TRUE, !.source = "gateway",
                           !.discovered = registry.attempt, !.failed = Never]
        BY <3>1 DEF Discover
      <4> QED BY <1>3, <2>1, <4>1 DEF DiscoveryState
    <3>2. CASE DiscoverFails(r)
      <4>1. registry' = [registry EXCEPT !.success = FALSE, !.source = "defaults", !.failed = now]
        BY <3>2 DEF DiscoverFails
      <4> QED BY <1>2, <1>3, <4>1 DEF DiscoveryState
    <3> QED BY <1>7, <3>1, <3>2
  <2> QED BY <2>2, <2>3, <2>4
<1>8. CASE Tick
  BY <1>1, <1>8 DEF Tick
<1>9. CASE UNCHANGED advisorVars
  BY <1>4, <1>9 DEF advisorVars
<1>10. CallSteps => UNCHANGED registryVars
  BY DEF CallSteps, CommitBudget, Execute, ProviderAnswers, MockAnswers, ProviderFails, Answer, Refuse
<1>11. BeginCycle \/ ChargeAgent \/ ProbeRouter => UNCHANGED registryVars
  BY DEF BeginCycle, ChargeAgent, ProbeRouter
<1>12. ASSUME NEW on \in BOOLEAN, NEW tokens \in Budgets, SetAdvisorKnobs(on, tokens)
       PROVE  UNCHANGED registryVars
  BY <1>12 DEF SetAdvisorKnobs
<1>13. ASSUME NEW roleAllowed \in BOOLEAN, NEW hasData \in BOOLEAN, Ask(roleAllowed, hasData)
       PROVE  UNCHANGED registryVars
  BY <1>13 DEF Ask, Refuse
<1> QED BY <1>4, <1>5, <1>6, <1>7, <1>8, <1>9, <1>10, <1>11, <1>12, <1>13 DEF AdvisorNext

\* The gateway is asked by one request at a time and never while an outcome is still
\* remembered, for any number of requests and any lifetimes of the caches
\* (ModelRegistry.discover_from_gateway).
THEOREM NoHammeringHolds == AdvisorSpec => NoHammering
<1>1. AdvisorInit => RegistryTimes
  BY AdvisorAssumption DEF AdvisorInit, RegistryTimes, DiscoveryState, Never
<1>2. RegistryTimes /\ [AdvisorNext]_advisorVars => RegistryTimes'
  BY RegistryTimesKept
<1>3. RegistryTimes /\ [AdvisorNext]_advisorVars
        => [\A r \in Readers : reader[r] # "fetch" /\ reader'[r] = "fetch" =>
              /\ \A s \in Readers : reader[s] # "fetch"
              /\ registry.failed # Never => now >= registry.failed + FailureTtl
              /\ registry.success => now >= registry.discovered + CacheTtl]_advisorVars
  BY RegistryTimesKept, LapsedUnderLock
<1> QED BY <1>1, <1>2, <1>3, PTL DEF AdvisorSpec, NoHammering

-----------------------------------------------------------------------------
(* The drills.  A deadline of 270 seconds or more meets no stage that      *)
(* leaves something broken behind it, so whatever is out of order belongs  *)
(* to the drill that is awaited, or is put back by the rollback that       *)
(* follows it, or by a restart script that is still to run.                *)

Early == {"cut", "start", "override", "probe", "restart"}
Steps == {"ended", "preflight", "join", "rollback", "verify", "record"}

InHand(d) == runner.step \in {"join", "rollback"} /\ Current = d

Hosts == [python : {"normal", "down"} \cup Override, web : BOOLEAN, nine : BOOLEAN,
          terminal : BOOLEAN, others : BOOLEAN, bound : BOOLEAN]
Configs == {"none", "normal", "all", "web"} \cup Override

DrillTypes ==
  /\ runner \in [step : Steps, todo : Seq(Drills), status : {"failed", "passed"}]
  /\ runner.step # "ended" => runner.todo # <<>>
  /\ thread = [d \in Drills |-> thread[d]]
  /\ host \in Hosts
  /\ script \in [Owners -> Configs]

\* Nothing is in an early stage, or has returned, but the drill that is awaited.
EarlyAwaited == \A d \in Drills : thread[d].stage \in Early \cup {"done"} => Awaited(d)

\* A script that starts a broken configuration is one its own drill waits for.
BrokenAwaited ==
  \A o \in Owners : script[o] \in Override =>
    o \in Drills /\ script[o] = o /\ thread[o].stage = "probe"

PythonOwned ==
  /\ host.python \in Override => InHand(host.python)
  /\ ~PythonUp => \/ \E o \in Owners \ {"pc_restart"} : script[o] \notin {"none", "web"}
                  \/ InHand("pc_restart")

WebOwned == ~host.web => script["runner"] \in {"all", "web"} \/ InHand("pc_restart")

\* The selected terminal is off only until its drill starts it, and the others with it.
TerminalOwned ==
  /\ ~host.terminal => \E d \in Terminal : thread[d].stage = "start"
  /\ host.others => host.terminal

RouterOwned == ~host.nine => thread["nine_router_failure"].stage = "start"

DrillInv ==
  /\ DrillTypes /\ EarlyAwaited /\ BrokenAwaited
  /\ PythonOwned /\ WebOwned /\ TerminalOwned /\ RouterOwned

\* The seven drills and their kinds.
LEMMA DrillNames ==
  /\ Drills = Terminal \cup Override \cup {"pc_restart", "nine_router_failure"}
  /\ Owners = Drills \cup {"runner"} /\ "runner" \notin Drills
  /\ Terminal \cap Override = {}
  /\ {"pc_restart", "nine_router_failure", "runner"} \cap (Terminal \cup Override) = {}
  /\ {"none", "normal", "all", "web", "down"} \cap Override = {}
<1>1. DOMAIN Order = 1..7
  BY DEF Order
<1>2. /\ Order[1] = "mt5_restart" /\ Order[2] = "pc_restart" /\ Order[3] = "mt5_disconnect"
      /\ Order[4] = "database_failure" /\ Order[5] = "llm_failure"
      /\ Order[6] = "nine_router_failure" /\ Order[7] = "telegram_failure"
  BY DEF Order
<1>3. Drills = {"mt5_restart", "pc_restart", "mt5_disconnect", "database_failure",
                "llm_failure", "nine_router_failure", "telegram_failure"}
  <2>1. 1..7 = {1, 2, 3, 4, 5, 6, 7}
    OBVIOUS
  <2> QED BY <1>1, <1>2, <2>1 DEF Drills
<1> QED BY <1>3 DEF Terminal, Override, Owners

\* Every invocation runs drills, one at least.
LEMMA InvokedDrills ==
  ASSUME NEW todo \in {Order} \cup {<<d>> : d \in Drills}
  PROVE  todo \in Seq(Drills) /\ todo # <<>>
<1>1. CASE todo = Order
  <2>1. \A i \in DOMAIN Order : Order[i] \in Drills
    BY DEF Drills
  <2> QED BY <1>1, <2>1 DEF Order
<1>2. ASSUME NEW d \in Drills, todo = <<d>>
      PROVE  todo \in Seq(Drills) /\ todo # <<>>
  BY <1>2
<1> QED BY <1>1, <1>2

\* No stage that leaves something broken is as long as the deadline.
LEMMA EarlyIsInTime ==
  ASSUME DrillTimeout >= 270, NEW d \in Drills, thread[d].stage \in Early
  PROVE  ~Late(d)
<1> DEFINE here == thread[d].stage
           longest == LongestFor(d)
<1>1. here \in DOMAIN longest => longest[here] <= 270
  <2> HIDE DEF here
  <2>1. here \in Early
    BY DEF here
  <2>2. CASE d \in Terminal
    BY <2>1, <2>2 DEF Early, Terminal, LongestFor
  <2>3. CASE d \in Override
    BY <2>1, <2>3 DEF Early, Terminal, Override, LongestFor
  <2>4. CASE d \in {"pc_restart", "nine_router_failure"}
    BY <2>1, <2>4 DEF Early, Terminal, Override, LongestFor
  <2> QED BY <2>2, <2>3, <2>4, DrillNames
<1>2. here \in DOMAIN longest => longest[here] \in Nat
  <2> HIDE DEF here
  <2>1. here \in Early
    BY DEF here
  <2>2. CASE d \in Terminal
    BY <2>1, <2>2 DEF Early, Terminal, LongestFor
  <2>3. CASE d \in Override
    BY <2>1, <2>3 DEF Early, Terminal, Override, LongestFor
  <2>4. CASE d \in {"pc_restart", "nine_router_failure"}
    BY <2>1, <2>4 DEF Early, Terminal, Override, LongestFor
  <2> QED BY <2>2, <2>3, <2>4, DrillNames
<1> QED BY <1>1, <1>2, OpsAssumption DEF Late

\* Between two drills nothing is cut off, and no broken configuration is on its way.
LEMMA NothingCut ==
  ASSUME DrillInv, runner.step # "join"
  PROVE  /\ host.nine /\ host.terminal
         /\ \A o \in Owners : script[o] \notin Override
         /\ \A d \in Drills : thread[d].stage \notin Early \cup {"done"}
<1>1. \A d \in Drills : thread[d].stage \notin Early \cup {"done"}
  BY DEF DrillInv, EarlyAwaited, Awaited
<1>2. "nine_router_failure" \in Drills /\ Terminal \subseteq Drills
  BY DrillNames
<1>3. host.nine /\ host.terminal
  BY <1>1, <1>2 DEF DrillInv, RouterOwned, TerminalOwned, Early
<1>4. \A o \in Owners : script[o] \notin Override
  BY <1>1 DEF DrillInv, BrokenAwaited, Early
<1> QED BY <1>1, <1>3, <1>4

\* The thread's own step: its stage, and no other thread's.
LEMMA GoesOn ==
  ASSUME DrillInv, NEW d \in Drills, NEW goal, NEW ok, Goes(d, goal, ok)
  PROVE  /\ thread' = [e \in Drills |-> thread'[e]]
         /\ \A e \in Drills \ {d} : thread'[e] = thread[e]
         /\ thread'[d].stage = IF ~Awaited(d) /\ goal = "done" THEN "off" ELSE goal
<1>1. thread = [e \in Drills |-> thread[e]]
  BY DEF DrillInv, DrillTypes
<1> DEFINE next == IF Awaited(d) THEN [stage |-> goal, ok |-> ok]
                   ELSE [stage |-> IF goal = "done" THEN "off" ELSE goal, ok |-> FALSE]
<1>2. thread' = [thread EXCEPT ![d] = next]
  BY DEF Goes
<1>3. next.stage = IF ~Awaited(d) /\ goal = "done" THEN "off" ELSE goal
  OBVIOUS
<1> HIDE DEF next
<1> QED BY <1>1, <1>2, <1>3

\* A step of one thread, with the runner where it was, keeps the early stages awaited.
LEMMA ThreadKeepsAwaited ==
  ASSUME DrillInv, NEW d \in Drills, NEW goal, NEW ok, Goes(d, goal, ok), runner' = runner,
         goal \in Early => Awaited(d)
  PROVE  EarlyAwaited'
<1>1. SUFFICES ASSUME NEW e \in Drills, thread'[e].stage \in Early \cup {"done"}
      PROVE  Awaited(e)
  BY DEF EarlyAwaited, Awaited, Current
<1>2. CASE e = d
  BY <1>1, <1>2, GoesOn DEF Early
<1>3. CASE e # d
  <2>1. thread'[e] = thread[e]
    BY <1>3, GoesOn
  <2> QED BY <1>1, <2>1 DEF DrillInv, EarlyAwaited
<1> QED BY <1>2, <1>3

\* Stopping whoever listens leaves the rest of the host alone.
LEMMA ListenerKilled ==
  ASSUME DrillInv, NEW o \in Owners, NEW config \in {"normal", "all"} \cup Override,
         KillListener(o, config)
  PROVE  /\ host' \in Hosts
         /\ host'.python = "down" /\ host'.terminal = host.terminal /\ host'.nine = host.nine
         /\ host'.others = host.others /\ (config # "all" => host'.web = host.web)
         /\ script[o] = "none" /\ script' \in [Owners -> Configs]
         /\ script'[o] = config /\ \A q \in Owners \ {o} : script'[q] = script[q]
<1>1. /\ host \in Hosts
      /\ script \in [Owners -> Configs]
  BY DEF DrillInv, DrillTypes
<1>2. /\ script[o] = "none" /\ script' = [script EXCEPT ![o] = config]
      /\ host' = [host EXCEPT !.python = "down", !.bound = FALSE, !.web = host.web /\ config # "all"]
  BY DEF KillListener
<1>3. /\ script' \in [Owners -> Configs] /\ script'[o] = config
      /\ \A q \in Owners \ {o} : script'[q] = script[q]
  BY <1>1, <1>2 DEF Configs
<1> DEFINE web == host.web /\ config # "all"
<1>4. web \in BOOLEAN
  BY <1>1 DEF Hosts
<1>5. config # "all" => web = host.web
  BY <1>1 DEF Hosts
<1>6. host' = [host EXCEPT !.python = "down", !.bound = FALSE, !.web = web]
  BY <1>2
<1> HIDE DEF web
<1>7. /\ host' \in Hosts /\ host'.python = "down" /\ host'.terminal = host.terminal
      /\ host'.nine = host.nine /\ host'.others = host.others /\ host'.web = web
  BY <1>1, <1>4, <1>6 DEF Hosts
<1> QED BY <1>2, <1>3, <1>5, <1>7

\* A service that starts is whole, or it is what its drill waits for.
LEMMA StartServiceKeeps ==
  ASSUME DrillInv, NEW o \in Owners, StartService(o)
  PROVE  DrillInv'
<1>1. PICK attached \in BOOLEAN :
        host' = IF PythonUp THEN host
                ELSE [host EXCEPT !.python = IF script[o] = "all" THEN "normal" ELSE script[o],
                                  !.bound = attached /\ host.terminal]
  BY DEF StartService
<1>2. /\ script[o] \notin {"none", "web"}
      /\ script' = [script EXCEPT ![o] = IF script[o] = "all" THEN "web" ELSE "none"]
      /\ UNCHANGED <<runner, thread>>
  BY DEF StartService
<1>3. script \in [Owners -> Configs] /\ host \in Hosts
  BY DEF DrillInv, DrillTypes
<1>4. /\ script' \in [Owners -> Configs] /\ script'[o] \in {"none", "web"}
      /\ script[o] = "all" => script'[o] = "web"
      /\ \A q \in Owners \ {o} : script'[q] = script[q]
  BY <1>2, <1>3 DEF Configs
<1>5. PICK config : config = IF script[o] = "all" THEN "normal" ELSE script[o]
  OBVIOUS
<1>6. PICK bound : bound = (attached /\ host.terminal)
  OBVIOUS
<1>7. /\ config \in {"normal"} \cup Override /\ config # "down"
      /\ config \in Override => config = script[o]
  BY <1>2, <1>3, <1>5, DrillNames DEF Configs
<1>8. bound \in BOOLEAN
  BY <1>3, <1>6, Zenon DEF Hosts
<1>9. host' = IF PythonUp THEN host ELSE [host EXCEPT !.python = config, !.bound = bound]
  BY <1>1, <1>5, <1>6
<1>10. /\ host' \in Hosts /\ host'.terminal = host.terminal /\ host'.nine = host.nine
       /\ host'.others = host.others /\ host'.web = host.web
       /\ PythonUp' /\ (PythonUp => host' = host)
       /\ ~PythonUp => host'.python = config
  BY <1>3, <1>7, <1>8, <1>9 DEF PythonUp, Hosts
<1>11. \A d \in Drills : InHand(d)' <=> InHand(d)
  BY <1>2 DEF InHand, Current
<1>12. DrillTypes'
  BY <1>2, <1>4, <1>10 DEF DrillInv, DrillTypes
<1>13. EarlyAwaited'
  BY <1>2 DEF DrillInv, EarlyAwaited, Awaited, Current
<1>14. BrokenAwaited'
  BY <1>2, <1>4, DrillNames DEF DrillInv, BrokenAwaited
<1>15. PythonOwned'
  <2>1. CASE PythonUp
    BY <1>10, <1>11, <2>1, DrillNames DEF DrillInv, PythonOwned
  <2>2. CASE ~PythonUp /\ config \in Override
    <3>1. o \in Drills /\ script[o] = o /\ thread[o].stage = "probe"
      BY <1>7, <2>2 DEF DrillInv, BrokenAwaited
    <3>2. Awaited(o)
      BY <3>1 DEF DrillInv, EarlyAwaited, Early
    <3>3. host'.python = o /\ runner' = runner /\ runner.step = "join" /\ Head(runner.todo) = o
      BY <1>2, <1>7, <1>10, <2>2, <3>1, <3>2 DEF Awaited, Current
    <3> QED BY <1>10, <3>3 DEF PythonOwned, InHand, Current
  <2>3. CASE ~PythonUp /\ config \notin Override
    BY <1>10, <2>3 DEF PythonOwned
  <2> QED BY <2>1, <2>2, <2>3
<1>16. WebOwned'
  <2>1. "runner" \in Owners /\ "pc_restart" \in Drills
    BY DrillNames
  <2>2. script["runner"] \in {"all", "web"} => script'["runner"] \in {"all", "web"}
    BY <1>2, <1>4, <2>1
  <2> QED BY <1>10, <1>11, <2>1, <2>2 DEF DrillInv, WebOwned
<1>17. TerminalOwned' /\ RouterOwned'
  BY <1>2, <1>10 DEF DrillInv, TerminalOwned, RouterOwned
<1> QED BY <1>12, <1>13, <1>14, <1>15, <1>16, <1>17 DEF DrillInv

\* Its second half starts the Node service and the dashboard.
LEMMA StartWebKeeps ==
  ASSUME DrillInv, NEW o \in Owners, StartWeb(o)
  PROVE  DrillInv'
<1>1. /\ script[o] = "web" /\ host' = [host EXCEPT !.web = TRUE]
      /\ script' = [script EXCEPT ![o] = "none"] /\ UNCHANGED <<runner, thread>>
  BY DEF StartWeb
<1>2. script \in [Owners -> Configs] /\ host \in Hosts
  BY DEF DrillInv, DrillTypes
<1>3. /\ script' \in [Owners -> Configs] /\ script'[o] = "none"
      /\ \A q \in Owners \ {o} : script'[q] = script[q]
  BY <1>1, <1>2 DEF Configs
<1>4. /\ host' \in Hosts /\ host'.web /\ host'.python = host.python /\ host'.nine = host.nine
      /\ host'.terminal = host.terminal /\ host'.others = host.others
  BY <1>1, <1>2 DEF Hosts
<1>5. DrillTypes' /\ WebOwned'
  BY <1>1, <1>3, <1>4 DEF DrillInv, DrillTypes, WebOwned
<1>6. EarlyAwaited' /\ TerminalOwned' /\ RouterOwned'
  BY <1>1, <1>4 DEF DrillInv, EarlyAwaited, Awaited, Current, TerminalOwned, RouterOwned
<1>7. BrokenAwaited'
  BY <1>1, <1>3, DrillNames DEF DrillInv, BrokenAwaited
<1>8. PythonOwned'
  BY <1>1, <1>3, <1>4 DEF DrillInv, PythonOwned, PythonUp, InHand, Current
<1> QED BY <1>5, <1>6, <1>7, <1>8 DEF DrillInv

\* restart-all is cut off half-way while its own drill waits or was abandoned.
LEMMA CutScriptKeeps ==
  ASSUME DrillInv, CutScript
  PROVE  DrillInv'
<1>1. /\ script' = [script EXCEPT !["pc_restart"] = "none"] /\ UNCHANGED <<runner, thread, host>>
      /\ "pc_restart" \in Owners
  BY DrillNames DEF CutScript
<1>2. script \in [Owners -> Configs]
  BY DEF DrillInv, DrillTypes
<1>3. /\ script' \in [Owners -> Configs] /\ script'["pc_restart"] = "none"
      /\ \A o \in Owners \ {"pc_restart"} : script'[o] = script[o]
  BY <1>1, <1>2 DEF Configs
<1>4. BrokenAwaited'
  BY <1>1, <1>3, DrillNames DEF DrillInv, BrokenAwaited
<1>5. PythonOwned'
  BY <1>1, <1>3 DEF DrillInv, PythonOwned, PythonUp, InHand, Current
<1>6. WebOwned'
  <2>1. script'["runner"] = script["runner"]
    BY <1>3, DrillNames
  <2> QED BY <1>1, <2>1 DEF DrillInv, WebOwned, InHand, Current
<1> QED BY <1>1, <1>3, <1>4, <1>5, <1>6
        DEF DrillInv, DrillTypes, EarlyAwaited, Awaited, TerminalOwned, RouterOwned, PythonUp, InHand, Current

\* The thread of a terminal or router drill cuts its process off, awaited.
LEMMA CutOffKeeps ==
  ASSUME DrillInv, NEW d \in Terminal \cup {"nine_router_failure"}, CutOff(d)
  PROVE  DrillInv'
<1> DEFINE there == IF d \in Terminal THEN host.terminal \/ host.others ELSE host.nine
<1>1. /\ d \in Drills /\ thread[d].stage = "cut" /\ runner' = runner /\ script' = script
      /\ Goes(d, IF there THEN "start" ELSE "done", there)
      /\ host' = IF d \in Terminal
                 THEN [host EXCEPT !.terminal = FALSE, !.others = FALSE, !.bound = FALSE]
                 ELSE [host EXCEPT !.nine = FALSE]
  BY DrillNames DEF CutOff, InStage
<1>2. Awaited(d) /\ InHand(d)
  BY <1>1 DEF DrillInv, EarlyAwaited, Early, Awaited, InHand
<1>3. /\ host \in Hosts
  BY DEF DrillInv, DrillTypes
<1>4. there
  <2>1. CASE d \in Terminal
    <3>1. SUFFICES ASSUME ~host.terminal PROVE FALSE
      BY <2>1, Zenon
    <3>2. PICK e \in Terminal : thread[e].stage = "start"
      BY <3>1 DEF DrillInv, TerminalOwned
    <3>3. Awaited(e)
      BY <3>2, DrillNames DEF DrillInv, EarlyAwaited, Early
    <3> QED BY <1>1, <1>2, <3>2, <3>3 DEF Awaited
  <2>2. CASE d \notin Terminal
    BY <1>1, <2>2 DEF DrillInv, RouterOwned
  <2> QED BY <2>1, <2>2
<1>5. /\ thread' = [e \in Drills |-> thread'[e]] /\ thread'[d].stage = "start"
      /\ \A e \in Drills \ {d} : thread'[e] = thread[e]
  BY <1>1, <1>4, GoesOn
<1>6. EarlyAwaited'
  BY <1>1, <1>2, ThreadKeepsAwaited
<1>7. /\ host' \in Hosts
      /\ host'.python = host.python /\ host'.web = host.web
      /\ d \in Terminal => host'.nine = host.nine /\ ~host'.others
      /\ d \notin Terminal => host'.terminal = host.terminal /\ host'.others = host.others
  BY <1>1, <1>3 DEF Hosts
<1>8. DrillTypes'
  BY <1>1, <1>5, <1>7 DEF DrillInv, DrillTypes
<1>9. BrokenAwaited'
  BY <1>1, <1>5 DEF DrillInv, BrokenAwaited
<1>10. PythonOwned' /\ WebOwned'
  BY <1>1, <1>7 DEF DrillInv, PythonOwned, WebOwned, PythonUp, InHand, Current
<1>11. TerminalOwned'
  <2>1. CASE d \in Terminal
    BY <1>5, <1>7, <2>1 DEF TerminalOwned
  <2>2. CASE d \notin Terminal
    <3>1. \A e \in Terminal : thread'[e] = thread[e]
      BY <1>5, <2>2, DrillNames
    <3> QED BY <1>7, <2>2, <3>1 DEF DrillInv, TerminalOwned
  <2> QED BY <2>1, <2>2
<1>12. RouterOwned'
  <2>1. CASE d \in Terminal
    BY <1>5, <1>7, <2>1, DrillNames DEF DrillInv, RouterOwned
  <2>2. CASE d = "nine_router_failure"
    BY <1>5, <2>2 DEF RouterOwned
  <2> QED BY <2>1, <2>2
<1> QED BY <1>6, <1>8, <1>9, <1>10, <1>11, <1>12 DEF DrillInv

\* It is started again, and the terminal attached: the host only gains.
LEMMA StartBackKeeps ==
  ASSUME DrillInv, NEW d \in Terminal \cup {"nine_router_failure"}, StartBack(d)
  PROVE  DrillInv'
<1> DEFINE goal == IF d \in Terminal THEN "attach" ELSE "done"
<1>1. /\ d \in Drills /\ thread[d].stage = "start" /\ runner' = runner /\ script' = script
      /\ Goes(d, goal, PythonUp)
      /\ host' = IF d \in Terminal THEN [host EXCEPT !.terminal = TRUE]
                 ELSE [host EXCEPT !.nine = TRUE]
  BY DrillNames DEF StartBack, InStage
<1>2. Awaited(d) /\ goal \notin Early
  BY <1>1 DEF DrillInv, EarlyAwaited, Early
<1>3. host \in Hosts
  BY DEF DrillInv, DrillTypes
<1>4. /\ thread' = [e \in Drills |-> thread'[e]] /\ thread'[d].stage = goal
      /\ \A e \in Drills \ {d} : thread'[e] = thread[e]
  BY <1>1, <1>2, GoesOn
<1>5. EarlyAwaited'
  BY <1>1, <1>2, ThreadKeepsAwaited
<1>6. /\ host' \in Hosts
      /\ host'.python = host.python /\ host'.web = host.web /\ host'.others = host.others
      /\ d \in Terminal => host'.terminal /\ host'.nine = host.nine
      /\ d \notin Terminal => host'.nine /\ host'.terminal = host.terminal
  BY <1>1, <1>3 DEF Hosts
<1>7. DrillTypes'
  BY <1>1, <1>4, <1>6 DEF DrillInv, DrillTypes
<1>8. BrokenAwaited'
  BY <1>1, <1>4 DEF DrillInv, BrokenAwaited
<1>9. PythonOwned' /\ WebOwned'
  BY <1>1, <1>6 DEF DrillInv, PythonOwned, WebOwned, PythonUp, InHand, Current
<1>10. TerminalOwned'
  <2>1. ~host'.terminal => \A e \in Terminal : thread'[e] = thread[e]
    BY <1>4, <1>6, DrillNames
  <2> QED BY <1>6, <2>1 DEF DrillInv, TerminalOwned
<1>11. RouterOwned'
  <2>1. CASE d \in Terminal
    BY <1>4, <1>6, <2>1, DrillNames DEF DrillInv, RouterOwned
  <2>2. CASE d \notin Terminal
    BY <1>6, <2>2 DEF RouterOwned
  <2> QED BY <2>1, <2>2
<1> QED BY <1>5, <1>7, <1>8, <1>9, <1>10, <1>11 DEF DrillInv

LEMMA AttachKeeps ==
  ASSUME DrillInv, NEW d \in Terminal, Attach(d)
  PROVE  DrillInv'
<1>1. /\ d \in Drills /\ thread[d].stage = "attach" /\ runner' = runner /\ script' = script
  BY DrillNames DEF Attach, InStage
<1>2. PICK attached \in Bindings(host), symbols \in BOOLEAN :
        /\ host' = [host EXCEPT !.bound = attached]
        /\ Goes(d, "done", thread[d].ok /\ attached /\ symbols)
  BY DEF Attach
<1>3. host \in Hosts
  BY DEF DrillInv, DrillTypes
<1>4. /\ thread' = [e \in Drills |-> thread'[e]]
      /\ \A e \in Drills \ {d} : thread'[e] = thread[e]
      /\ thread'[d].stage \in {"done", "off"}
  BY <1>1, <1>2, GoesOn
<1>5. EarlyAwaited'
  BY <1>1, <1>2, ThreadKeepsAwaited DEF Early
<1>6. attached \in BOOLEAN
  BY <1>3, <1>2 DEF Bindings, Hosts
<1>7. /\ host' \in Hosts /\ host'.python = host.python /\ host'.web = host.web
      /\ host'.terminal = host.terminal /\ host'.others = host.others /\ host'.nine = host.nine
  BY <1>3, <1>6, <1>2 DEF Hosts
<1>8. DrillTypes'
  BY <1>1, <1>4, <1>7 DEF DrillInv, DrillTypes
<1>9. BrokenAwaited'
  BY <1>1, <1>4 DEF DrillInv, BrokenAwaited
<1>10. PythonOwned' /\ WebOwned'
  BY <1>1, <1>7 DEF DrillInv, PythonOwned, WebOwned, PythonUp, InHand, Current
<1>11. TerminalOwned'
  <2>1. \A e \in Terminal : thread[e].stage = "start" => thread'[e] = thread[e]
    BY <1>1, <1>4, DrillNames
  <2> QED BY <1>7, <2>1 DEF DrillInv, TerminalOwned
<1>12. RouterOwned'
  BY <1>4, <1>7, DrillNames DEF DrillInv, RouterOwned
<1> QED BY <1>5, <1>8, <1>9, <1>10, <1>11, <1>12 DEF DrillInv

\* A thread that stops whoever listens has its own script under way.
LEMMA KillKeeps ==
  ASSUME DrillInv, NEW d \in Drills, NEW config \in {"normal", "all"} \cup Override,
         NEW goal, NEW ok,
         thread[d].stage \in {"override", "restore", "restart"},
         KillListener(d, config), Goes(d, goal, ok), runner' = runner,
         goal \in Early => Awaited(d),
         config \in Override => config = d /\ goal = "probe",
         d = "pc_restart" => Awaited(d),
         config = "all" => d = "pc_restart"
  PROVE  DrillInv'
<1>1. /\ thread' = [e \in Drills |-> thread'[e]] /\ (thread'[d].stage = goal \/ goal = "done")
      /\ \A e \in Drills \ {d} : thread'[e] = thread[e]
  BY GoesOn
<1>2. d \in Owners
  BY DrillNames
<1>3. /\ host' \in Hosts
      /\ host'.python = "down" /\ host'.terminal = host.terminal /\ host'.nine = host.nine
      /\ host'.others = host.others /\ (config # "all" => host'.web = host.web)
      /\ script[d] = "none" /\ script' \in [Owners -> Configs]
      /\ script'[d] = config /\ \A q \in Owners \ {d} : script'[q] = script[q]
  BY <1>2, ListenerKilled
<1>4. DrillTypes'
  BY <1>1, <1>3, GoesOn DEF DrillInv, DrillTypes
<1>5. EarlyAwaited'
  BY ThreadKeepsAwaited
<1>6. BrokenAwaited'
  BY <1>1, <1>3 DEF DrillInv, BrokenAwaited
<1>7. PythonOwned'
  <2>1. "down" \notin Override /\ config \notin {"none", "web"}
    BY DrillNames
  <2>2. CASE d = "pc_restart"
    BY <1>3, <2>1, <2>2 DEF PythonOwned, Awaited, InHand, Current
  <2>3. CASE d # "pc_restart"
    BY <1>2, <1>3, <2>1, <2>3 DEF PythonOwned
  <2> QED BY <2>2, <2>3
<1>8. \A e \in Drills : thread[e].stage = "start" => thread'[e] = thread[e]
  BY <1>1
<1>9. TerminalOwned'
  BY <1>3, <1>8, DrillNames DEF DrillInv, TerminalOwned
<1>10. RouterOwned'
  BY <1>3, <1>8, DrillNames DEF DrillInv, RouterOwned
<1>11. WebOwned'
  <2>1. CASE d = "pc_restart"
    BY <2>1 DEF WebOwned, Awaited, InHand, Current
  <2>2. CASE d # "pc_restart"
    <3>1. script'["runner"] = script["runner"]
      BY <1>3, DrillNames
    <3> QED BY <1>3, <2>2, <3>1 DEF DrillInv, WebOwned, InHand, Current
  <2> QED BY <2>1, <2>2
<1> QED BY <1>4, <1>5, <1>6, <1>7, <1>9, <1>10, <1>11 DEF DrillInv

\* A thread that only judges what it sees leaves the host and the scripts alone.
LEMMA JudgingKeeps ==
  ASSUME DrillInv, NEW d \in Drills, NEW goal, NEW ok,
         thread[d].stage \in {"probe", "judge", "wait"}, script[d] = "none" \/ d = "pc_restart",
         Goes(d, goal, ok), goal \notin Early,
         runner' = runner, host' = host, script' = script
  PROVE  DrillInv'
<1>1. /\ thread' = [e \in Drills |-> thread'[e]]
      /\ \A e \in Drills \ {d} : thread'[e] = thread[e]
  BY GoesOn
<1>2. EarlyAwaited'
  BY ThreadKeepsAwaited
<1>3. BrokenAwaited'
  <2>1. \A o \in Owners : script[o] \in Override => o # d
    BY DrillNames DEF DrillInv, BrokenAwaited
  <2> QED BY <1>1, <2>1 DEF DrillInv, BrokenAwaited
<1>4. \A e \in Drills : thread[e].stage = "start" => thread'[e] = thread[e]
  BY <1>1
<1>5. TerminalOwned' /\ RouterOwned'
  BY <1>4, DrillNames DEF DrillInv, TerminalOwned, RouterOwned
<1>6. DrillTypes' /\ PythonOwned' /\ WebOwned'
  BY <1>1 DEF DrillInv, DrillTypes, PythonOwned, WebOwned, PythonUp, InHand, Current
<1> QED BY <1>2, <1>3, <1>5, <1>6 DEF DrillInv

LEMMA ThreadStepsKeep ==
  ASSUME DrillInv,
         \/ RestartAll \/ WaitForStack
         \/ \E d \in Override : ApplyOverride(d) \/ Probe(d) \/ RestoreConfig(d) \/ Judge(d)
  PROVE  DrillInv'
<1>1. "pc_restart" \in Drills /\ "pc_restart" \notin Override /\ Override \subseteq Drills
  BY DrillNames
<1>2. \A d \in Drills : thread[d].stage \in Early => Awaited(d)
  BY DEF DrillInv, EarlyAwaited
<1>3. CASE RestartAll
  <2>1. /\ thread["pc_restart"].stage = "restart" /\ KillListener("pc_restart", "all")
        /\ Goes("pc_restart", "wait", TRUE) /\ runner' = runner
    BY <1>3 DEF RestartAll, InStage
  <2>2. Awaited("pc_restart")
    BY <1>1, <1>2, <2>1 DEF Early
  <2>3. /\ "all" \in {"normal", "all"} \cup Override /\ "all" \notin Override
        /\ thread["pc_restart"].stage \in {"override", "restore", "restart"}
    BY <2>1, DrillNames
  <2>4. PICK ok : Goes("pc_restart", "wait", ok)
    BY <2>1
  <2> QED BY <1>1, <2>1, <2>2, <2>3, <2>4, KillKeeps
<1>4. CASE WaitForStack
  <2>1. /\ thread["pc_restart"].stage = "wait" /\ Goes("pc_restart", "done", AllHealthy)
        /\ UNCHANGED <<runner, host, script>>
    BY <1>4 DEF WaitForStack, InStage
  <2> QED BY <1>1, <2>1, JudgingKeeps DEF Early
<1>5. ASSUME NEW d \in Override, ApplyOverride(d)
      PROVE  DrillInv'
  <2>1. /\ thread[d].stage = "override" /\ KillListener(d, d) /\ Goes(d, "probe", TRUE)
        /\ runner' = runner
    BY <1>5 DEF ApplyOverride, InStage
  <2>2. Awaited(d)
    BY <1>1, <1>2, <2>1 DEF Early
  <2>3. d \in {"normal", "all"} \cup Override /\ thread[d].stage \in {"override", "restore", "restart"}
    BY <2>1
  <2>4. /\ d \in Drills /\ Awaited(d) /\ d # "pc_restart" /\ d # "all"
    BY <1>1, <2>2, DrillNames
  <2>5. \A goal, ok : Goes(d, goal, ok) /\ goal = "probe" => DrillInv'
    <3> SUFFICES ASSUME NEW goal, NEW ok, Goes(d, goal, ok), goal = "probe"
                 PROVE  DrillInv'
      OBVIOUS
    <3>1. /\ goal \in Early => Awaited(d)
          /\ d \in Override => d = d /\ goal = "probe"
          /\ d = "pc_restart" => Awaited(d)
          /\ d = "all" => d = "pc_restart"
      BY <2>4
    <3>2. thread[d].stage \in {"override", "restore", "restart"} /\ KillListener(d, d) /\ runner' = runner
      BY <2>1
    <3> QED BY <2>3, <2>4, <3>1, <3>2, KillKeeps
  <2> QED BY <2>1, <2>5
<1>6. ASSUME NEW d \in Override, Probe(d)
      PROVE  DrillInv'
  <2>1. /\ thread[d].stage = "probe" /\ script[d] = "none" /\ UNCHANGED <<runner, host, script>>
    BY <1>6 DEF Probe, InStage
  <2>2. PICK readable \in BOOLEAN :
          Goes(d, "restore",
               PythonUp /\ IF d = "llm_failure" THEN host.python = d \/ ~host.nine
                           ELSE readable => host.python = d)
    BY <1>6 DEF Probe
  <2> QED BY <1>1, <2>1, <2>2, JudgingKeeps DEF Early
<1>7. ASSUME NEW d \in Override, RestoreConfig(d)
      PROVE  DrillInv'
  <2>1. /\ thread[d].stage = "restore" /\ KillListener(d, "normal")
        /\ Goes(d, "judge", thread[d].ok) /\ runner' = runner
    BY <1>7 DEF RestoreConfig, InStage
  <2>2. "judge" \notin Early /\ "normal" \notin Override /\ d # "pc_restart"
    BY <1>1, DrillNames DEF Early
  <2> QED BY <1>1, <2>1, <2>2, KillKeeps
<1>8. ASSUME NEW d \in Override, Judge(d)
      PROVE  DrillInv'
  <2>1. /\ thread[d].stage = "judge" /\ script[d] = "none"
        /\ Goes(d, "done", thread[d].ok /\ PythonUp) /\ UNCHANGED <<runner, host, script>>
    BY <1>8 DEF Judge, InStage
  <2> QED BY <1>1, <2>1, JudgingKeeps DEF Early
<1> QED BY <1>3, <1>4, <1>5, <1>6, <1>7, <1>8

\* A step of the runner outside a drill and its rollback: nothing is owned by a drill,
\* before or after.
LEMMA BetweenDrillsKeeps ==
  ASSUME DrillInv, runner.step \notin {"join", "rollback"}, UNCHANGED <<host, script>>,
         runner' \in [step : Steps, todo : Seq(Drills), status : {"failed", "passed"}],
         runner'.step # "ended" => runner'.todo # <<>>,
         thread' = [d \in Drills |-> thread'[d]],
         \A d \in Drills : thread'[d].stage \in Early \cup {"done"} => Awaited(d)'
  PROVE  DrillInv'
<1>1. /\ host.nine /\ host.terminal
      /\ \A o \in Owners : script[o] \notin Override
  BY NothingCut
<1>2. /\ host.python \notin Override
      /\ ~PythonUp => \E o \in Owners \ {"pc_restart"} : script[o] \notin {"none", "web"}
      /\ ~host.web => script["runner"] \in {"all", "web"}
  BY DEF DrillInv, PythonOwned, WebOwned, InHand
<1>3. DrillTypes'
  BY DEF DrillInv, DrillTypes
<1>4. EarlyAwaited' /\ BrokenAwaited'
  BY <1>1 DEF EarlyAwaited, BrokenAwaited
<1>5. PythonOwned' /\ WebOwned' /\ TerminalOwned' /\ RouterOwned'
  BY <1>1, <1>2 DEF PythonOwned, WebOwned, TerminalOwned, RouterOwned, PythonUp
<1> QED BY <1>3, <1>4, <1>5 DEF DrillInv

\* Ending the process takes every thread off.
LEMMA ThreadsOffOk ==
  /\ ThreadsOff = [d \in Drills |-> ThreadsOff[d]]
  /\ \A d \in Drills : ThreadsOff[d].stage \notin Early \cup {"done"}
  BY DEF ThreadsOff, Early

LEMMA PreflightKeeps ==
  ASSUME DrillInv, Preflight
  PROVE  DrillInv'
<1>1. runner.step = "preflight" /\ UNCHANGED <<host, script>>
  BY DEF Preflight
<1>2. /\ runner \in [step : Steps, todo : Seq(Drills), status : {"failed", "passed"}]
      /\ runner.todo # <<>> /\ thread = [d \in Drills |-> thread[d]]
  BY <1>1 DEF DrillInv, DrillTypes
<1>3. Current \in Drills
  BY <1>2 DEF Current
<1>4. \A d \in Drills : thread[d].stage \notin Early \cup {"done"}
  BY <1>1, NothingCut
<1>5. CASE AllHealthy
  <2>1. /\ runner' = [runner EXCEPT !.step = "join", !.status = "failed"]
        /\ Goes(Current, Stages(Current)[1], TRUE)
    BY <1>5 DEF Preflight
  <2>2. PICK d \in Drills : d = Current
    BY <1>3
  <2>3. PICK goal : goal = Stages(Current)[1]
    OBVIOUS
  <2>4. PICK ok : Goes(d, goal, ok)
    BY <2>1, <2>2, <2>3 DEF Goes, Awaited
  <2>5. /\ thread' = [e \in Drills |-> thread'[e]]
        /\ \A e \in Drills \ {d} : thread'[e] = thread[e]
    BY <2>4, GoesOn
  <2>6. /\ runner' \in [step : Steps, todo : Seq(Drills), status : {"failed", "passed"}]
        /\ runner'.step = "join" /\ runner'.todo = runner.todo
    BY <1>2, <2>1 DEF Steps
  <2>7. Awaited(d)'
    BY <2>2, <2>6 DEF Awaited, Current
  <2>8. \A e \in Drills : thread'[e].stage \in Early \cup {"done"} => e = d
    BY <1>4, <2>5
  <2>9. \A e \in Drills : thread'[e].stage \in Early \cup {"done"} => Awaited(e)'
    BY <2>7, <2>8 DEF Awaited, Current
  <2> QED BY <1>1, <1>2, <2>5, <2>6, <2>9, BetweenDrillsKeeps
<1>6. CASE ~AllHealthy
  <2>1. runner' = [runner EXCEPT !.step = "record", !.status = "failed"] /\ thread' = thread
    BY <1>6 DEF Preflight
  <2>2. /\ runner' \in [step : Steps, todo : Seq(Drills), status : {"failed", "passed"}]
        /\ runner'.todo = runner.todo
    BY <1>2, <2>1 DEF Steps
  <2> QED BY <1>1, <1>2, <1>4, <2>1, <2>2, BetweenDrillsKeeps
<1> QED BY <1>5, <1>6

LEMMA RecordingKeeps ==
  ASSUME DrillInv, Invoke \/ VerifyAfter \/ RecordDrill \/ AppendFails
  PROVE  DrillInv'
<1>1. /\ runner \in [step : Steps, todo : Seq(Drills), status : {"failed", "passed"}]
      /\ runner.step # "ended" => runner.todo # <<>>
      /\ thread = [d \in Drills |-> thread[d]]
  BY DEF DrillInv, DrillTypes
<1>2. runner.step \notin {"join", "rollback"} /\ UNCHANGED <<host, script>>
  BY DEF Invoke, VerifyAfter, RecordDrill, AppendFails
<1>3. \A d \in Drills : thread[d].stage \notin Early \cup {"done"}
  BY <1>2, NothingCut
<1>4. CASE Invoke
  <2>1. PICK todo \in {Order} \cup {<<d>> : d \in Drills} :
          runner' = [step |-> "preflight", todo |-> todo, status |-> "failed"]
    BY <1>4 DEF Invoke
  <2>2. todo \in Seq(Drills) /\ todo # <<>>
    BY InvokedDrills
  <2>3. thread' = thread
    BY <1>4 DEF Invoke
  <2>4. /\ runner' \in [step : Steps, todo : Seq(Drills), status : {"failed", "passed"}]
        /\ runner'.todo # <<>>
    BY <2>1, <2>2 DEF Steps
  <2> QED BY <1>1, <1>2, <1>3, <2>3, <2>4, BetweenDrillsKeeps
<1>5. CASE VerifyAfter
  <2>1. /\ runner' = [runner EXCEPT !.step = "record",
                         !.status = IF AllHealthy THEN @ ELSE "failed"]
        /\ thread' = thread /\ runner.step = "verify"
    BY <1>5 DEF VerifyAfter
  <2>2. /\ runner' \in [step : Steps, todo : Seq(Drills), status : {"failed", "passed"}]
        /\ runner'.todo # <<>>
    BY <1>1, <2>1 DEF Steps
  <2> QED BY <1>1, <1>2, <1>3, <2>1, <2>2, BetweenDrillsKeeps
<1>6. CASE RecordDrill /\ Len(runner.todo) > 1
  <2>1. /\ runner' = [step |-> "preflight", todo |-> Tail(runner.todo), status |-> "failed"]
        /\ thread' = thread
    BY <1>6 DEF RecordDrill
  <2>2. Tail(runner.todo) \in Seq(Drills) /\ Tail(runner.todo) # <<>>
    <3>1. runner.todo \in Seq(Drills) /\ Len(runner.todo) > 1 /\ runner.todo # <<>>
      BY <1>1, <1>6
    <3> DEFINE todo == runner.todo
    <3>2. todo \in Seq(Drills) /\ Len(todo) > 1 /\ todo # <<>>
      BY <3>1
    <3> HIDE DEF todo
    <3>3. Tail(todo) \in Seq(Drills) /\ Len(Tail(todo)) = Len(todo) - 1
      BY <3>2
    <3>4. Len(Tail(todo)) # 0
      <4>1. Len(todo) \in Nat
        BY <3>2
      <4> DEFINE n == Len(todo)
                 m == Len(Tail(todo))
      <4>2. n \in Nat /\ n > 1 /\ m = n - 1
        BY <3>2, <3>3, <4>1
      <4> HIDE DEF n, m
      <4>3. m # 0
        BY <4>2
      <4> QED BY <4>3 DEF m
    <3>5. Tail(todo) # <<>>
      <4>1. Len(<<>>) = 0
        OBVIOUS
      <4> QED BY <3>4, <4>1, Zenon
    <3> QED BY <3>3, <3>5 DEF todo
  <2>3. /\ runner' \in [step : Steps, todo : Seq(Drills), status : {"failed", "passed"}]
        /\ runner'.todo # <<>>
    BY <2>1, <2>2 DEF Steps
  <2> QED BY <1>1, <1>2, <1>3, <2>1, <2>3, BetweenDrillsKeeps
<1>7. CASE AppendFails \/ (RecordDrill /\ ~(Len(runner.todo) > 1))
  <2>1. /\ runner' = [step |-> "ended", todo |-> <<>>, status |-> "failed"]
        /\ thread' = ThreadsOff
    BY <1>7 DEF AppendFails, RecordDrill
  <2>2. /\ runner' \in [step : Steps, todo : Seq(Drills), status : {"failed", "passed"}]
        /\ runner'.step = "ended"
    BY <2>1 DEF Steps
  <2>3. /\ thread' = [d \in Drills |-> thread'[d]]
        /\ \A d \in Drills : thread'[d].stage \notin Early \cup {"done"}
    BY <2>1, ThreadsOffOk
  <2> QED BY <1>2, <2>2, <2>3, BetweenDrillsKeeps
<1> QED BY <1>4, <1>5, <1>6, <1>7

\* The drill returned or was left behind in a stage that broke nothing: its rollback
\* is next.
LEMMA ToRollback ==
  ASSUME DrillInv, DrillTimeout >= 270, Join \/ TimeOut
  PROVE  DrillInv'
<1>1. /\ runner \in [step : Steps, todo : Seq(Drills), status : {"failed", "passed"}]
      /\ runner.todo # <<>> /\ thread = [d \in Drills |-> thread[d]] /\ runner.step = "join"
  BY DEF DrillInv, DrillTypes, Join, TimeOut
<1>2. PICK d \in Drills : d = Current
  BY <1>1 DEF Current
<1>3. UNCHANGED <<host, script>>
  BY DEF Join, TimeOut
<1>4. /\ runner' \in [step : Steps, todo : Seq(Drills), status : {"failed", "passed"}]
      /\ runner'.step = "rollback" /\ runner'.todo = runner.todo
  <2>1. CASE Join
    BY <1>1, <2>1 DEF Join, Steps
  <2>2. CASE TimeOut
    BY <1>1, <2>2 DEF TimeOut, Steps
  <2> QED BY <2>1, <2>2
<1>5. /\ thread[d].stage \notin Early
      /\ thread' = [e \in Drills |-> thread'[e]]
      /\ \A e \in Drills \ {d} : thread'[e] = thread[e]
      /\ thread'[d].stage \notin Early \cup {"done"}
  <2>1. CASE Join
    <3>1. thread[d].stage = "done" /\ Goes(Current, "off", FALSE)
      BY <1>2, <2>1 DEF Join
    <3>2. PICK ok : Goes(d, "off", ok)
      BY <1>2, <3>1 DEF Goes, Awaited
    <3> QED BY <3>1, <3>2, GoesOn DEF Early
  <2>2. CASE TimeOut
    <3>1. thread' = thread /\ Late(d)
      BY <1>2, <2>2 DEF TimeOut, Late
    <3>2. thread[d].stage \notin Early
      BY <3>1, EarlyIsInTime
    <3>3. thread[d].stage # "done"
      <4>1. "done" \notin DOMAIN LongestFor(d)
        BY DEF LongestFor, Override, Terminal
      <4> QED BY <3>1, <4>1 DEF Late
    <3> QED BY <1>1, <3>1, <3>2, <3>3
  <2> QED BY <2>1, <2>2
<1>6. \A e \in Drills : thread[e].stage \in Early \cup {"done"} => e = d
  BY <1>2 DEF DrillInv, EarlyAwaited, Awaited
<1>7. /\ \A e \in Drills : thread[e].stage \notin Early
      /\ \A e \in Drills : thread'[e].stage \notin Early \cup {"done"}
  BY <1>5, <1>6
<1>8. \A o \in Owners : script[o] \notin Override
  BY <1>7 DEF DrillInv, BrokenAwaited, Early
<1>9. host.nine /\ host.terminal
  BY <1>7, DrillNames DEF DrillInv, RouterOwned, TerminalOwned, Early
<1>10. DrillTypes'
  BY <1>1, <1>3, <1>4, <1>5 DEF DrillInv, DrillTypes
<1>11. EarlyAwaited' /\ BrokenAwaited' /\ RouterOwned'
  BY <1>3, <1>7, <1>8, <1>9 DEF EarlyAwaited, BrokenAwaited, RouterOwned
<1>12. PythonOwned' /\ WebOwned'
  BY <1>3, <1>1, <1>4 DEF DrillInv, PythonOwned, WebOwned, PythonUp, InHand, Current
<1>13. TerminalOwned'
  BY <1>3, <1>9 DEF TerminalOwned
<1> QED BY <1>10, <1>11, <1>12, <1>13 DEF DrillInv

\* The rollback takes over what its drill left: the terminal, the router, a service
\* stopped or served with a broken setting.
LEMMA RollbackKeeps ==
  ASSUME DrillInv, Rollback
  PROVE  DrillInv'
<1>1. /\ runner \in [step : Steps, todo : Seq(Drills), status : {"failed", "passed"}]
      /\ runner.todo # <<>> /\ thread = [d \in Drills |-> thread[d]]
      /\ runner.step = "rollback" /\ thread' = thread
      /\ runner' = [runner EXCEPT !.step = "verify"]
  BY DEF DrillInv, DrillTypes, Rollback
<1>2. /\ host \in Hosts
      /\ script \in [Owners -> Configs]
  BY DEF DrillInv, DrillTypes
<1>3. PICK d \in Drills : d = Current
  BY <1>1 DEF Current
<1>4. /\ runner' \in [step : Steps, todo : Seq(Drills), status : {"failed", "passed"}]
      /\ runner'.step = "verify" /\ runner'.todo = runner.todo
  BY <1>1 DEF Steps
<1>5. /\ host.nine /\ host.terminal
      /\ \A o \in Owners : script[o] \notin Override
      /\ \A e \in Drills : thread[e].stage \notin Early \cup {"done"}
  BY <1>1, NothingCut
<1>6. "runner" \in Owners \ {"pc_restart"} /\ "normal" \notin Override /\ "none" \notin Override
      /\ "down" \notin Override
  BY DrillNames
<1>7. EarlyAwaited'
  BY <1>1, <1>5 DEF EarlyAwaited
<1>8. \A e : InHand(e) => e = d
  BY <1>3 DEF InHand
<1>9. ~host.web /\ d # "pc_restart" => script["runner"] \in {"all", "web"}
  BY <1>8 DEF DrillInv, WebOwned
<1>10. /\ host.python \in Override => d = host.python
       /\ ~PythonUp /\ d # "pc_restart" =>
            \E o \in Owners \ {"pc_restart"} : script[o] \notin {"none", "web"}
  BY <1>8 DEF DrillInv, PythonOwned
<1>11. CASE d \in Override
  <2>1. KillListener("runner", "normal")
    BY <1>3, <1>11, DrillNames DEF Rollback
  <2>2. /\ script' \in [Owners -> Configs] /\ script["runner"] = "none"
        /\ script'["runner"] = "normal"
        /\ \A o \in Owners \ {"runner"} : script'[o] = script[o]
        /\ host' \in Hosts /\ host'.python = "down" /\ host'.terminal /\ host'.nine
        /\ host'.web = host.web
    <3>1. "runner" \in Owners /\ "normal" \in {"normal", "all"} \cup Override
      BY <1>6
    <3>2. PICK config \in {"normal", "all"} \cup Override : config = "normal"
      BY <3>1
    <3>3. KillListener("runner", config)
      BY <2>1, <3>2
    <3>4. /\ host' \in Hosts /\ host'.python = "down" /\ host'.terminal = host.terminal
          /\ host'.nine = host.nine /\ (config # "all" => host'.web = host.web)
          /\ script["runner"] = "none" /\ script' \in [Owners -> Configs]
          /\ script'["runner"] = config
          /\ \A o \in Owners \ {"runner"} : script'[o] = script[o]
      BY <3>1, <3>3, ListenerKilled
    <3> QED BY <1>5, <3>2, <3>4
  <2>3. DrillTypes'
    BY <1>1, <1>4, <2>2 DEF DrillTypes
  <2>4. BrokenAwaited' /\ PythonOwned'
    BY <1>5, <1>6, <2>2 DEF BrokenAwaited, PythonOwned
  <2>5. WebOwned'
    BY <1>9, <1>11, <2>2, DrillNames DEF WebOwned
  <2>6. TerminalOwned' /\ RouterOwned'
    BY <2>2 DEF TerminalOwned, RouterOwned
  <2> QED BY <1>7, <2>3, <2>4, <2>5, <2>6 DEF DrillInv
<1>12. CASE d = "pc_restart"
  <2>1. /\ script' = [script EXCEPT !["runner"] = IF AllHealthy THEN @ ELSE "all"]
        /\ host' = host
    BY <1>3, <1>12, DrillNames DEF Rollback
  <2>2. /\ script' \in [Owners -> Configs]
        /\ \A o \in Owners \ {"runner"} : script'[o] = script[o]
        /\ script'["runner"] = IF AllHealthy THEN script["runner"] ELSE "all"
    BY <1>2, <1>6, <2>1 DEF Configs
  <2>3. DrillTypes'
    BY <1>1, <1>2, <1>4, <2>1, <2>2 DEF DrillTypes
  <2>4. BrokenAwaited'
    BY <1>5, <1>6, <2>2, DrillNames DEF BrokenAwaited
  <2>5. host.python \notin Override
    BY <1>10, <1>12, DrillNames
  <2>6. PythonOwned' /\ WebOwned'
    BY <1>6, <2>1, <2>2, <2>5 DEF PythonOwned, WebOwned, AllHealthy, PythonUp
  <2>7. TerminalOwned' /\ RouterOwned'
    BY <1>5, <2>1 DEF TerminalOwned, RouterOwned
  <2> QED BY <1>7, <2>3, <2>4, <2>6, <2>7 DEF DrillInv
<1>13. CASE d \in Terminal \cup {"nine_router_failure"}
  <2>1. script' = script
    BY <1>3, <1>13, DrillNames DEF Rollback
  <2>2. /\ host' \in Hosts /\ host'.python = host.python /\ host'.web = host.web
        /\ host'.terminal /\ host'.nine
    <3>1. CASE d \in Terminal
      <4> DEFINE started == [host EXCEPT !.terminal = host.terminal \/ ~host.others]
      <4>1. started = host
        BY <1>2, <1>5 DEF Hosts
      <4>2. PICK attached \in Bindings(started) : host' = [started EXCEPT !.bound = attached]
        BY <1>3, <3>1, DrillNames DEF Rollback
      <4>3. attached \in BOOLEAN /\ host' = [host EXCEPT !.bound = attached]
        BY <1>2, <4>1, <4>2 DEF Bindings, Hosts
      <4> QED BY <1>2, <1>5, <4>3 DEF Hosts
    <3>2. CASE d = "nine_router_failure"
      <4>1. host' = [host EXCEPT !.nine = TRUE]
        BY <1>3, <3>2, DrillNames DEF Rollback
      <4> QED BY <1>2, <1>5, <4>1 DEF Hosts
    <3> QED BY <1>13, <3>1, <3>2
  <2>3. DrillTypes'
    BY <1>1, <1>2, <1>4, <2>1, <2>2 DEF DrillTypes
  <2>4. BrokenAwaited'
    BY <1>5, <2>1 DEF BrokenAwaited
  <2>5. host.python \notin Override /\ d # "pc_restart"
    BY <1>10, <1>13, DrillNames
  <2>6. PythonOwned' /\ WebOwned'
    BY <1>9, <1>10, <2>1, <2>2, <2>5 DEF PythonOwned, WebOwned, PythonUp
  <2>7. TerminalOwned' /\ RouterOwned'
    BY <2>2 DEF TerminalOwned, RouterOwned
  <2> QED BY <1>7, <2>3, <2>4, <2>6, <2>7 DEF DrillInv
<1> QED BY <1>3, <1>11, <1>12, <1>13, DrillNames

\* When the script has ended and no restart is under way, the services, the router and the
\* selected terminal run, the trading service with its own configuration, whichever drills
\* were abandoned at a deadline of 270 seconds or more (_with_timeout, run_one's "finally";
\* the default deadline is 300 seconds) and whichever re-attachments failed.
THEOREM ServicesRestoredHolds ==
  ASSUME DrillTimeout >= 270
  PROVE  OpsDrillsSpec => []ServicesRestored
<1>1. OpsInit => DrillInv
  <2>1. OpsInit => DrillTypes
    BY DrillNames DEF OpsInit, DrillTypes, Steps, Whole, Hosts, Configs
  <2>2. OpsInit => EarlyAwaited /\ BrokenAwaited
    BY DrillNames DEF OpsInit, EarlyAwaited, BrokenAwaited, Early
  <2>3. OpsInit => PythonOwned /\ WebOwned /\ TerminalOwned /\ RouterOwned
    BY DrillNames DEF OpsInit, PythonOwned, WebOwned, TerminalOwned, RouterOwned, PythonUp, Whole
  <2> QED BY <2>1, <2>2, <2>3 DEF DrillInv
<1>2. DrillInv /\ [OpsDrillsNext]_drillVars => DrillInv'
  <2>1. DrillInv /\ UNCHANGED drillVars => DrillInv'
    BY DEF drillVars, DrillInv, DrillTypes, EarlyAwaited, BrokenAwaited, PythonOwned, WebOwned,
           TerminalOwned, RouterOwned, Awaited, InHand, Current, PythonUp
  <2> QED BY <2>1, StartServiceKeeps, StartWebKeeps, CutScriptKeeps, CutOffKeeps, StartBackKeeps,
             AttachKeeps, ThreadStepsKeep, PreflightKeeps, RecordingKeeps, ToRollback, RollbackKeeps
          DEF OpsDrillsNext
<1>3. DrillInv => ServicesRestored
  <2>1. SUFFICES ASSUME DrillInv, runner.step = "ended", \A o \in Owners : script[o] = "none"
        PROVE  host.python = "normal" /\ host.web /\ host.nine /\ host.terminal
    BY DEF ServicesRestored, Quiet
  <2>2. host.nine /\ host.terminal
    BY <2>1, NothingCut
  <2>3. PythonUp /\ host.python \notin Override
    BY <2>1 DEF DrillInv, PythonOwned, InHand
  <2>4. host.web
    BY <2>1, DrillNames DEF DrillInv, WebOwned, InHand
  <2>5. host \in Hosts
    BY <2>1 DEF DrillInv, DrillTypes
  <2> QED BY <2>2, <2>3, <2>4, <2>5 DEF PythonUp, Hosts
<1> QED BY <1>1, <1>2, <1>3, PTL DEF OpsDrillsSpec

-----------------------------------------------------------------------------
(* Paper trading.  The balance is a sum over the history, so the proof     *)
(* first shows what the running sums of a sequence are: they exist, are    *)
(* integers, and one more row adds its P&L to the total.  Each of the      *)
(* three looks at the first length at which it might fail.                 *)

\* f holds the running sums of the first n rows.
Sums(f, rows, n) ==
  f = [i \in 0..n |-> IF i = 0 THEN 0 ELSE f[i - 1] + rows[i].pnl]

LEMMA SumsExist ==
  ASSUME NEW rows, NEW n \in Nat
  PROVE  \E f : Sums(f, rows, n)
<1> DEFINE Bad == {k \in Nat : ~ \E f : Sums(f, rows, k)}
<1> SUFFICES ASSUME Bad # {} PROVE FALSE
  OBVIOUS
<1>1. PICK k \in Bad : \A j \in Bad : k =< j
  BY LeastElement
<1>2. CASE k = 0
  <2> DEFINE f == [i \in 0..k |-> 0]
  <2>1. Sums(f, rows, k)
    BY <1>2 DEF Sums
  <2> QED BY <1>1, <2>1
<1>3. CASE k # 0
  <2>1. k \in Nat /\ k - 1 \in Nat /\ k - 1 \notin Bad
    BY <1>1, <1>3
  <2>2. PICK g : Sums(g, rows, k - 1)
    BY <2>1
  <2>3. \A i \in 0..(k - 1) : g[i] = IF i = 0 THEN 0 ELSE g[i - 1] + rows[i].pnl
    BY <2>2 DEF Sums
  <2> DEFINE f == [i \in 0..k |-> IF i = k THEN g[k - 1] + rows[k].pnl ELSE g[i]]
  <2>4. \A i \in 0..k : f[i] = IF i = 0 THEN 0 ELSE f[i - 1] + rows[i].pnl
    <3> SUFFICES ASSUME NEW i \in 0..k
                 PROVE  f[i] = IF i = 0 THEN 0 ELSE f[i - 1] + rows[i].pnl
      OBVIOUS
    <3>1. CASE i = k
      <4>1. f[i - 1] = g[k - 1] /\ f[i] = g[k - 1] + rows[k].pnl
        BY <2>1, <3>1
      <4> QED BY <1>3, <3>1, <4>1
    <3>2. CASE i # k
      <4>1. i \in 0..(k - 1) /\ f[i] = g[i] /\ (i # 0 => f[i - 1] = g[i - 1])
        BY <2>1, <3>2
      <4> QED BY <2>3, <4>1
    <3> QED BY <3>1, <3>2
  <2>5. Sums(f, rows, k)
    <3>1. DOMAIN f = 0..k /\ f = [i \in 0..k |-> f[i]]
      OBVIOUS
    <3> HIDE DEF f
    <3> QED BY <2>4, <3>1 DEF Sums
  <2> QED BY <1>1, <2>5
<1> QED BY <1>2, <1>3

LEMMA SumsAreInt ==
  ASSUME NEW rows, NEW n \in Nat, \A i \in 1..n : rows[i].pnl \in Int,
         NEW f, Sums(f, rows, n)
  PROVE  \A i \in 0..n : f[i] \in Int
<1> DEFINE Bad == {k \in Nat : k <= n /\ f[k] \notin Int}
<1> SUFFICES ASSUME Bad # {} PROVE FALSE
  OBVIOUS
<1>1. PICK k \in Bad : \A j \in Bad : k =< j
  BY LeastElement
<1>2. f[k] = IF k = 0 THEN 0 ELSE f[k - 1] + rows[k].pnl
  BY <1>1 DEF Sums
<1>3. k # 0 => f[k - 1] \in Int /\ rows[k].pnl \in Int
  BY <1>1
<1> QED BY <1>1, <1>2, <1>3

\* Two sequences that agree up to n have the same sums up to n.
LEMMA SumsAgree ==
  ASSUME NEW rows, NEW more, NEW n \in Nat, NEW m \in Nat, n <= m,
         \A i \in 1..n : more[i] = rows[i],
         NEW f, Sums(f, rows, n), NEW g, Sums(g, more, m)
  PROVE  \A i \in 0..n : g[i] = f[i]
<1> DEFINE Bad == {k \in Nat : k <= n /\ g[k] # f[k]}
<1> SUFFICES ASSUME Bad # {} PROVE FALSE
  OBVIOUS
<1>1. PICK k \in Bad : \A j \in Bad : k =< j
  BY LeastElement
<1>2. /\ f[k] = IF k = 0 THEN 0 ELSE f[k - 1] + rows[k].pnl
      /\ g[k] = IF k = 0 THEN 0 ELSE g[k - 1] + more[k].pnl
  BY <1>1 DEF Sums
<1>3. k # 0 => f[k - 1] = g[k - 1] /\ more[k] = rows[k]
  BY <1>1
<1> QED BY <1>1, <1>2, <1>3

\* TotalPnl is the last of the running sums.
LEMMA TotalIsLastSum ==
  ASSUME NEW rows, Len(rows) \in Nat
  PROVE  \E f : Sums(f, rows, Len(rows)) /\ TotalPnl(rows) = f[Len(rows)]
<1> DEFINE sum == CHOOSE f : Sums(f, rows, Len(rows))
<1>1. Sums(sum, rows, Len(rows))
  BY SumsExist
<1>2. TotalPnl(rows) = sum[Len(rows)]
  BY DEF TotalPnl, Sums
<1> QED BY <1>1, <1>2

LEMMA TotalOfNone == TotalPnl(<<>>) = 0
<1>1. Len(<<>>) = 0
  OBVIOUS
<1>2. PICK f : Sums(f, <<>>, 0) /\ TotalPnl(<<>>) = f[0]
  BY <1>1, TotalIsLastSum
<1> QED BY <1>2 DEF Sums

LEMMA TotalIsInt ==
  ASSUME NEW R, \A r \in R : r.pnl \in Int, NEW rows \in Seq(R)
  PROVE  TotalPnl(rows) \in Int
<1>1. Len(rows) \in Nat /\ \A i \in 1..Len(rows) : rows[i].pnl \in Int
  OBVIOUS
<1>2. PICK f : Sums(f, rows, Len(rows)) /\ TotalPnl(rows) = f[Len(rows)]
  BY <1>1, TotalIsLastSum
<1>3. f[Len(rows)] \in Int
  BY <1>1, <1>2, SumsAreInt
<1> QED BY <1>2, <1>3

LEMMA TotalOfOneMore ==
  ASSUME NEW R, NEW rows \in Seq(R), NEW row \in R
  PROVE  TotalPnl(Append(rows, row)) = TotalPnl(rows) + row.pnl
<1> DEFINE n == Len(rows)
           more == Append(rows, row)
<1>1. /\ n \in Nat /\ n + 1 \in Nat /\ Len(more) = n + 1 /\ more[n + 1] = row
      /\ \A i \in 1..n : more[i] = rows[i]
  OBVIOUS
<1> HIDE DEF more
<1>2. PICK f : Sums(f, rows, n) /\ TotalPnl(rows) = f[n]
  BY <1>1, TotalIsLastSum
<1>3. PICK g : Sums(g, more, n + 1) /\ TotalPnl(more) = g[n + 1]
  BY <1>1, TotalIsLastSum
<1>4. g[n] = f[n]
  <2>1. n <= n + 1 /\ n \in 0..n
    BY <1>1
  <2>2. \A i \in 0..n : g[i] = f[i]
    <3> HIDE DEF n
    <3> QED BY <1>1, <1>2, <1>3, <2>1, SumsAgree
  <2> QED BY <2>1, <2>2
<1>5. g[n + 1] = g[n] + more[n + 1].pnl
  <2>1. n + 1 \in 0..(n + 1) /\ n + 1 # 0 /\ (n + 1) - 1 = n
    BY <1>1
  <2> HIDE DEF n
  <2> QED BY <1>3, <2>1 DEF Sums
<1> QED BY <1>1, <1>2, <1>3, <1>4, <1>5 DEF more

Fills == [symbol : PaperSymbols, dir : Directions, entry : Int, size : Nat]
Holding == [symbol : PaperSymbols, dir : Directions, entry : Int, size : Nat, pnl : Int]
TradeRows == [kind : {"open", "close"}, pnl : Int]
Accounts == [balance : Int, equity : Int, peak : Int, daily : Int]

\* The inductive invariant: everything the account counts with is an integer, and
\* its balance is what its history says.
BooksInv ==
  /\ completed \in [PaperKeys -> Fills \cup {NoFill}]
  /\ result \in Fills \cup {NoFill}
  /\ holdings \in Seq(Holding)
  /\ history \in Seq(TradeRows)
  /\ account \in Accounts
  /\ account.balance = InitialBalance + Realised(history)

LEMMA ProductsAreInt == \A a, b \in Int : a * b \in Int
  OBVIOUS

LEMMA ProfitIsInt ==
  ASSUME NEW q \in Holding, NEW price \in PaperPrices, NEW contract \in ContractSizes
  PROVE  ProfitAt(q, price, contract) \in Int
<1>1. price - q.entry \in Int /\ q.dir \in Int /\ q.size \in Int /\ contract \in Int
  BY PaperAssumption DEF Holding, Directions
<1>2. (price - q.entry) * q.dir \in Int
  BY <1>1, ProductsAreInt
<1>3. ((price - q.entry) * q.dir) * q.size \in Int
  BY <1>1, <1>2, ProductsAreInt
<1>4. (((price - q.entry) * q.dir) * q.size) * contract \in Int
  BY <1>1, <1>3, ProductsAreInt
<1> QED BY <1>4 DEF ProfitAt

\* What a revaluation leaves and what it sets.
LEMMA RevaluedAccount ==
  ASSUME NEW a \in Accounts, NEW open \in Seq(Holding)
  PROVE  /\ Revalued(a, open) \in Accounts
         /\ Revalued(a, open).balance = a.balance
         /\ Revalued(a, open).equity = a.balance + Unrealised(open)
<1>1. Unrealised(open) \in Int
  BY TotalIsInt DEF Unrealised, Holding
<1>2. a.balance + Unrealised(open) \in Int
  BY <1>1 DEF Accounts
<1> DEFINE equity == a.balance + Unrealised(open)
<1> HIDE DEF equity
<1>3. Revalued(a, open) = [a EXCEPT !.equity = equity, !.peak = IF equity > @ THEN equity ELSE @]
  BY DEF Revalued, equity
<1>4. equity \in Int
  BY <1>2 DEF equity
<1>5. /\ Revalued(a, open) \in Accounts /\ Revalued(a, open).balance = a.balance
      /\ Revalued(a, open).equity = equity
  BY <1>3, <1>4 DEF Accounts
<1> QED BY <1>5 DEF equity

LEMMA BookedAccount ==
  ASSUME NEW a \in Accounts, NEW pnl \in Int
  PROVE  Booked(a, pnl) \in Accounts /\ Booked(a, pnl).balance = a.balance + pnl
<1>1. a.balance + pnl \in Int /\ a.daily + pnl \in Int
  BY DEF Accounts
<1>2. PICK balance, daily \in Int : balance = a.balance + pnl /\ daily = a.daily + pnl
  BY <1>1
<1>3. Booked(a, pnl) = [a EXCEPT !.balance = balance, !.daily = daily]
  BY <1>2 DEF Booked
<1>4. Booked(a, pnl) \in Accounts /\ Booked(a, pnl).balance = balance
  BY <1>3 DEF Accounts
<1> QED BY <1>2, <1>4

\* A row recorded in the history.
LEMMA RecordedRow ==
  ASSUME history \in Seq(TradeRows), NEW kind \in {"open", "close"}, NEW pnl \in Int,
         Recorded(kind, pnl)
  PROVE  /\ history' \in Seq(TradeRows)
         /\ Realised(history') = Realised(history) + pnl
         /\ Realised(history) \in Int
<1> DEFINE row == [kind |-> kind, pnl |-> pnl]
<1>1. row \in TradeRows /\ row.pnl = pnl /\ history' = Append(history, row)
  BY DEF TradeRows, Recorded
<1> HIDE DEF row
<1>2. TotalPnl(history') = TotalPnl(history) + pnl
  BY <1>1, TotalOfOneMore
<1>3. TotalPnl(history) \in Int
  BY TotalIsInt DEF TradeRows
<1> QED BY <1>1, <1>2, <1>3 DEF Realised

LEMMA FirstIsHeld ==
  ASSUME holdings \in Seq(Holding), NEW s, NEW d, FirstOf(s, d) > 0
  PROVE  FirstOf(s, d) \in 1..Len(holdings)
<1> DEFINE Found == {i \in 1..Len(holdings) : holdings[i].symbol = s /\ holdings[i].dir = d}
<1>1. FirstOf(s, d) = IF Found # {} THEN Min(Found) ELSE 0
  BY DEF FirstOf, SelectInSeq
<1>2. Found \in SUBSET Nat
  OBVIOUS
<1>3. Found # {} => Min(Found) \in Found
  <2> HIDE DEF Found
  <2> QED BY <1>2, LeastExists
<1> QED BY <1>1, <1>3

LEMMA OneLess ==
  ASSUME NEW open \in Seq(Holding), NEW i \in 1..Len(open)
  PROVE  RemoveAt(open, i) \in Seq(Holding)
<1>1. SubSeq(open, 1, i - 1) \in Seq(Holding) /\ SubSeq(open, i + 1, Len(open)) \in Seq(Holding)
  OBVIOUS
<1> QED BY <1>1 DEF RemoveAt

\* The close of a position: its P&L is booked, in the history too, and equity follows.
LEMMA CloseBalances ==
  ASSUME BooksInv, NEW s, NEW d, NEW price \in PaperPrices, ClosePosition(s, d, price)
  PROVE  /\ BooksInv'
         /\ account'.balance = InitialBalance + Realised(history')
         /\ account'.equity = account'.balance + Unrealised(holdings')
<1> DEFINE i == FirstOf(s, d)
           left == RemoveAt(holdings, i)
<1>1. i > 0 /\ holdings' = left /\ UNCHANGED <<completed, result>>
  BY DEF ClosePosition
<1>2. i \in 1..Len(holdings)
  BY <1>1, FirstIsHeld DEF BooksInv
<1> HIDE DEF i
<1>3. left \in Seq(Holding)
  BY <1>2, OneLess DEF BooksInv
<1>4. holdings[i] \in Holding
  BY <1>2 DEF BooksInv
<1>5. PICK contract \in ContractSizes :
        LET pnl == ProfitAt(holdings[i], price, contract)
        IN  /\ Recorded("close", pnl)
            /\ account' = Revalued(Booked(Revalued(account, left), pnl), left)
  BY DEF ClosePosition, i
<1>6. PICK pnl \in Int : /\ Recorded("close", pnl)
                         /\ account' = Revalued(Booked(Revalued(account, left), pnl), left)
  BY <1>4, <1>5, ProfitIsInt
<1>7. /\ history' \in Seq(TradeRows) /\ Realised(history') = Realised(history) + pnl
      /\ Realised(history) \in Int
  BY <1>6, RecordedRow DEF BooksInv
<1> DEFINE before == Revalued(account, left)
           booked == Booked(before, pnl)
<1> HIDE DEF left
<1>8. before \in Accounts /\ before.balance = account.balance
  BY <1>3, RevaluedAccount DEF BooksInv
<1> HIDE DEF before
<1>9. booked \in Accounts /\ booked.balance = account.balance + pnl
  BY <1>8, BookedAccount
<1> HIDE DEF booked
<1>10. account' = Revalued(booked, left)
  BY <1>6 DEF booked, before
<1>11. /\ account' \in Accounts /\ account'.balance = account.balance + pnl
       /\ account'.equity = booked.balance + Unrealised(left)
  BY <1>3, <1>9, <1>10, RevaluedAccount
<1>12. account'.balance = InitialBalance + Realised(history')
  <2>1. account.balance = InitialBalance + Realised(history) /\ InitialBalance \in Int
    BY PaperAssumption DEF BooksInv
  <2> QED BY <1>7, <1>11, <2>1
<1>13. account'.equity = account'.balance + Unrealised(holdings')
  BY <1>1, <1>9, <1>11
<1> QED BY <1>1, <1>3, <1>7, <1>11, <1>12, <1>13 DEF BooksInv

\* A booked fill is held and recorded at no profit.
LEMMA BookingBalances ==
  ASSUME BooksInv, UpdateAccount
  PROVE  BooksInv' /\ account'.balance = account.balance
<1> DEFINE held == [symbol |-> result.symbol, dir |-> result.dir,
                    entry |-> result.entry, size |-> result.size, pnl |-> 0]
<1>1. /\ result \in Fills /\ holdings' = Append(holdings, held) /\ Recorded("open", 0)
      /\ account' = Revalued(account, holdings') /\ UNCHANGED <<completed, result>>
  BY DEF UpdateAccount, BooksInv
<1>2. held \in Holding
  BY <1>1 DEF Fills, Holding
<1> HIDE DEF held
<1>3. holdings' \in Seq(Holding)
  BY <1>1, <1>2 DEF BooksInv
<1>4. /\ history' \in Seq(TradeRows) /\ Realised(history') = Realised(history) + 0
      /\ Realised(history) \in Int
  BY <1>1, RecordedRow DEF BooksInv
<1>5. account' \in Accounts /\ account'.balance = account.balance
  BY <1>1, <1>3, RevaluedAccount DEF BooksInv
<1>6. account'.balance = InitialBalance + Realised(history')
  BY <1>4, <1>5 DEF BooksInv
<1> QED BY <1>1, <1>3, <1>4, <1>5, <1>6 DEF BooksInv

LEMMA OrderBalances ==
  ASSUME BooksInv, NEW k \in PaperKeys, NEW s \in PaperSymbols, NEW d \in Directions,
         NEW l \in Lots, SimulateOrder(k, s, d, l)
  PROVE  BooksInv' /\ account' = account
<1>1. UNCHANGED <<holdings, history, account>>
  BY DEF SimulateOrder
<1>2. /\ result' \in Fills \cup {NoFill}
      /\ completed' \in [PaperKeys -> Fills \cup {NoFill}]
  <2>1. CASE UNCHANGED completed /\ result' \in {completed[k], NoFill}
    BY <2>1 DEF BooksInv
  <2>2. CASE ~(UNCHANGED completed /\ result' \in {completed[k], NoFill})
    <3>1. PICK mid \in PaperPrices, half \in HalfSpreads, slip \in Slippages :
            /\ result' = [symbol |-> s, dir |-> d, size |-> l,
                          entry |-> Slipped(Quoted(mid, d, half), d, slip)]
            /\ completed' = [completed EXCEPT ![k] = result']
      BY <2>2 DEF SimulateOrder
    <3>2. Slipped(Quoted(mid, d, half), d, slip) \in Int
      <4>1. mid \in Int /\ half \in Int /\ slip \in Int /\ d \in {1, -1}
        BY PaperAssumption DEF Directions
      <4> QED BY <4>1 DEF Slipped, Quoted
    <3>3. result' \in Fills
      BY <3>1, <3>2, PaperAssumption DEF Fills
    <3> QED BY <3>1, <3>3 DEF BooksInv
  <2> QED BY <2>1, <2>2
<1> QED BY <1>1, <1>2 DEF BooksInv

LEMMA PriceBalances ==
  ASSUME BooksInv, NEW i \in DOMAIN holdings, NEW price \in PaperPrices, UpdatePrice(i, price)
  PROVE  BooksInv' /\ account' = account
<1>1. UNCHANGED <<completed, result, history, account>>
  BY DEF UpdatePrice
<1>2. PICK contract \in ContractSizes :
        holdings' = [holdings EXCEPT ![i].pnl = ProfitAt(holdings[i], price, contract)]
  BY DEF UpdatePrice
<1>3. i \in 1..Len(holdings) /\ holdings[i] \in Holding
  BY DEF BooksInv
<1>4. PICK pnl \in Int : holdings' = [holdings EXCEPT ![i].pnl = pnl]
  BY <1>2, <1>3, ProfitIsInt
<1>5. [holdings[i] EXCEPT !.pnl = pnl] \in Holding
  BY <1>3 DEF Holding
<1>6. PICK row \in Holding : holdings' = [holdings EXCEPT ![i] = row]
  BY <1>4, <1>5
<1>7. holdings' \in Seq(Holding)
  BY <1>3, <1>6 DEF BooksInv
<1> QED BY <1>1, <1>7 DEF BooksInv

\* Whenever money is booked the balance is what the history says and the equity is
\* the balance with what is open, for any keys, prices, spreads, contract sizes and
\* lots, and however often a fill is booked (close_position, update_equity).
THEOREM PaperBooksBalanceHolds == PaperSpec => PaperBooksBalance
<1>1. PaperInit => BooksInv
  <2> SUFFICES ASSUME PaperInit PROVE BooksInv
    OBVIOUS
  <2>1. Realised(history) = 0
    BY TotalOfNone DEF PaperInit, Realised
  <2>2. InitialBalance \in Int
    BY PaperAssumption
  <2>3. account \in Accounts /\ account.balance = InitialBalance + Realised(history)
    BY <2>1, <2>2 DEF PaperInit, Accounts
  <2> QED BY <2>3 DEF PaperInit, BooksInv
<1>2. ASSUME BooksInv, [PaperNext]_paperVars
      PROVE  /\ BooksInv'
             /\ account'.balance # account.balance =>
                  /\ account'.balance = InitialBalance + Realised(history')
                  /\ account'.equity = account'.balance + Unrealised(holdings')
  <2>1. CASE UpdateEquity
    <3>1. account' = Revalued(account, holdings) /\ UNCHANGED <<completed, result, holdings, history>>
      BY <2>1 DEF UpdateEquity
    <3>2. account' \in Accounts /\ account'.balance = account.balance
      BY <1>2, <3>1, RevaluedAccount DEF BooksInv
    <3> QED BY <1>2, <3>1, <3>2 DEF BooksInv
  <2>2. CASE ResetDailyStats
    <3>1. account' = [account EXCEPT !.daily = 0] /\ UNCHANGED <<completed, result, holdings, history>>
      BY <2>2 DEF ResetDailyStats
    <3>2. account' \in Accounts /\ account'.balance = account.balance
      BY <1>2, <3>1 DEF BooksInv, Accounts
    <3> QED BY <1>2, <3>1, <3>2 DEF BooksInv
  <2>3. CASE UNCHANGED paperVars
    BY <1>2, <2>3 DEF paperVars, BooksInv
  <2> QED BY <1>2, <2>1, <2>2, <2>3, OrderBalances, BookingBalances, CloseBalances,
             PriceBalances DEF PaperNext
<1>3. [](BooksInv) /\ [][PaperNext]_paperVars => PaperBooksBalance
  <2>1. BooksInv /\ [PaperNext]_paperVars =>
          [account'.balance # account.balance =>
             /\ account'.balance = InitialBalance + Realised(history')
             /\ account'.equity = account'.balance + Unrealised(holdings')]_paperVars
    BY <1>2
  <2> QED BY <2>1, PTL DEF PaperBooksBalance
<1>4. BooksInv /\ [PaperNext]_paperVars => BooksInv'
  BY <1>2
<1> QED BY <1>1, <1>3, <1>4, PTL DEF PaperSpec

-----------------------------------------------------------------------------
(* Evidence.  The sums are over finite sets; they exist, and are compared, *)
(* by looking at a smallest set at which the claim might fail.  Both sums  *)
(* of a comparison take their elements out in the same order.              *)

LEMMA TotalIsChosen ==
  ASSUME NEW f
  PROVE  Total(f) = (CHOOSE g : SetSums(g, f, SUBSET DOMAIN f))[DOMAIN f]
  BY DEF Total, MapThenSumSet, MapThenFoldSet, SetSums, Some

\* Total takes the elements out one by one.
LEMMA TotalIsSetSum ==
  ASSUME NEW S, IsFiniteSet(S), NEW f, DOMAIN f = S
  PROVE  \E g : SetSums(g, f, SUBSET S) /\ Total(f) = g[S]
<1>1. \E g : SetSums(g, f, SUBSET S)
  BY AllSumsExist
<1> DEFINE sums == CHOOSE g : SetSums(g, f, SUBSET S)
<1>2. SetSums(sums, f, SUBSET S)
  BY <1>1
<1>3. Total(f) = sums[S]
  BY TotalIsChosen
<1> QED BY <1>2, <1>3

\* A sum of naturals is a natural number, and no smaller than each of them.
LEMMA TotalIsNat ==
  ASSUME NEW S, IsFiniteSet(S), NEW f \in [S -> Nat]
  PROVE  Total(f) \in Nat /\ \A x \in S : f[x] <= Total(f)
<1>1. PICK g : SetSums(g, f, SUBSET S) /\ Total(f) = g[S]
  BY TotalIsSetSum
<1> DEFINE Good(s) == g[s] \in Nat /\ \A x \in s : f[x] <= g[s]
           Bad == {s \in SUBSET S : ~Good(s)}
<1>2. Bad = {}
  <2> SUFFICES ASSUME Bad # {} PROVE FALSE
    OBVIOUS
  <2>1. PICK s \in Bad : \A u \in SUBSET S : u \subseteq s /\ u # s => u \notin Bad
    <3>1. Bad \in SUBSET SUBSET S
      OBVIOUS
    <3> HIDE DEF Bad
    <3> QED BY <3>1, SmallestMember
  <2>2. g[s] = IF s = {} THEN 0 ELSE f[Some(s)] + g[s \ {Some(s)}]
    BY <1>1 DEF SetSums
  <2>3. s # {}
    BY <2>1, <2>2
  <2>4. Some(s) \in s /\ s \ {Some(s)} \in SUBSET S /\ Good(s \ {Some(s)})
    BY <2>1, <2>3, OneOut
  <2>5. f[Some(s)] \in Nat
    BY <2>1, <2>4
  <2>6. g[s] = f[Some(s)] + g[s \ {Some(s)}] /\ g[s \ {Some(s)}] \in Nat
    BY <2>2, <2>3, <2>4
  <2>7. \A x \in s : f[x] \in Nat /\ (x = Some(s) \/ f[x] <= g[s \ {Some(s)}])
    BY <2>1, <2>4
  <2>8. g[s] \in Nat
    BY <2>5, <2>6
  <2>9. ASSUME NEW x \in s PROVE f[x] <= g[s]
    <3>1. CASE x = Some(s)
      BY <2>5, <2>6, <3>1
    <3>2. CASE f[x] <= g[s \ {Some(s)}] /\ f[x] \in Nat
      BY <2>5, <2>6, <3>2
    <3> QED BY <2>7, <3>1, <3>2
  <2>10. Good(s)
    BY <2>8, <2>9
  <2> QED BY <2>1, <2>10
<1> QED BY <1>1, <1>2

\* Smaller terms, a smaller sum.
LEMMA TotalIsMonotone ==
  ASSUME NEW S, IsFiniteSet(S), NEW f \in [S -> Nat], NEW h \in [S -> Nat],
         \A x \in S : f[x] <= h[x]
  PROVE  Total(f) <= Total(h)
<1>1. PICK g : SetSums(g, f, SUBSET S) /\ Total(f) = g[S]
  BY TotalIsSetSum
<1>2. PICK k : SetSums(k, h, SUBSET S) /\ Total(h) = k[S]
  BY TotalIsSetSum
<1> DEFINE Good(s) == g[s] \in Nat /\ k[s] \in Nat /\ g[s] <= k[s]
           Bad == {s \in SUBSET S : ~Good(s)}
<1>3. Bad = {}
  <2> SUFFICES ASSUME Bad # {} PROVE FALSE
    OBVIOUS
  <2>1. PICK s \in Bad : \A u \in SUBSET S : u \subseteq s /\ u # s => u \notin Bad
    <3>1. Bad \in SUBSET SUBSET S
      OBVIOUS
    <3> HIDE DEF Bad
    <3> QED BY <3>1, SmallestMember
  <2>2. /\ g[s] = IF s = {} THEN 0 ELSE f[Some(s)] + g[s \ {Some(s)}]
        /\ k[s] = IF s = {} THEN 0 ELSE h[Some(s)] + k[s \ {Some(s)}]
    BY <1>1, <1>2 DEF SetSums
  <2>3. s # {}
    BY <2>1, <2>2
  <2>o. Some(s) \in s /\ s \ {Some(s)} \in SUBSET S /\ s \ {Some(s)} \subseteq s /\ s \ {Some(s)} # s
    BY <2>1, <2>3, OneOut
  <2>4. Some(s) \in s /\ s \ {Some(s)} \in SUBSET S /\ Good(s \ {Some(s)})
    BY <2>1, <2>o
  <2>5. f[Some(s)] \in Nat /\ h[Some(s)] \in Nat /\ f[Some(s)] <= h[Some(s)]
    BY <2>1, <2>4
  <2>6. Good(s)
    BY <2>2, <2>3, <2>4, <2>5
  <2> QED BY <2>1, <2>6
<1> QED BY <1>1, <1>2, <1>3

\* One more at one place, one more in all.
LEMMA TotalOfOneMoreNotice ==
  ASSUME NEW S, IsFiniteSet(S), NEW f \in [S -> Nat], NEW a \in S
  PROVE  Total([f EXCEPT ![a] = @ + 1]) = Total(f) + 1
<1> DEFINE h == [f EXCEPT ![a] = @ + 1]
<1>h. h \in [S -> Nat] /\ DOMAIN h = S /\ \A x \in S : h[x] = IF x = a THEN f[x] + 1 ELSE f[x]
  OBVIOUS
<1> HIDE DEF h
<1>1. PICK g : SetSums(g, f, SUBSET S) /\ Total(f) = g[S]
  BY TotalIsSetSum
<1>2. PICK k : SetSums(k, h, SUBSET S) /\ Total(h) = k[S]
  BY <1>h, TotalIsSetSum
<1> DEFINE Good(s) == g[s] \in Nat /\ k[s] = IF a \in s THEN g[s] + 1 ELSE g[s]
           Bad == {s \in SUBSET S : ~Good(s)}
<1>3. Bad = {}
  <2> SUFFICES ASSUME Bad # {} PROVE FALSE
    OBVIOUS
  <2>1. PICK s \in Bad : \A u \in SUBSET S : u \subseteq s /\ u # s => u \notin Bad
    <3>1. Bad \in SUBSET SUBSET S
      OBVIOUS
    <3> HIDE DEF Bad
    <3> QED BY <3>1, SmallestMember
  <2>2. /\ g[s] = IF s = {} THEN 0 ELSE f[Some(s)] + g[s \ {Some(s)}]
        /\ k[s] = IF s = {} THEN 0 ELSE h[Some(s)] + k[s \ {Some(s)}]
    BY <1>1, <1>2 DEF SetSums
  <2>3. s # {}
    BY <2>1, <2>2
  <2>4. Some(s) \in s /\ s \ {Some(s)} \in SUBSET S /\ Good(s \ {Some(s)})
    BY <2>1, <2>3, OneOut
  <2>5. f[Some(s)] \in Nat /\ h[Some(s)] = IF Some(s) = a THEN f[Some(s)] + 1 ELSE f[Some(s)]
    BY <1>h, <2>1, <2>4
  <2>6. a \in s \ {Some(s)} <=> a \in s /\ Some(s) # a
    OBVIOUS
  <2>7. Good(s)
    BY <2>2, <2>3, <2>4, <2>5, <2>6
  <2> QED BY <2>1, <2>7
<1> QED BY <1>1, <1>2, <1>3 DEF h

LEMMA TotalOfZeros ==
  ASSUME NEW S, IsFiniteSet(S)
  PROVE  Total([x \in S |-> 0]) = 0
<1> DEFINE f == [x \in S |-> 0]
<1>1. DOMAIN f = S /\ \A x \in S : f[x] = 0
  OBVIOUS
<1> HIDE DEF f
<1>2. PICK g : SetSums(g, f, SUBSET S) /\ Total(f) = g[S]
  BY <1>1, TotalIsSetSum
<1> DEFINE Bad == {s \in SUBSET S : g[s] # 0}
<1>3. Bad = {}
  <2> SUFFICES ASSUME Bad # {} PROVE FALSE
    OBVIOUS
  <2>1. PICK s \in Bad : \A u \in SUBSET S : u \subseteq s /\ u # s => u \notin Bad
    <3>1. Bad \in SUBSET SUBSET S
      OBVIOUS
    <3> HIDE DEF Bad
    <3> QED BY <3>1, SmallestMember
  <2>2. g[s] = IF s = {} THEN 0 ELSE f[Some(s)] + g[s \ {Some(s)}]
    BY <1>2 DEF SetSums
  <2>3. s # {}
    BY <2>1, <2>2
  <2>4. Some(s) \in S /\ g[s \ {Some(s)}] = 0
    BY <2>1, <2>3, OneOut
  <2> QED BY <1>1, <2>1, <2>2, <2>3, <2>4
<1> QED BY <1>2, <1>3 DEF f

\* The lessons of one trade.
Row(log, t) == [c \in Categories |-> log[<<t, c>>]]

EngineLogs == [Trades \X Categories -> Nat]

LEMMA FiniteCategories == IsFiniteSet(Categories)
<1>1. IsFiniteSet({})
  BY FS_EmptySet
<1>2. IsFiniteSet({} \cup {"ENTRY_TIMING"})
  BY <1>1, FS_AddElement
<1>3. IsFiniteSet(({} \cup {"ENTRY_TIMING"}) \cup {"EXECUTION_QUALITY"})
  BY <1>2, FS_AddElement
<1>4. IsFiniteSet((({} \cup {"ENTRY_TIMING"}) \cup {"EXECUTION_QUALITY"}) \cup {"OTHER"})
  BY <1>3, FS_AddElement
<1>5. Categories = (({} \cup {"ENTRY_TIMING"}) \cup {"EXECUTION_QUALITY"}) \cup {"OTHER"}
  BY DEF Categories
<1> QED BY <1>4, <1>5

LEMMA RowSum ==
  ASSUME NEW log \in EngineLogs, NEW t \in Trades
  PROVE  Row(log, t) \in [Categories -> Nat] /\ Total(Row(log, t)) \in Nat
<1>1. Row(log, t) \in [Categories -> Nat]
  BY DEF Row, EngineLogs
<1> QED BY <1>1, FiniteCategories, TotalIsNat

OneMore(log, a, b) == [log EXCEPT ![<<a, b>>] = @ + 1]

\* One more lesson weighs one more on its own trade only.
LEMMA RowOfOneMore ==
  ASSUME NEW log \in EngineLogs, NEW a \in Trades, NEW b \in Categories
  PROVE  /\ OneMore(log, a, b) \in EngineLogs
         /\ \A t \in Trades :
              Total(Row(OneMore(log, a, b), t)) =
                IF t = a THEN Total(Row(log, t)) + 1 ELSE Total(Row(log, t))
<1>1. OneMore(log, a, b) \in EngineLogs
  BY DEF EngineLogs, OneMore
<1>2. Row(OneMore(log, a, b), a) = [Row(log, a) EXCEPT ![b] = @ + 1]
  BY DEF Row, EngineLogs, OneMore
<1>3. \A t \in Trades : t # a => Row(OneMore(log, a, b), t) = Row(log, t)
  BY DEF Row, EngineLogs, OneMore
<1>4. Total(Row(OneMore(log, a, b), a)) = Total(Row(log, a)) + 1
  <2>1. PICK f \in [Categories -> Nat] : f = Row(log, a)
    BY RowSum
  <2>2. Total([f EXCEPT ![b] = @ + 1]) = Total(f) + 1
    BY FiniteCategories, TotalOfOneMoreNotice
  <2> QED BY <1>2, <2>1, <2>2
<1> QED BY <1>1, <1>3, <1>4

\* A log read back is the file, or empty.
LEMMA RowOfLoaded ==
  ASSUME NEW file \in EngineLogs, NEW ok \in BOOLEAN,
         NEW log, log = [g \in DOMAIN file |-> IF ok THEN file[g] ELSE 0]
  PROVE  /\ log \in EngineLogs
         /\ \A t \in Trades : Total(Row(log, t)) = Total(Row(file, t)) \/ Total(Row(log, t)) = 0
<1>1. log \in EngineLogs
  BY DEF EngineLogs
<1>2. CASE ok
  <2>1. log = file
    BY <1>2 DEF EngineLogs
  <2> QED BY <1>1, <2>1
<1>3. CASE ~ok
  <2>1. \A t \in Trades : Row(log, t) = [c \in Categories |-> 0]
    BY <1>3 DEF Row, EngineLogs
  <2>2. Total([c \in Categories |-> 0]) = 0
    BY FiniteCategories, TotalOfZeros
  <2> QED BY <1>1, <2>1, <2>2
<1> QED BY <1>2, <1>3

\* The review under way has still to leave its lesson with the engine.
LessonDue(t) ==
  /\ review # NoReview /\ review.trade = t
  /\ stage \in {"lesson", "bridge", "memory", "news", "engine"}

Earned(log) ==
  \A t \in Trades : Total(Row(log, t)) + (IF LessonDue(t) THEN 1 ELSE 0) <= noticed[t]

EvidenceInv ==
  /\ noticed \in [Trades -> Nat]
  /\ engineLog \in EngineLogs /\ engineFile \in EngineLogs
  /\ review # NoReview => review.trade \in Trades /\ review.category \in Categories
  /\ Earned(engineLog) /\ Earned(engineFile)

\* The lessons of a category are no more than the notices of all trades.
LEMMA EarnedIsEvidence ==
  ASSUME LearningAssumption, EvidenceInv PROVE EvidenceIsEarned
<1>0. IsFiniteSet(Trades) /\ ValidatedMin \in Nat
  BY DEF LearningAssumption
<1>1. PICK log \in EngineLogs : log = engineLog
  BY DEF EvidenceInv
<1>2. PICK n \in [Trades -> Nat] : n = noticed
  BY DEF EvidenceInv
<1>3. \A t \in Trades : Total(Row(log, t)) <= n[t]
  <2>1. ASSUME NEW t \in Trades PROVE Total(Row(log, t)) <= n[t]
    <3>1. Total(Row(log, t)) + (IF LessonDue(t) THEN 1 ELSE 0) <= n[t]
      BY <1>1, <1>2 DEF EvidenceInv, Earned
    <3>2. Total(Row(log, t)) \in Nat /\ n[t] \in Nat
      BY RowSum
    <3> QED BY <3>1, <3>2
  <2> QED BY <2>1
<1>4. ASSUME NEW c \in Categories, CanPromoteToCandidate(c) PROVE Total(n) >= ValidatedMin
  <2> DEFINE column == [t \in Trades |-> log[<<t, c>>]]
  <2>1. column \in [Trades -> Nat]
    BY DEF EngineLogs
  <2>2. ASSUME NEW t \in Trades PROVE column[t] <= n[t]
    <3>1. PICK row \in [Categories -> Nat] : row = Row(log, t)
      BY RowSum
    <3>2. Total(row) \in Nat /\ row[c] <= Total(row)
      BY <3>1, FiniteCategories, TotalIsNat
    <3>3. row[c] = column[t]
      BY <3>1 DEF Row
    <3>4. Total(row) <= n[t]
      BY <1>3, <3>1
    <3>5. n[t] \in Nat /\ column[t] \in Nat
      BY <2>1
    <3> HIDE DEF column
    <3> QED BY <3>2, <3>3, <3>4, <3>5
  <2>3. Occurrences(c) = Total(column)
    BY <1>1 DEF Occurrences
  <2>4. Occurrences(c) >= ValidatedMin
    BY <1>4 DEF CanPromoteToCandidate, EvidenceLevel
  <2> HIDE DEF column
  <2>5. Total(column) \in Nat /\ Total(n) \in Nat
    BY <1>0, <2>1, TotalIsNat
  <2>6. Total(column) <= Total(n)
    BY <1>0, <2>1, <2>2, TotalIsMonotone
  <2> QED BY <1>0, <2>3, <2>4, <2>5, <2>6
<1>5. \A t \in Trades : Total([c \in Categories |-> engineLog[<<t, c>>]]) <= noticed[t]
  BY <1>1, <1>2, <1>3 DEF Row
<1> QED BY <1>2, <1>4, <1>5 DEF EvidenceIsEarned

\* A step that neither notices a trade nor brings a lesson due keeps what is earned.
LEMMA LogStaysEarned ==
  ASSUME NEW log \in EngineLogs, Earned(log), noticed \in [Trades -> Nat], noticed' = noticed,
         \A t \in Trades : LessonDue(t)' => LessonDue(t)
  PROVE  Earned(log)'
<1>1. ASSUME NEW t \in Trades
      PROVE  Total(Row(log, t)) + (IF LessonDue(t)' THEN 1 ELSE 0) <= noticed'[t]
  <2>1. Total(Row(log, t)) + (IF LessonDue(t) THEN 1 ELSE 0) <= noticed[t]
    BY DEF Earned
  <2>2. PICK k \in Nat : k = Total(Row(log, t))
    BY RowSum
  <2>3. PICK n \in Nat : n = noticed[t]
    OBVIOUS
  <2>4. k + (IF LessonDue(t) THEN 1 ELSE 0) <= n
    BY <2>1, <2>2, <2>3
  <2>5. CASE LessonDue(t)'
    <3>1. LessonDue(t)
      BY <2>5
    <3> QED BY <2>2, <2>3, <2>4, <2>5, <3>1
  <2>6. CASE ~LessonDue(t)'
    <3>1. k <= n
      BY <2>2, <2>3, <2>4
    <3> QED BY <2>2, <2>3, <2>6, <3>1
  <2> QED BY <2>5, <2>6
<1> QED BY <1>1 DEF Earned

\* A close notice pays for the lesson it brings.
LEMMA NoticeEarns ==
  ASSUME EvidenceInv, OnPositionClosed PROVE EvidenceInv'
<1>1. PICK x \in CloseNotices :
        /\ noticed' = [noticed EXCEPT ![x.trade] = @ + 1]
        /\ review' = ReviewRecord(x)
  BY DEF OnPositionClosed
<1>2. engineLog' = engineLog /\ engineFile' = engineFile
  BY DEF OnPositionClosed
<1>3. x.trade \in Trades
  BY DEF CloseNotices
<1>4. review'.trade = x.trade /\ review'.category \in Categories
  <2>1. review'.trade = x.trade /\ review'.category = Category(RootCause(x))
    BY <1>1 DEF ReviewRecord
  <2>2. ASSUME NEW cause PROVE Category(cause) \in Categories
    <3>1. Category(cause) = "ENTRY_TIMING" \/ Category(cause) = "EXECUTION_QUALITY"
          \/ Category(cause) = "OTHER"
      BY DEF Category
    <3> QED BY <3>1 DEF Categories
  <2>3. Category(RootCause(x)) \in Categories
    BY <2>2
  <2> QED BY <2>1, <2>3
<1>5. noticed \in [Trades -> Nat] /\ noticed' \in [Trades -> Nat]
  BY <1>1, <1>3 DEF EvidenceInv
<1>6. ASSUME NEW log \in EngineLogs, Earned(log) PROVE Earned(log)'
  <2>1. ASSUME NEW t \in Trades
        PROVE  Total(Row(log, t)) + (IF LessonDue(t)' THEN 1 ELSE 0) <= noticed'[t]
    <3>1. PICK k \in Nat : k = Total(Row(log, t))
      BY RowSum
    <3>2. PICK n \in Nat : n = noticed[t]
      BY <1>5
    <3>3. k + (IF LessonDue(t) THEN 1 ELSE 0) <= n
      BY <1>6, <3>1, <3>2 DEF Earned
    <3>4. k <= n
      BY <3>3
    <3>5. CASE t = x.trade
      <4>1. noticed'[t] = n + 1
        BY <1>1, <1>5, <3>2, <3>5
      <4>2. k + (IF LessonDue(t)' THEN 1 ELSE 0) <= n + 1
        BY <3>4
      <4> QED BY <3>1, <4>1, <4>2
    <3>6. CASE t # x.trade
      <4>1. noticed'[t] = n
        BY <1>1, <1>5, <3>2, <3>6
      <4>2. ~LessonDue(t)'
        BY <1>4, <3>6 DEF LessonDue
      <4> QED BY <3>1, <3>4, <4>1, <4>2
    <3> QED BY <3>5, <3>6
  <2> QED BY <2>1 DEF Earned
<1>7. PICK log \in EngineLogs, file \in EngineLogs :
        log = engineLog /\ file = engineFile /\ Earned(log) /\ Earned(file)
  BY DEF EvidenceInv
<1>8. Earned(log)' /\ Earned(file)'
  BY <1>6, <1>7
<1>9. Earned(engineLog)' /\ Earned(engineFile)'
  BY <1>2, <1>7, <1>8 DEF Earned
<1> QED BY <1>2, <1>3, <1>4, <1>5, <1>7, <1>9 DEF EvidenceInv

\* The engine's lesson is the one the review was due, on each log it reaches.
LEMMA LessonIsEarned ==
  ASSUME EvidenceInv, RecordEngineLesson PROVE EvidenceInv'
<1>1. review # NoReview /\ stage = "engine" /\ stage' = "review"
      /\ noticed' = noticed /\ review' = review
  BY DEF RecordEngineLesson, At, Then
<1>2. PICK a \in Trades, b \in Categories : a = review.trade /\ b = review.category
  BY <1>1 DEF EvidenceInv
<1>3. PICK ok \in BOOLEAN :
        /\ engineLog' = Observed(engineLog)
        /\ engineFile' = IF ok THEN Observed(engineFile) ELSE engineFile
  BY DEF RecordEngineLesson
<1>4. PICK log \in EngineLogs, file \in EngineLogs :
        log = engineLog /\ file = engineFile /\ Earned(log) /\ Earned(file)
  BY DEF EvidenceInv
<1>5. noticed \in [Trades -> Nat]
  BY DEF EvidenceInv
<1>6. \A t \in Trades : ~LessonDue(t)' /\ (LessonDue(t) <=> t = a)
  BY <1>1, <1>2 DEF LessonDue
<1>7. ASSUME NEW m \in EngineLogs, Earned(m), NEW after, after = OneMore(m, a, b)
      PROVE  after \in EngineLogs /\ Earned(after)'
  <2>1. after \in EngineLogs /\ \A t \in Trades :
          Total(Row(after, t)) = IF t = a THEN Total(Row(m, t)) + 1 ELSE Total(Row(m, t))
    <3>1. a \in Trades /\ b \in Categories
      BY <1>2
    <3> QED BY <1>7, <3>1, RowOfOneMore
  <2>2. ASSUME NEW t \in Trades
        PROVE  Total(Row(after, t)) + (IF LessonDue(t)' THEN 1 ELSE 0) <= noticed'[t]
    <3>1. PICK k \in Nat : k = Total(Row(m, t))
      BY <1>7, RowSum
    <3>2. PICK n \in Nat : n = noticed[t] /\ n = noticed'[t]
      BY <1>1, <1>5
    <3>3. k + (IF t = a THEN 1 ELSE 0) <= n
      BY <1>6, <1>7, <3>1, <3>2 DEF Earned
    <3>4. Total(Row(after, t)) = k + (IF t = a THEN 1 ELSE 0)
      BY <2>1, <3>1
    <3>5. PICK j \in Nat : j = Total(Row(after, t))
      BY <2>1, RowSum
    <3> QED BY <1>6, <3>2, <3>3, <3>4, <3>5
  <2> QED BY <2>1, <2>2 DEF Earned
<1>8. Observed(engineLog) = OneMore(log, a, b)
      /\ Observed(engineFile) = OneMore(file, a, b)
  BY <1>2, <1>4 DEF Observed, OneMore
<1>9. PICK log1, file1 : log1 = engineLog' /\ file1 = engineFile'
  OBVIOUS
<1>10. log1 \in EngineLogs /\ Earned(log1)'
  BY <1>3, <1>4, <1>7, <1>8, <1>9
<1>11. Earned(file)'
  BY <1>1, <1>4, <1>5, <1>6, LogStaysEarned
<1>12. file1 \in EngineLogs /\ Earned(file1)'
  <2>1. CASE ok
    <3>1. file1 = OneMore(file, a, b)
      BY <1>3, <1>8, <1>9, <2>1
    <3> QED BY <1>4, <1>7, <3>1
  <2>2. CASE ~ok
    <3>1. file1 = file
      BY <1>3, <1>4, <1>9, <2>2
    <3> QED BY <1>4, <1>11, <3>1 DEF Earned
  <2> QED BY <2>1, <2>2
<1>13. Earned(engineLog)' /\ Earned(engineFile)'
  BY <1>9, <1>10, <1>12 DEF Earned
<1>14. review'.trade \in Trades /\ review'.category \in Categories
  BY <1>1, <1>2
<1>15. engineLog' \in EngineLogs /\ engineFile' \in EngineLogs
  BY <1>9, <1>10, <1>12
<1>16. noticed' \in [Trades -> Nat]
  BY <1>1, <1>5
<1> QED BY <1>13, <1>14, <1>15, <1>16 DEF EvidenceInv

\* A restart reads no lesson back twice.
LEMMA RebootEarns ==
  ASSUME EvidenceInv, Reboot PROVE EvidenceInv'
<1>1. review' = NoReview /\ noticed' = noticed /\ engineFile' = engineFile
  BY DEF Reboot
<1>2. PICK ok \in BOOLEAN : engineLog' = EngineLoaded(ok)
  BY DEF Reboot
<1>3. PICK file \in EngineLogs : file = engineFile /\ Earned(file)
  BY DEF EvidenceInv
<1>4. noticed \in [Trades -> Nat]
  BY DEF EvidenceInv
<1>5. \A t \in Trades : ~LessonDue(t)'
  BY <1>1 DEF LessonDue
<1>6. Earned(file)'
  BY <1>1, <1>3, <1>4, <1>5, LogStaysEarned
<1>7. PICK log : log = engineLog'
  OBVIOUS
<1>8. /\ log \in EngineLogs
      /\ \A t \in Trades : Total(Row(log, t)) = Total(Row(file, t)) \/ Total(Row(log, t)) = 0
  <2>1. log = [g \in DOMAIN file |-> IF ok THEN file[g] ELSE 0]
    BY <1>2, <1>3, <1>7 DEF EngineLoaded
  <2> QED BY <2>1, RowOfLoaded
<1>9. Earned(log)'
  <2>1. ASSUME NEW t \in Trades
        PROVE  Total(Row(log, t)) + (IF LessonDue(t)' THEN 1 ELSE 0) <= noticed'[t]
    <3>1. PICK k \in Nat : k = Total(Row(file, t))
      BY RowSum
    <3>2. PICK j \in Nat : j = Total(Row(log, t))
      BY <1>8, RowSum
    <3>3. PICK n \in Nat : n = noticed'[t]
      BY <1>1, <1>4
    <3>4. k <= n
      BY <1>5, <1>6, <3>1, <3>3 DEF Earned
    <3>5. j = k \/ j = 0
      BY <1>8, <3>1, <3>2
    <3>6. j + 0 <= n
      BY <3>4, <3>5
    <3> QED BY <1>5, <3>2, <3>3, <3>6
  <2> QED BY <2>1 DEF Earned
<1>10. Earned(engineLog)' /\ Earned(engineFile)'
  BY <1>1, <1>3, <1>6, <1>7, <1>9 DEF Earned
<1>11. engineLog' \in EngineLogs /\ engineFile' \in EngineLogs /\ noticed' \in [Trades -> Nat]
  BY <1>1, <1>3, <1>4, <1>7, <1>8
<1> QED BY <1>1, <1>10, <1>11 DEF EvidenceInv

LEMMA OtherStepsEarn ==
  ASSUME EvidenceInv,
         \/ RecordLesson \/ Bridge \/ RecordAgents \/ RecordNews \/ PersistReview
         \/ CompleteLedger \/ UNCHANGED learningVars
  PROVE  EvidenceInv'
<1>1. noticed' = noticed /\ engineLog' = engineLog /\ engineFile' = engineFile
  BY DEF RecordLesson, Bridge, RecordAgents, RecordNews, PersistReview, CompleteLedger, Then,
         learningVars
<1>2. review' = NoReview \/ review' = review
  BY DEF RecordLesson, Bridge, RecordAgents, RecordNews, PersistReview, CompleteLedger, Then,
         learningVars
<1>3. \A t \in Trades : LessonDue(t)' => LessonDue(t)
  BY DEF RecordLesson, Bridge, RecordAgents, RecordNews, PersistReview, CompleteLedger, Then,
         At, LessonDue, learningVars
<1>4. noticed \in [Trades -> Nat]
  BY DEF EvidenceInv
<1>5. PICK log \in EngineLogs, file \in EngineLogs :
        log = engineLog /\ file = engineFile /\ Earned(log) /\ Earned(file)
  BY DEF EvidenceInv
<1>6. Earned(log)' /\ Earned(file)'
  BY <1>1, <1>3, <1>4, <1>5, LogStaysEarned
<1>7. Earned(engineLog)' /\ Earned(engineFile)'
  BY <1>1, <1>5, <1>6 DEF Earned
<1>8. review' # NoReview => review'.trade \in Trades /\ review'.category \in Categories
  BY <1>2 DEF EvidenceInv
<1> QED BY <1>1, <1>4, <1>5, <1>7, <1>8 DEF EvidenceInv

LEMMA NothingEarnedAtFirst ==
  ASSUME LearningInit PROVE EvidenceInv
<1>1. PICK log : log = [g \in Trades \X Categories |-> 0]
  OBVIOUS
<1>2. log \in EngineLogs /\ engineLog = log /\ engineFile = log
  BY <1>1 DEF LearningInit, EngineLogs
<1>3. \A t \in Trades : Row(log, t) = [c \in Categories |-> 0]
  BY <1>1 DEF Row
<1>4. Total([c \in Categories |-> 0]) = 0
  BY FiniteCategories, TotalOfZeros
<1>5. review = NoReview /\ noticed = [t \in Trades |-> 0]
  BY DEF LearningInit
<1>6. \A t \in Trades : ~LessonDue(t)
  BY <1>5 DEF LessonDue
<1>7. Earned(log)
  BY <1>3, <1>4, <1>5, <1>6 DEF Earned
<1>8. Earned(engineLog) /\ Earned(engineFile)
  BY <1>2, <1>7
<1> QED BY <1>2, <1>5, <1>8 DEF EvidenceInv

\* A finding validated for promotion rests on as many close notices, and no trade
\* weighs more than its notices, through every crash, failed write and restart.
THEOREM EvidenceIsEarnedHolds == LearningSpec => []EvidenceIsEarned
<1>1. LearningInit => EvidenceInv
  BY NothingEarnedAtFirst
<1>2. EvidenceInv /\ [LearningNext]_learningVars => EvidenceInv'
  BY NoticeEarns, LessonIsEarned, RebootEarns, OtherStepsEarn DEF LearningNext
<1>3. EvidenceInv => EvidenceIsEarned
  BY LearningAssumption, EarnedIsEvidence
<1> QED BY <1>1, <1>2, <1>3, PTL DEF LearningSpec

=============================================================================
