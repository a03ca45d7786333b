----------------------------- MODULE OpsDrills -----------------------------
(***************************************************************************)
(* The operational drills behind Gate D (scripts/run_ops_drills.py): a     *)
(* process that breaks one part of the running system after another -      *)
(* the service's configuration, the MT5 terminals, the LLM router, the     *)
(* whole stack - judges how it copes, puts it back and records the result  *)
(* certification reads.                                                    *)
(*                                                                         *)
(* A drill runs on a thread with a deadline.  Past the deadline the thread *)
(* is abandoned, not stopped: it goes on beside the rollback and beside    *)
(* later drills, until the process exits.  A restart script is a process   *)
(* of its own: it stops whoever listens on a port and starts a service,    *)
(* which dies if the port is taken meanwhile; it goes on when the drill's  *)
(* process is gone.  A start command is taken to work (the dashboard is    *)
(* built, or preflight had not found it healthy), and a wait for health    *)
(* sees what comes up within it.  Attaching to a terminal may fail.        *)
(***************************************************************************)
EXTENDS Integers, Sequences, FiniteSets

CONSTANTS
  DrillTimeout,   \* seconds a drill may take (--drill-timeout)
  MaxRuns         \* bound on invocations of the script

ASSUME OpsAssumption == DrillTimeout \in Nat /\ MaxRuns \in Nat

Order == <<"mt5_restart", "pc_restart", "mt5_disconnect", "database_failure",
           "llm_failure", "nine_router_failure", "telegram_failure">>

Drills == {Order[i] : i \in DOMAIN Order}
Terminal == {"mt5_restart", "mt5_disconnect"}
Override == {"database_failure", "llm_failure", "telegram_failure"}
Owners == Drills \cup {"runner"}

Stages(d) ==
  CASE d \in Terminal -> <<"cut", "start", "attach">>
    [] d \in Override -> <<"override", "probe", "restore", "judge">>
    [] d = "pc_restart" -> <<"restart", "wait">>
    [] OTHER -> <<"cut", "start">>

\* The seconds a drill may have run when a stage ends: the timeouts of its
\* scripts, polls and requests added up.
LongestFor(d) ==
  CASE d = "mt5_restart" -> [cut |-> 48, start |-> 123, attach |-> 913]
    [] d = "mt5_disconnect" -> [cut |-> 58, start |-> 178, attach |-> 968]
    [] d = "llm_failure" -> [override |-> 150, probe |-> 270, restore |-> 390, judge |-> 480]
    [] d \in Override -> [override |-> 120, probe |-> 210, restore |-> 330, judge |-> 390]
    [] d = "pc_restart" -> [restart |-> 240, wait |-> 480]
    [] OTHER -> [cut |-> 90, start |-> 215]

VARIABLES
  runner,   \* [step, todo, status]: todo's head is the drill being run
  thread,   \* drill -> [stage, ok]: its thread, "off" when there is none
  host,     \* [python: the configuration served or "down"; what runs: web (the Node
            \* service and the dashboard), nine (the router), terminal (the selected
            \* one), others (further terminals); bound: the service is attached]
  script,   \* owner -> what its script will start: a configuration of the service,
            \* "all" (the normal one, then "web"), "web" or "none"
  passed,   \* the drills whose last record says so: what Gate D counts
  runs

drillVars == <<runner, thread, host, script, passed, runs>>

Whole == [python |-> "normal", web |-> TRUE, nine |-> TRUE, terminal |-> TRUE,
          others |-> TRUE, bound |-> TRUE]

OpsInit ==
  /\ runner = [step |-> "ended", todo |-> <<>>, status |-> "failed"]
  /\ thread = [d \in Drills |-> [stage |-> "off", ok |-> FALSE]]
  /\ host = Whole
  /\ script = [o \in Owners |-> "none"]
  /\ passed = {}
  /\ runs = 0

PythonUp == host.python # "down"
AllHealthy == PythonUp /\ host.web
Current == Head(runner.todo)

---------------------------------------------------------------------------
(* Restart scripts *)

\* The first half of a script: whoever listens on its ports is stopped.
KillListener(o, config) ==
  /\ script[o] = "none"
  /\ script' = [script EXCEPT ![o] = config]
  /\ host' = [host EXCEPT !.python = "down", !.bound = FALSE, !.web = @ /\ config # "all"]

\* The second half: a service started on a free port attaches to the terminal.
StartService(o) ==
  /\ script[o] \notin {"none", "web"}
  /\ \E attached \in BOOLEAN :
       host' = IF PythonUp THEN host
               ELSE [host EXCEPT !.python = IF script[o] = "all" THEN "normal" ELSE script[o],
                                 !.bound = attached /\ host.terminal]
  /\ script' = [script EXCEPT ![o] = IF @ = "all" THEN "web" ELSE "none"]
  /\ UNCHANGED <<runner, thread, passed, runs>>

StartWeb(o) ==
  /\ script[o] = "web"
  /\ host' = [host EXCEPT !.web = TRUE]
  /\ script' = [script EXCEPT ![o] = "none"]
  /\ UNCHANGED <<runner, thread, passed, runs>>

\* restart-all outlives its limit of 240 seconds and is cut off half-way.
CutScript ==
  /\ script["pc_restart"] # "none"
  /\ thread["pc_restart"].stage = "wait"
  /\ script' = [script EXCEPT !["pc_restart"] = "none"]
  /\ UNCHANGED <<runner, thread, host, passed, runs>>

---------------------------------------------------------------------------
(* Drill threads *)

\* What an abandoned thread returns goes nowhere.
Awaited(d) == runner.step = "join" /\ Current = d

Goes(d, stage, ok) ==
  thread' = [thread EXCEPT ![d] =
    IF Awaited(d) THEN [stage |-> stage, ok |-> ok]
    ELSE [stage |-> IF stage = "done" THEN "off" ELSE stage, ok |-> FALSE]]

InStage(d, stage) == thread[d].stage = stage /\ script[d] = "none"

\* A drill of the terminal stops every one that runs, a drill of the router the router.
CutOff(d) ==
  LET there == IF d \in Terminal THEN host.terminal \/ host.others ELSE host.nine
  IN /\ InStage(d, "cut")
     /\ Goes(d, IF there THEN "start" ELSE "done", there)
     /\ host' = IF d \in Terminal
                THEN [host EXCEPT !.terminal = FALSE, !.others = FALSE, !.bound = FALSE]
                ELSE [host EXCEPT !.nine = FALSE]
     /\ UNCHANGED <<runner, script, passed, runs>>

\* The service has to answer while the process is gone; then the router, or the
\* selected terminal, is started.
StartBack(d) ==
  /\ InStage(d, "start")
  /\ Goes(d, IF d \in Terminal THEN "attach" ELSE "done", PythonUp)
  /\ host' = IF d \in Terminal THEN [host EXCEPT !.terminal = TRUE]
             ELSE [host EXCEPT !.nine = TRUE]
  /\ UNCHANGED <<runner, script, passed, runs>>

\* What selecting the terminal again can make of a host's binding: it fails, or the
\* service is not there, or it is attached, already or now.
Bindings(h) ==
  IF h.python # "down" /\ h.terminal /\ ~h.bound THEN BOOLEAN ELSE {h.bound}

\* An attached service that serves no symbol is no proof either.
Attach(d) ==
  /\ InStage(d, "attach")
  /\ \E attached \in Bindings(host), symbols \in BOOLEAN :
       /\ host' = [host EXCEPT !.bound = attached]
       /\ Goes(d, "done", thread[d].ok /\ attached /\ symbols)
  /\ UNCHANGED <<runner, script, passed, runs>>

\* The service is restarted with one setting that leads nowhere.
ApplyOverride(d) ==
  /\ InStage(d, "override")
  /\ KillListener(d, d)
  /\ Goes(d, "probe", TRUE)
  /\ UNCHANGED <<runner, passed, runs>>

\* It has to come up.  Whether the setting is in force is read from its
\* environment if psutil can; only the LLM drill insists on a proof, and takes
\* a router that does not answer for one.
Probe(d) ==
  /\ InStage(d, "probe")
  /\ \E readable \in BOOLEAN :
       Goes(d, "restore",
            PythonUp /\ IF d = "llm_failure" THEN host.python = d \/ ~host.nine
                         ELSE readable => host.python = d)
  /\ UNCHANGED <<runner, host, script, passed, runs>>

RestoreConfig(d) ==
  /\ InStage(d, "restore")
  /\ KillListener(d, "normal")
  /\ Goes(d, "judge", thread[d].ok)
  /\ UNCHANGED <<runner, passed, runs>>

Judge(d) ==
  /\ InStage(d, "judge")
  /\ Goes(d, "done", thread[d].ok /\ PythonUp)
  /\ UNCHANGED <<runner, host, script, passed, runs>>

RestartAll ==
  /\ InStage("pc_restart", "restart")
  /\ KillListener("pc_restart", "all")
  /\ Goes("pc_restart", "wait", TRUE)
  /\ UNCHANGED <<runner, passed, runs>>

WaitForStack ==
  /\ InStage("pc_restart", "wait")
  /\ Goes("pc_restart", "done", AllHealthy)
  /\ UNCHANGED <<runner, host, script, passed, runs>>

---------------------------------------------------------------------------
(* The runner *)

\* One drill or all of them, in order.
Invoke ==
  /\ runner.step = "ended" /\ runs < MaxRuns
  /\ \E todo \in {Order} \cup {<<d>> : d \in Drills} :
       runner' = [step |-> "preflight", todo |-> todo, status |-> "failed"]
  /\ runs' = runs + 1
  /\ UNCHANGED <<thread, host, script, passed>>

\* A drill is not run over a stack that is down already.
Preflight ==
  /\ runner.step = "preflight"
  /\ IF AllHealthy
     THEN /\ runner' = [runner EXCEPT !.step = "join", !.status = "failed"]
          /\ Goes(Current, Stages(Current)[1], TRUE)
     ELSE /\ runner' = [runner EXCEPT !.step = "record", !.status = "failed"]
          /\ UNCHANGED thread
  /\ UNCHANGED <<host, script, passed, runs>>

Join ==
  /\ runner.step = "join" /\ thread[Current].stage = "done"
  /\ runner' = [runner EXCEPT !.step = "rollback",
                 !.status = IF thread[Current].ok THEN "passed" ELSE "failed"]
  /\ Goes(Current, "off", FALSE)
  /\ UNCHANGED <<host, script, passed, runs>>

\* The deadline: only a stage that can last so long is met by it.  The status
\* stays "failed" and the thread goes on.
Late(d) ==
  /\ thread[d].stage \in DOMAIN LongestFor(d)
  /\ LongestFor(d)[thread[d].stage] > DrillTimeout

\* Mutant: the rollback only follows a drill that returned.
TimeOut_NoRollback ==
  /\ runner.step = "join" /\ Late(Current)
  /\ runner' = [runner EXCEPT !.step = "verify"]
  /\ UNCHANGED <<thread, host, script, passed, runs>>

TimeOut ==
  /\ runner.step = "join" /\ Late(Current)
  /\ runner' = [runner EXCEPT !.step = "rollback"]
  /\ UNCHANGED <<thread, host, script, passed, runs>>

\* "finally": whatever the drill did, its rollback follows.  The terminal is only
\* started if none runs at all, and start-all leaves alone what listens already.
Rollback ==
  /\ runner.step = "rollback"
  /\ runner' = [runner EXCEPT !.step = "verify"]
  /\ \/ /\ Current \in Override
        /\ KillListener("runner", "normal")
     \/ /\ Current = "pc_restart"
        /\ script' = [script EXCEPT !["runner"] = IF AllHealthy THEN @ ELSE "all"]
        /\ UNCHANGED host
     \/ /\ Current \in Terminal
        /\ LET started == [host EXCEPT !.terminal = @ \/ ~host.others]
           IN \E attached \in Bindings(started) : host' = [started EXCEPT !.bound = attached]
        /\ UNCHANGED script
     \/ /\ Current = "nine_router_failure"
        /\ host' = [host EXCEPT !.nine = TRUE]
        /\ UNCHANGED script
  /\ UNCHANGED <<thread, passed, runs>>

\* A drill only passes if the stack answers after its rollback.
VerifyAfter ==
  /\ runner.step = "verify" /\ script["runner"] = "none"
  /\ runner' = [runner EXCEPT !.step = "record",
                 !.status = IF AllHealthy THEN @ ELSE "failed"]
  /\ UNCHANGED <<thread, host, script, passed, runs>>

\* The process ends and takes its threads with it, the scripts not.
ThreadsOff == [d \in Drills |-> [stage |-> "off", ok |-> FALSE]]

RecordDrill ==
  /\ runner.step = "record"
  /\ passed' = IF runner.status = "passed" THEN passed \cup {Current} ELSE passed \ {Current}
  /\ IF Len(runner.todo) > 1
     THEN /\ runner' = [step |-> "preflight", todo |-> Tail(runner.todo), status |-> "failed"]
          /\ UNCHANGED thread
     ELSE /\ runner' = [step |-> "ended", todo |-> <<>>, status |-> "failed"]
          /\ thread' = ThreadsOff
  /\ UNCHANGED <<host, script, runs>>

\* Nothing catches a write that fails: the process ends.
AppendFails ==
  /\ runner.step = "record"
  /\ runner' = [step |-> "ended", todo |-> <<>>, status |-> "failed"]
  /\ thread' = ThreadsOff
  /\ UNCHANGED <<host, script, passed, runs>>

---------------------------------------------------------------------------

OpsDrillsNext ==
  \/ \E o \in Owners : StartService(o) \/ StartWeb(o)
  \/ CutScript \/ RestartAll \/ WaitForStack
  \/ \E d \in Terminal \cup {"nine_router_failure"} : CutOff(d) \/ StartBack(d)
  \/ \E d \in Terminal : Attach(d)
  \/ \E d \in Override : ApplyOverride(d) \/ Probe(d) \/ RestoreConfig(d) \/ Judge(d)
  \/ Invoke \/ Preflight \/ Join \/ TimeOut \/ Rollback \/ VerifyAfter
  \/ RecordDrill \/ AppendFails

OpsDrillsSpec == OpsInit /\ [][OpsDrillsNext]_drillVars

Quiet == runner.step = "ended" /\ \A o \in Owners : script[o] = "none"

\* When the script has ended and no restart is under way, the services answer again, the
\* trading service with its own configuration, and the router and the selected terminal
\* run, whichever drills were abandoned at their deadline and went on beside others
\* (rollback "in the runner's finally").  Not the other terminals, nor the binding.
ServicesRestored ==
  Quiet => host.python = "normal" /\ host.web /\ host.nine /\ host.terminal
=============================================================================
