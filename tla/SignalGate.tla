----------------------------- MODULE SignalGate -----------------------------
(***************************************************************************)
(* When a decision cycle may convene the committee and open a position:    *)
(*   - the signal registry (orchestration/signal_registry.py);             *)
(*   - TradingPipeline.run with its single-entry policy and entry cooldown *)
(*     (orchestration/pipeline.py);                                        *)
(*   - the close detector, the only thing that clears an OPEN signal       *)
(*     (review/close_detector.py, orchestration/runtime.py).               *)
(* Cycles run to completion one after the other on the event loop; the     *)
(* broker's book changes at any point inside one.  The breaker, kill       *)
(* switch, reconciliation and readiness guards are among the reasons of    *)
(* Refuse; their own state is in ExecutionGuard and Reconciliation.        *)
(***************************************************************************)
EXTENDS Integers, FiniteSets

CONSTANTS
  Symbols,
  ManualSymbols,         \* symbols on which someone else also holds positions
  SingleEntryPolicy,     \* ONE_ENTRY_POLICY, on by default
  FlakyContext,          \* the context's position read may fail or be absent
  FlakyMonitor,          \* the monitor's position read may fail
  Exceptions,            \* a stage between the signal and its verdict may raise
  LostReplies,           \* an order may fill although the engine reports failure
  MaxTickets,            \* bound: positions opened, by anyone
  MaxBoots            \* bound: process restarts

ASSUME SignalGateAssumption ==
  /\ ManualSymbols \subseteq Symbols
  /\ {SingleEntryPolicy, FlakyContext, FlakyMonitor, Exceptions, LostReplies} \subseteq BOOLEAN
  /\ MaxTickets \in Nat /\ MaxBoots \in Nat

VARIABLES
  phase,             \* SignalRegistry._signals: phase per symbol, NONE if no record
  cooling,           \* symbols whose last failure is younger than failure_cooldown_s
  entryCool,         \* symbols whose _last_entries is younger than entry_cooldown_s
  positions,         \* open at the broker
  issued,            \* tickets the broker has issued
  known,             \* PositionCloseDetector._known
  cycle,             \* the running cycle: its stage, symbol and position context
  bootCount

cycleVars == <<phase, cooling, entryCool>>
positionVars == <<positions, issued>>
gateVars == <<cycleVars, positionVars, known, cycle, bootCount>>

Phase == {"NONE", "PENDING", "EXECUTING", "OPEN", "CLOSED", "FAILED", "SKIPPED"}

Position == [ticket : 1..MaxTickets, symbol : Symbols, magic : {"ours", "other"}]

IsActive(s) == phase[s] \in {"PENDING", "EXECUTING", "OPEN"}

Own(book) == {t \in book : t.magic = "ours"}

On(s, book) == {t \in book : t.symbol = s}

SignalTypeOK ==
  /\ phase \in [Symbols -> Phase]
  /\ cooling \subseteq Symbols /\ entryCool \subseteq Symbols
  /\ positions \subseteq Position /\ known \subseteq Position
  /\ issued \in 0..MaxTickets /\ bootCount \in 0..MaxBoots
  /\ \A t \in positions \cup known : t.ticket <= issued
  /\ cycle \in [stage : {"idle", "analyse", "guards", "observe"}, symbol : Symbols, own : BOOLEAN]

SignalInit ==
  /\ phase = [s \in Symbols |-> "NONE"] /\ cooling = {} /\ entryCool = {}
  /\ positions = {} /\ issued = 0 /\ known = {}
  /\ cycle \in [stage : {"idle"}, symbol : Symbols, own : {FALSE}]
  /\ bootCount = 0

At(stage) == cycle' = [cycle EXCEPT !.stage = stage]

-----------------------------------------------------------------------------
(* Signal registry                                                         *)

ShouldConvene(s) == ~IsActive(s) /\ ~(phase[s] = "FAILED" /\ s \in cooling)

\* _transition: a symbol without a record is left alone.
Transition(closed, p) ==
  phase' = [s \in Symbols |-> IF s \in closed /\ phase[s] # "NONE" THEN p ELSE phase[s]]

\* open_signal, reached only when no signal is live.
OpenSignal(s) == phase' = [phase EXCEPT ![s] = "PENDING"]

-----------------------------------------------------------------------------
(* One cycle                                                               *)

\* _own_position_ticket over the context's current_positions; no list, no
\* readable entry and no context all mean "no position of ours".
HasOwnPosition_SameSymbol(s) ==
  LET seen == On(s, Own(positions)) # {}
  IN  IF FlakyContext THEN {seen, FALSE} ELSE {seen}

HasOwnPosition(s) ==
  LET seen == Own(positions) # {}
  IN  IF FlakyContext THEN {seen, FALSE} ELSE {seen}

\* The scheduler builds the context, then run() consults the registry.
BeginCycle(s) ==
  /\ cycle.stage = "idle"
  /\ \E own \in HasOwnPosition(s) :
       cycle' = [stage |-> IF ShouldConvene(s) THEN "analyse" ELSE "observe",
                 symbol |-> s, own |-> own]
  /\ UNCHANGED <<cycleVars, positionVars, known, bootCount>>

\* Stale data, a supervisor error, no proposal, a canonical block: no signal.
NoSignal ==
  /\ cycle.stage = "analyse"
  /\ At("observe")
  /\ UNCHANGED <<cycleVars, positionVars, known, bootCount>>

Signal ==
  /\ cycle.stage = "analyse"
  /\ OpenSignal(cycle.symbol)
  /\ At("guards")
  /\ UNCHANGED <<cooling, entryCool, positionVars, known, bootCount>>

\* HTF veto, Risk Gate, the guards, single entry, entry cooldown or distance,
\* zone entry, final re-validation.
Refuse ==
  /\ cycle.stage = "guards"
  /\ Transition({cycle.symbol}, "SKIPPED")
  /\ At("observe")
  /\ UNCHANGED <<cooling, entryCool, positionVars, known, bootCount>>

\* The exits that do not mark the signal: risk gate error, no engine, order
\* build error, canonical signal or fan-out error, execution error.
Abort ==
  /\ Exceptions
  /\ cycle.stage = "guards"
  /\ At("observe")
  /\ UNCHANGED <<cycleVars, positionVars, known, bootCount>>

EntryAllowed ==
  /\ cycle.stage = "guards"
  /\ ~(SingleEntryPolicy /\ cycle.own)
  /\ cycle.symbol \notin entryCool

\* The broker opens a position under a new ticket.
Fill(s, magic) ==
  /\ issued < MaxTickets
  /\ issued' = issued + 1
  /\ positions' = positions \cup {[ticket |-> issued + 1, symbol |-> s, magic |-> magic]}

ExecuteOk ==
  /\ EntryAllowed
  /\ Fill(cycle.symbol, "ours")
  /\ entryCool' = entryCool \cup {cycle.symbol}
  /\ Transition({cycle.symbol}, "OPEN")
  /\ At("observe")
  /\ UNCHANGED <<cooling, known, bootCount>>

\* The engine reports failure; the order may have filled all the same.
ExecuteFailed ==
  /\ EntryAllowed
  /\ \/ UNCHANGED positionVars
     \/ LostReplies /\ Fill(cycle.symbol, "ours")
  /\ cooling' = cooling \cup {cycle.symbol}
  /\ Transition({cycle.symbol}, "FAILED")
  /\ At("observe")
  /\ UNCHANGED <<entryCool, known, bootCount>>

-----------------------------------------------------------------------------
(* Close detection and time                                                *)

Observe_NoMark ==
  /\ cycle.stage = "observe"
  /\ known' \in IF FlakyMonitor THEN {positions, {}} ELSE {positions}
  /\ At("idle")
  /\ UNCHANGED <<cycleVars, positionVars, bootCount>>

\* _monitor_positions at the end of every cycle: each ticket that disappeared
\* marks its symbol closed, whatever the record's phase or ticket.
Observe ==
  /\ cycle.stage = "observe"
  /\ known' \in IF FlakyMonitor THEN {positions, {}} ELSE {positions}
  /\ Transition({t.symbol : t \in known \ known'}, "CLOSED")
  /\ At("idle")
  /\ UNCHANGED <<cooling, entryCool, positionVars, bootCount>>

CooldownOver(s) ==
  /\ s \in cooling
  /\ cooling' = cooling \ {s}
  /\ UNCHANGED <<phase, entryCool, positionVars, known, cycle, bootCount>>

EntryCooldownOver(s) ==
  /\ s \in entryCool
  /\ entryCool' = entryCool \ {s}
  /\ UNCHANGED <<phase, cooling, positionVars, known, cycle, bootCount>>

-----------------------------------------------------------------------------
(* Broker and process                                                      *)

\* Another EA, or a person, trades the same account.
OpenByHand(s) ==
  /\ s \in ManualSymbols
  /\ Fill(s, "other")
  /\ UNCHANGED <<cycleVars, known, cycle, bootCount>>

PositionCloses(t) ==
  /\ t \in positions
  /\ positions' = positions \ {t}
  /\ UNCHANGED <<cycleVars, issued, known, cycle, bootCount>>

\* Registry, _last_entries and _known live in memory only.
RestartSignals ==
  /\ bootCount < MaxBoots
  /\ bootCount' = bootCount + 1
  /\ phase' = [s \in Symbols |-> "NONE"] /\ cooling' = {} /\ entryCool' = {}
  /\ known' = {}
  /\ At("idle")
  /\ UNCHANGED positionVars

RunCycle ==
  \/ \E s \in Symbols : BeginCycle(s)
  \/ NoSignal \/ Signal \/ Refuse \/ Abort \/ ExecuteOk \/ ExecuteFailed
  \/ Observe

SignalNext ==
  \/ RunCycle
  \/ \E s \in Symbols : CooldownOver(s) \/ EntryCooldownOver(s) \/ OpenByHand(s)
  \/ \E t \in positions : PositionCloses(t)
  \/ RestartSignals

SignalSpec == SignalInit /\ [][SignalNext]_gateVars

\* The feed keeps emitting events, and a cycle that began runs to its end.
SignalFairSpec == SignalSpec /\ WF_gateVars(RunCycle)

-----------------------------------------------------------------------------
(* Properties                                                              *)

\* One position of ours at a time across all symbols (the single-entry policy,
\* pipeline.run step B4), although the policy reads the book at the start of
\* the cycle and the broker, lost replies and restarts act until the order is
\* sent.
OneEntry ==
  \A t, u \in Own(positions) : t = u

\* The committee never convenes for a symbol while a position of ours on it is
\* open (pipeline.run step 0, signal_registry.py step 5): the OPEN phase must
\* outlive the position it stands for.
CommitteeRests ==
  cycle.stage = "analyse" => On(cycle.symbol, Own(positions)) = {}

\* A close the detector can see clears the symbol's signal: once a known ticket
\* is gone from the book, some later observation makes the symbol convenable.
KnownCloseClears ==
  \A s \in Symbols :
    On(s, known \ positions) # {} ~> ~IsActive(s)
=============================================================================
