# Verification of the XynnBot trading service

TLA+ specifications, TLC models and TLAPS proofs for the autonomous MT5 trading
service under `services/python/src` (written `P/` below) and one of its operational
scripts. A failure of this code is expensive in money and hard to provoke in a
test: an order sent twice, an order nobody remembers, a stop that does not stop, a
trade decided on stale or contradicted evidence, a gate that never opens again.

Every definition that stands for code has an entry in `PROJECT.json` (`map`) with
the lines it was translated from.

## 1. Inventory

The system turns market events into orders and learns from what becomes of them:

    bars, news -> detector, snapshot -> EventQueue -> AutonomousScheduler (EventGate)
      -> TradingPipeline: registry gate, freshness gate, committee, proposal,
         zone gate, sizing, risk gate, execution / reconciliation / readiness guards
      -> one order, or a fan-out to the armed accounts
      -> ExecutionEngine -> MT5 terminal
    after each cycle: position monitor, stop ladder, close detector
      -> review, ledger, lessons, agent memory; registry freed; Telegram told
    every N cycles:   reconciliation of ledger and broker book
    at start-up:      stores, agents, settings, recovery, then the loops; MT5 last
    beside it:        LLM advisor, research lab, strategy registry, paper trading,
                      dashboard API, operational drills

| Component (`P/`) | State it keeps | Operations | What is hard about it | What makes it correct |
|---|---|---|---|---|
| Execution engine, order ledger (`execution/engine.py`, `state_machine.py`, `persistence/order_state_store.py`) | pending and completed keys; three copies of the ledger | `execute_order` with retries and adoption, `mark_closed`, reload | concurrent callers, lost replies, torn writes, a crash at each step | at most one order per key; no order forgotten; every call returns |
| Execution guard (`risk/circuit_breaker.py`, `risk/kill_switch.py`) | breaker state and failures; kill switch, its file | admit, record, trip, reset in two steps | outcomes recorded late; swallowed exceptions | a trip halts trading until a later request is confirmed; an open breaker recovers |
| Reconciliation, recovery (`execution/reconciliation*.py`, `restart_recovery.py`) | cycle counter, last outcome, recovery report | tick, ordered restart sequence, gates | failed reads that look like an empty book; crash orphans | orphans block, at start-up and later |
| Signal registry, pipeline gates (`orchestration/signal_registry.py`, `pipeline.py`) | phase per symbol, cooldowns, last entries | `run` with about twenty exits | stale position context, other traders on the account | one position at a time; no symbol stuck by a close |
| Event path (`trading/feed_loop.py`, `event_engine.py`, `scheduler.py`, `risk/monitor.py`) | cooldowns, bounded queue, wake flag, gate memory | poll, route, enqueue, wake, drain, stop | three threads; full queue; wake-ups lost between two steps | no event waits unnoticed or for ever |
| Fan-out, terminals (`execution/fanout.py`, `mt5/terminals.py`) | per-account ledger, selection, arming, process-wide binding | dispatch to N accounts, select, probe, arm | the binding is shared with the dashboard; partial failure, redelivery | at most once per account; the approved volume; the right terminal |
| Position care (`monitoring/trade_manager.py`, `execution/sltp_manager.py`, `review/`, `persistence/`) | entry contexts, ledger, reviews | ladder of stops, close, review | moving prices, settings and anchors; failing writes | stops only tighten; profit is secured; one review per close |
| Entry chain (`risk/`, `pipeline._complete_proposal` to `_revalidate_final_order`) | – | complete, size, cap, gate, normalise, revalidate | rounding and defaults after the check they were checked by | the sent order keeps budget, limits and sides |
| Zone entry (`trading/entry_zone.py`, `trigger_engine.py`) | waiting signal per symbol | detect, plan, wait, trigger | zones detected anew at each evaluation | no entry from a spent zone |
| Market data (`trading/events.py`, `market_snapshot.py`, `market_freshness.py`) | last reading, cached snapshot | detect, cache, judge | time passing between steps; missing values | no crossing missed; nothing stale analysed |
| Committee (`agents/`, `market/intelligence.py`) | agent memory | call specialists, score, synthesise | deadlines, failures, conflicting evidence, two fall-backs | a trade has evidence behind it; a cycle ends |
| LLM advisor, registry (`llm/`) | budget, cache, single-flight lock | advise, route, discover | threads queueing for one lock; resets beside charges | the gateway is not hammered |
| Research (`research/`) | experiments, results, append-only file | simulate, compare, replay | order of events in one bar; two writes per result | stops bound losses; completed means there is a result |
| Strategy registry (`strategy/`) | versions, active one | create, edit, promote, retire | sequences over several names | the running configuration changes by governance only |
| Learning (`review/auto_trigger.py`, `learning/`) | lessons, memory, patterns, two stores, engine | review a close, rehydrate | crashes between writes, repeated notices | evidence is earned; a closed trade was reviewed |
| Paper trading (`paper/`) | account, holdings, history | simulate, book, close, reset | updates in several steps of several calls | the books balance |
| Telegram (`telegram/`) | message per signal, digest, offset | send or edit, collect, flush, poll | overlapping cycles, cancelled timers, failed replies, restarts | the tracker edits the message it sent; a batch is handed over; no command is lost |
| Start-up and settings (`main.py`, `orchestration/runtime.py`, `system/settings_store.py`) | task list, runtime, settings file | start, apply, put, stop | every step may fail; lazy construction | the operator's caps are in force; the runtime sees the broker |
| News provider (`market/news_feed.py`) | caches, cooldown, file | fetch, throttle, reload | unlocked threads, partial failure | last good data is served while the service runs |
| Operational drills (`scripts/run_ops_drills.py`) | evidence file; the host | seven drills, rollback, record | abandoned threads beside later drills | the services answer again with their own configuration |
| Control plane, harnesses, read models, API, web | own data | reports | – | see section 6 |

Components interact by direct calls on one asyncio loop, through the shared order
ledger, the process-wide signal registry, event queue, settings store and MT5
binding, and through the broker's book, which anybody may change.
`TradingPipeline.run` is synchronous, so cycles do not overlap on the loop; worker
threads exist for the feed, the risk monitor, Telegram, the agents and every
synchronous HTTP handler.

## 2. Modules

| Module | Models | Checked by |
|---|---|---|
| `AtMostOnceDispatch` | the abstract promise: a key is reserved before it is dispatched, and dispatched once | refined by `OrderExecution` and, per signal and account, by `FanOut` |
| `OrderExecution` | `execute_order` over the three copies of the ledger | `dispatch` |
| `ExecutionGuard`, `Reconciliation`, `SignalGate` | the gates in front of the engine | `gates`, `boot_blind` |
| `EventPath` | feed, queue, gate, scheduler, risk monitor | `desk` |
| `FanOut` | canonical fan-out, terminals, arming | `dispatch` |
| `PositionCare` | stop ladder, entry context, close, review | `position` |
| `EntryChain`, `ZoneEntry`, `MarketData` | from the market to a request | `entry`, `market_stale` |
| `Analysts`, `Committee` | operators on the evidence of a cycle; the cycle | `committee`, `committee_conflict` |
| `Advisor`, `Backtest`, `Experiments`, `Strategies`, `Learning`, `Paper`, `OpsDrills` | services beside the trading path | `offline` |
| `Startup`, `Notices`, `NewsFeed` | what surrounds it | `desk`, `startup_live`, `news_restart` |
| `*Proofs` | theorems, see section 4 | `tlapm` |
| `MCCommittee` | constants for TLC | |
| `MCDispatch`, `MCGates`, `MCEntry`, `MCOffline`, `MCDesk` | several modules in one run | |

A module with several components in one run (`MCDispatch`, `MCGates`, `MCEntry`,
`MCOffline`, `MCDesk`) composes them by a variable `focus`: the parts share no state in these
models, so each behaviour moves one of them and the others rest, which covers what
each can do without the product of their states. Where components do share state
they are one module: breaker and kill switch, queue and scheduler, fan-out and
terminals, detector and registry, ladder and close detector, settings and runtime.

How state and actions correspond to the code, module by module:

**OrderExecution.** A thread inside `execute_order` is a program counter; one step
is the code between two points at which another thread, a failing write or a crash
can intervene. `pending`, `completed` are the engine's registries, `ledger` is
`state_machine._order_store`, `cache`, `file`, `healthy`, `corrupt` are the
`OrderStateStore`; `landed` and `positions` are the broker. Broker replies are the
classes the engine tells apart; an ambiguous one may or may not have landed.

**ExecutionGuard.** `Admit` is `check_can_execute` with its move to HALF_OPEN;
outcomes come later, or not at all. `halted` and `requested` are history variables.

**Reconciliation.** A ledger is the set of tickets it holds open. Two copies are told
apart because the code reads different ones. Reads return what the connector's code
returns, so a failed one is an empty list except where `get_positions_ex` says
otherwise; `FlakyReads` names the callers whose reads may fail, all of them in
the run. `blind` remembers that the second read of start-up did not show the book, and
`bootEmpty` that the ledger was empty at that start.

**SignalGate.** A cycle is `BeginCycle`, then `NoSignal` or `Signal`, then `Refuse`
(every exit that marks the signal SKIPPED), `Abort` (every exit that marks nothing),
`ExecuteOk` or `ExecuteFailed`, and `Observe`. The book changes between any two.

**EventPath.** The feed routes what a poll found one event at a time and wakes the
loop afterwards (`OnEmit`); the risk monitor enqueues and wakes in two steps; the
loop clears the flag, drains by priority, and sleeps after a pass without events.
`stamp` is a fingerprint: bars carry no `bar_time`, so it is the time of the poll.

**FanOut.** `TakeTarget` re-attaches the binding and reads the account,
`ProcessAccount` normalises and gates, `PersistKey` writes the intent, `SendAccount`
goes through the engine's own permission check to the terminal. In between terminals
start, stop and fail to be attached. The dashboard's `SelectTerminal`,
`ProbeAccounts`, `ArmTerminal` and `Disarm` act between two dispatches only: their
handlers and the dispatch run on one loop, and the dispatch does not give it up.

**PositionCare.** `Manage` reads, `ManageTicket` decides and sends, and the price
moves in between; settings are read at each decision. Every store is a cache and a
file. Prices are multiples of the trade's risk R.

**EntryChain.** Deterministic given a context, a proposal and the settings: volumes
and prices are integers on their grids and all comparisons are exact rationals.

**ZoneEntry, MarketData.** A behaviour draws a series of bars or readings; an order
block, a gap or a crossing is found by the code's own conditions.

**Committee.** `Analysts` keeps the scoring arithmetic in integers (twentieths and
thousandths); a specialist answers, raises, or hangs past the deadline.

**Advisor, Backtest, Experiments, Strategies, Learning, Paper.** One action per
request or step between two writes; a crash loses everything but the files.

In `Experiments` a line of the log may be cut short by a failing write or a crash, or
be under way in two blocks; a record that meets such a line is glued to it and neither
is read back. `swallowed` remembers the experiments that lost a result in this way.

**Startup.** The lifespan's steps in order, each of which may fail; the runtime is
built by whichever step asks for it first and captures what there is.

**Notices.** A tracker update and its delivery are one step; in each chat the message
may arrive and its answer be lost, or the last edit fail. The messages stay in the
chats whatever becomes of the tracker: `live` counts those that do not show their
review, `stray` those among them that no state refers to. A timer may fire after the
cancel that came too late for it; without a window (`windowed`) none is armed.

**NewsFeed.** A fetch looks at the throttles when it starts and stores its outcome
later, with the time it started. A save is three steps: the cache is set, the payload
is built (`BuildPayload`), the file is emptied and written (`WritePayload`); callers
interleave between any two.

**OpsDrills.** A drill is a thread with stages; a restart script is a process of its
own (`KillListener`, `StartService`, `StartWeb`). `LongestFor` adds up the code's own
timeouts, so that only a stage that can last beyond the deadline is met by it. The
host has the trading service with the configuration it serves, Node and dashboard
(`web`), the router, the selected terminal, the others, and the binding. A drill of
the terminal kills every one; only the selected one is started again, and the rollback
starts it only if none runs. Attaching may fail at any time. It is taken for granted
that a start command brings up what it starts, and that the dashboard is built.

## 3. Runs

| Run | Instance | Properties |
|---|---|---|
| `dispatch` | engine: 2 threads, a key each, 2 calls, 1 retry, 1 crash; fan-out: 2 terminals, 2 accounts, one signal dispatched twice, terminals that stop; fair to the threads | `AtMostOnce`, `NoLostOrder`, `SuccessIsReal`, `EveryCallReturns`, `ImplementsAtMostOnce`, `SentIsApproved`, `OncePerAccount`, `OrdersWhereMeant` |
| `gates` | threshold 3, 2 cycles in flight; 2 tickets, interval 2, every read of the comparisons may fail; 2 symbols, 2 entries; a restart of each; fair | `TripHalts`, `OpenBreakerRecovers`, `BootOrphansBlock`, `OrphanEventuallyBlocks`, `OneEntry`, `KnownCloseClears` |
| `position` | a long or short position over 7 prices, failing writes, 1 restart; fair | `ReviewedOnce`, `StopOnlyTightens`, `Tp1Secures` |
| `entry` | contexts over two directions, spreads, digits, caps and risk settings; 5 bars of 4 shapes; 2 time units around the age limit | `BudgetKept`, `SentKeepsLimits`, `StopOnLosingSide`, `NoEntryFromSpentZone`, `NoCrossingMissed` |
| `committee` | 2 cycles over markets that move each analyst across its thresholds; fair | `EvidenceBacked`, `CycleEnds` |
| `offline` | see the configuration; price paths over 3 levels, 2 readers, 2 trades, 2 requests over 1 experiment, 2 keys, one invocation of the drills | `StopBoundsLoss`, `CompletedHasResult`, `EvidenceIsEarned`, `ClosedIsReviewed`, `NoHammering`, `RunningConfigStable`, `PaperBooksBalance`, `ServicesRestored` |
| `desk` | 2 starts, 1 edit by hand; a queue of 2, 4 arrivals of the feed, the risk monitor and trade closes; 2 symbols, 3 items, 4 updates, 1 restart; 2 callers, 2 time units; fair to timers and the loop | `NoLostWake`, `QueueDrains`, `OneMessagePerSignal`, `QueuedIsFlushed`, `NoCommandLost`, `CapsAreOperators`, `LastGoodServed` |

`dispatch`, `committee` and `desk` take about three minutes with two workers, the
others a minute or less.

Every property of these runs is refuted by at least one mutant, a small plausible
change of a mapped definition (`PROJECT.json`, `mutants`): a dropped guard, a reset
in the wrong state, an ambiguous reply taken for a rejection, a ledger written before
the review, a second look left out, a rollback that only follows a drill that
returned.

Five runs state what a comment promises and TLC refutes; `findings` quotes the line:

| Run | What TLC finds |
|---|---|
| `boot_blind` | the second position read of start-up fails, its flag is dropped, and with an empty ledger the process becomes ready although a position of ours is open |
| `news_restart` | a thread saves the payload it built before another fetched and saved the calendar: the file loses it |
| `startup_live` | the runtime is built while the settings are applied, before the MT5 binding goes live, and keeps the no-op reconciliation providers: a live service compares nothing with the broker |
| `committee_conflict` | the supervisor suppresses a proposal because of an unresolved conflict, and the pipeline then takes the synthesizer's own proposal |
| `market_stale` | a snapshot's age is frozen when it is received, so one that was fresh once is analysed at any later time |

### Bounds

- Two threads suffice for a race and two keys to show that keys do not disturb each
  other; the second call lets a key be submitted again after a crash. One retry gives
  an attempt after a failure. A second crash starts from a file of the same kind.
- The breaker's counter matters up to its threshold. Interval 2 has a cycle that
  compares and one that does not. Of two tickets one may be in the ledger and the
  other lost in a crash or another trader's.
- A queue of two is full with one event of each priority in competition; four
  arrivals overflow it and refill it once.
- Two terminals and accounts can be confused with each other; the second dispatch is
  the redelivery. One unit of volume above the lot step makes normalisation matter.
- The seven prices of `position` lie below, on and above every rung of the ladder.
- `entry` takes quotes and contexts on both sides of each comparison of the chain;
  five bars are the shortest series in which a zone forms, is left and is touched
  again; the readings take every order of two averages with equal and missing ones.
- `committee` varies one analyst at a time around a base market, and pairs in
  agreement and conflict: scores are sums, so a threshold is crossed by one of them.
- `offline`: one experiment of two requests has every order of their lines in the log;
  two readers make a queue for the lock; three price levels put a bar's
  range on both sides of a stop; one invocation of the drills runs all seven, or each
  alone, with every combination of abandoned threads (a second adds a run from a host
  that is whole again).
- `desk`: the second start reads what the first one left; one position that closes
  and reviews of what is open already give each message every way to end; three items
  fill the digest; four updates are two lost and two answered commands; a step of
  the clock passes the time to live and the gap, and the operator's refresh goes past
  them and the cooldown. `news_restart` needs no restart:
  it looks at the file.

`CHECK_DEADLOCK FALSE` is set where a bounded behaviour may stop: when the calls,
arrivals, starts, invocations or edits an instance allows are used up.

### Fairness

- `OrderExecution`: each thread's step; nothing blocks a call, network time-outs end
  `order_send`.
- `ExecutionGuard`: time passes, cycles keep coming, and one past the gate ends.
- `Reconciliation`: the lifespan finishes recovery, cycles keep coming, and a due
  comparison that can read again and again eventually succeeds (strong fairness: a
  terminal that never answers refutes nothing).
- `SignalGate`: events keep coming and a cycle that began ends. Nothing is assumed
  about symbols, cooldowns or the broker.
- `EventPath`: the loop, the feed's routing and the monitor's wake-up go on; polls and
  market moves need not.
- `PositionCare`: management keeps being called on each open position, and a stop
  order that is sent again and again is accepted at some time.
- `Committee`: the cycle's own steps and the deadline's clock; a specialist owes
  nothing.
- `Notices`: an armed timer fires, and its callback runs.

## 4. Proofs

`tlapm` checks them for all values of the constants, under the assumption each module
names: bounds are naturals, flags are Booleans, sets are included in one another or
finite. TLC evaluates the same assumptions in every run. All safety properties of the
passing runs have a theorem; each also has its run, which is where it was
first checked, and mutants that break it.

| Module | Theorems about |
|---|---|
| `OrderExecutionProofs` | `OrderExecution`, `AtMostOnceDispatch` |
| `GateProofs` | `ExecutionGuard`, `Reconciliation`, `SignalGate` |
| `PositionCareProofs` | `PositionCare` |
| `EntryChainProofs` | `EntryChain`, `MarketData`, `ZoneEntry` |
| `SignalPathProofs` | `EventPath`, `Committee` with `Analysts`, `FanOut`, `AtMostOnceDispatch` |
| `DeskProofs` | `Notices`, `Startup`, `NewsFeed` |
| `SumProofs` | sums over finite sets, for the two that use them |
| `OfflineProofs` | `Experiments`, `Learning`, `Strategies`, `Backtest`, `Advisor`, `Paper`, `OpsDrills` |

Each proof has the same shape: a named invariant, one lemma (or step) per action that
can disturb it, the property from the invariant. What follows says why the property
alone is not inductive, and what each theorem assumes beyond the module's assumption.

**OrderExecution.** `TypeCorrect`. `Invariance` connects the three copies of the
ledger: a thread past `PersistSubmitting` holds a key whose burned state is on disk, a
key without such a record was never sent, and no two threads past the duplicate check
hold the same key. At-most-once alone says nothing about what the file holds when the
process dies. From it follow `AtMostOnceHolds`, `NoLostOrderHolds` and `Refinement`.
The assumption `Production` (durable state is required; concurrent calls have keys of
their own) is what the runtime configures: a fresh key per proposal, one cycle at a
time. Its second half cannot be dropped, see section 5. `SuccessIsRealHolds` does not
need it. It follows the tickets (`RealInv`): every copy of a record and every call
names a ticket the broker issued for that key, or none. Its assumption `LocatorExact`
says that a lookup by symbol, volume and magic number finds no other call's position,
or that there is no lookup, which is the case in this build (section 5).

**ExecutionGuard.** `GuardTypeCorrect`; `TripHaltsHolds` with the strengthening that a
pending reset after a trip was requested after that trip. Without it `ConfirmReset`
might clear a halt.

**Reconciliation.** `RecTypeCorrect`; `BootOrphansBlockHolds`, whichever reads fail:
orphans of a crash were issued before the restart and never enter the ledger, since
tickets are issued once, and until recovery has ended nothing touches the ledger
(`OrphansOutsideLedger`). The exception in the formula is what the code gets wrong and
no more: the second read must not have shown the book *and* the ledger must have been
empty. `boot_blind` shows that the exception is met; the promise without it is refuted.

**SignalGate.** `SignalTypeCorrect`; `OneEntryHolds` with the strengthening `Sighted`: a
cycle that saw no position of ours runs while there is none. This is where stale
context would break the policy, and it holds because cycles do not overlap.
`CommitteeRestsHolds` (no committee convenes over an open trade) with `OpenWhileHeld`
and `StageMatchesPhase`, under `Undisturbed`; it is proved and has no run.

**FanOut.** `FanInvariant` is `FanInv`: while a target is processed the binding is on
it or on nothing (`Served`), and an order goes out under a stored key that none went
out under (`Reserved`). `SentIsApprovedHolds` and `OrdersWhereMeantHolds` follow; the
second speaks of steps and needs to know where the binding is before each.
`OncePerAccountHolds` is the refinement of `AtMostOnceDispatch` with a signal and an
account for a key: a step sends under a reserved key, reserves one, or stutters.
`sent`, a history variable, counts the orders per signal and account; `orders`
counts them per terminal, and two terminals may share a login.

**PositionCare.** `TypeCorrect`. `StopOnlyTightensHolds` rests on `SeenInv`, the stop
that management read is still the broker's when it modifies it, and on lemmas about
the rungs: each candidate is dropped unless it improves the current stop.
`ReviewedOnceHolds` rests on `CloseInv`: a ticket the detector knows has no review
yet. It assumes `FlakyRead = FALSE`; with failing reads the property is false
(section 5).

**EntryChain.** `ChainInv` says what each stage hands to the next. `BudgetKept` is not
inductive because the volume is computed for one stop distance, capped, approved,
rounded and sent with another: `SizedInv` (computed volumes fit the budget),
`ApprovedInv` (the proposal passed the gate), `BuiltInv` (rounding costs less than a
digit), `ClearedInv` (the request passed again, as it is). The arithmetic is over all
integers; the lemmas on rounding and on products of volumes and distances are separate
because the prover does linear arithmetic well and little else.

**MarketData, ZoneEntry.** `NoCrossingMissedHolds`: the remembered side agrees with
the remembered averages (`SideInv`), so a side that changes is a crossing the detector
sees. `NoEntryFromSpentZoneHolds`: a zone that was consumed is consumed at each later
evaluation (`ZoneInv`, lemma `ConsumedStays`): touches and breaks are facts about bars
that stay.

**EventPath.** `TypeCorrect` with the bound of the queue; from it `NoLostWakeHolds`,
which is inductive given the types: the loop goes to sleep on an empty queue only, and
whoever fills it afterwards still has to wake it.

**Committee.** `EvidenceBackedHolds`, with `CommitteeInv`: what was heard is what the
called specialists say, in order, or that they failed; the lead's answer is the one
computed from it or the neutral one; the proposal is the one computed from that. The
lemmas: every answer has a confidence that is a natural number, a lead's direction
was dominant in what it heard, and a proposal to trade has the lead's direction. That
the macro score, a sum over a snapshot's releases, is an integer needs that they are
finitely many (`MarketsAssumption`) and `SumProofs`.

**Notices, Startup, NewsFeed.** `OneMessagePerSignalHolds`: of the messages in a chat
that do not show their review, all but one were given up by a lost answer, a last edit
that failed or a restart (`MessagesHeld`: the one left is the one the state has the id
of). The theorem does not say that a restart leaves one message only: it does not, see
section 5. `NoCommandLostHolds`:
updates fetched are consecutive and start at the first one not handled, so confirming
the offset forgets nothing else. `CapsAreOperatorsHolds`: from the safety gate on
there is a pipeline, and from its construction on it agrees with the store; the
property looks at the last step only. `LastGoodServedHolds`, an action property within
one life of the process: no step of a fetch or a save, in whatever order the callers
take them, empties a cache (`ParsedKeeps`). What the file keeps for the next life is
another promise, which the code does not keep (`news_restart`).

**Experiments, Learning, Strategies.** `CompletedHasResultHolds`: the status is
written after the result, in memory and in the log, unless persistence has ended
(`StatusBehindResult`, `LogHasResult`), so a replay at any point finds both. Lines may
be torn, glued to the next one and interleaved; an experiment whose result was lost by
being glued to an unfinished line is in `swallowed`, and the theorem speaks of the
others. `ClosedIsReviewedHolds`: a review that the store takes
for a duplicate is in the file, or its writing failed. `RunningConfigStableHolds`:
the version in force is active (`InForceIsActive`), and an active version is read-only.

**Backtest.** `StopBoundsLossHolds`, for both simulators and every price path: whoever
closes a trade, its price is the stop or on the better side of it (`NotStopped`,
`SettleKeeps`).

**Advisor.** `NoHammeringHolds`: an outcome is remembered at a time the clock has shown
(`RegistryTimes`) and the one who fetches holds the lock.

**OpsDrills.** `ServicesRestoredHolds` speaks of the services, the router and the
selected terminal, not of the other terminals and the binding (section 5). It assumes `DrillTimeout >= 270`; the script's default
is 300. 270 seconds is what the longest stage that leaves something broken may take,
by the code's own time-outs; a shorter deadline may meet a thread there (section 5).
`DrillInv` says whose everything is: what is out of order belongs to the drill that is
awaited, is put back by the rollback that follows it, or by a restart script that is
still to run. A thread that was abandoned is past the stages that break something.

**Sums.** An induction theorem of the library takes the statement as an operator, which
the provers cannot instantiate. Where a recursive definition has to be reasoned about
the proofs look at the least number, or a smallest set, at which the claim fails
(`LeastElement` and `SmallestMember`, from the library's `WFMin`): there the claim
holds for the set with one element less, and the recursive definition leads to a
contradiction. The same argument shows first that the recursive function exists.

**Paper.** `PaperBooksBalanceHolds`, an action property. `BooksInv` keeps the balance
equal to the initial one and the history's total. It says nothing of equity, which a
change of prices alone leaves behind: only a step that books money has to restore it,
and the last thing it does is to value what is still open. What the proof needs of the
totals is that they are integers and that one more row adds its profit.

**Evidence.** `EvidenceIsEarnedHolds`. That no trade has more lessons than close
notices is not inductive, since the lesson comes five steps after the notice: `EvidenceInv`
counts the lesson a review under way still owes as if it were there (`LessonDue`), and
says so of the log in memory and of its file, either of which a restart may make the
other. The second half, over all trades, follows because a lesson of one category is
one of its trade's lessons, and smaller terms have a smaller sum.

**Only model-checked.** Liveness, since fairness and ENABLED are beyond the prover:
`EveryCallReturns`, `OpenBreakerRecovers`, `OrphanEventuallyBlocks`, `KnownCloseClears`,
`QueueDrains`, `Tp1Secures`, `CycleEnds`, `QueuedIsFlushed`. The five refuted
properties of section 3.

## 5. Disagreements between the code and what it says of itself

Besides the five with a run. Those marked TLC can be seen by changing the constant
that is named.

Order path:

- `engine.py:593`: the duplicate check and the registration of a pending order are two
  critical sections, so two threads with one key both pass, though `engine.py:246`
  says they cannot. (TLC: a `KeysOf` that shares a key refutes `AtMostOnce`.)
- `runtime.py:811`: the locator of a lost reply calls `connector.positions()`, which
  does not exist; a filled order whose reply was lost is never adopted. `dispatch` lets a
  lookup come back empty, so its properties hold of the build.
- `runtime.py:592`: nothing loads the kill switch's file; a restart clears a locked
  switch without request and confirmation.
- `reconciliation_providers.py:156`: a failed periodic read is an empty book, and may
  lift a block. `:101`: our own positions mismatch their records in magic number and
  stops, which counts as critical.
- Recovery runs once; a gate blocked at boot stays shut until the next start.
- `position_monitor.py:241` takes an unverified empty read for an empty book, so a
  failed read closes every record. Nothing calls `detect_position_changes`; it is
  modelled, with its failing read, because the ledger the gates compare with would
  change by it. No property says that its closes are real. `mark_closed` does not
  reach the copy the periodic comparison reads (`order_state_store.py:164`).
- `set_order` does not consult the transition table (`state_machine.py:107`).
- `runtime.py:271`: a ticket that disappears marks its symbol's signal closed, another
  trader's too. A position that opens and closes between two observations leaves its
  signal OPEN (`close_detector.py:97`).
- `pipeline.py:972` and the other exits by exception leave the signal PENDING, which
  blocks its symbol without a time limit.
- `runtime.py:843`: a non-default `ENTRY_MAGIC` is looked for by the single-entry policy
  and not stamped by the order builder.
- The order's levels come from the validated proposal, so a zone's plan that the
  comment at `pipeline.py:944` says the order carries is not carried. Proposals that
  come with a volume of their own are refused unless they name a commission
  (`gate.py:389`); peak equity is the current equity and daily loss is 0, so those two
  limits never bind; a risk setting below 0.1 is read as a fraction.
- `fanout.py:520` and the engine's own loop re-attach with the terminal's folder where
  `connector.py:100` wants the executable; the engine that fan-out builds does not
  require durable state; the binding has no lock; the signal's id hashes its time of
  creation, so the same decision built twice has two.

Market and events:

- `get_latest_snapshot` says only an empty symbol gets the one cached entry; an
  unknown symbol gets it too, and freshness never compares symbols.
- An average that goes above, equal, above is reported as a crossing again; a gap is
  reported inside a bar that has none; the label of the data source is read at the time
  of the cycle.
- No caller supplies `trigger_closes`, so the zone trigger reads highs as closes and
  the bar being formed as closed (`pipeline.py:2533`): a short entry's rejection never
  confirms. Closes of M30 and H1 are concatenated into one series for the bias.
- The event gate lets only trade triggers through, so trade closes and risk events
  reach the queue and no cycle; a fingerprint is stored before the cycle runs; without
  bar times two events never have the same one. The result of `enqueue` is ignored.

Committee and LLM:

- With one lead every confidence is 1; a crossing counts as bullish in both
  directions; abandoned specialists' threads are unbounded (`supervisor.py:46`); a
  timeframe with fewer than 15 prices makes momentum neutral; memory shifts weights
  though it is called advisory; news shock reads keys the provider nests one level
  deeper, so only a cycle whose HTTP request brings them can see one.
- `ai_advisor_advise` is async and blocks the loop; a refund after the cycle's reset
  is credited to the new cycle.

After the trade:

- A failed position read (`[]`) reviews every open ticket as closed. (TLC: `FlakyRead`
  TRUE refutes `ReviewedOnce`.) Closes while the service is down are never reviewed;
  fan-out fills have no entry context; positions of others are managed too; the plan
  a close record carries is overwritten by 0 (`close_detector.py:215` says it is kept).
- Breakeven is learned as a loss; a review's decision and timing scores are constants,
  so a plain loss is an analytical error; two computations of R disagree; a repeated
  notice counts twice in the lesson engine; one store keeps the first review of a
  trade and the other the last; agent memory is lost on restart; the research queue
  is never drained.
- `close_position` revalues equity before the profit is booked, so peak equity can
  exceed what the account ever had; a retried fill can be booked twice under one
  ticket; contract sizes are looked up at every use and may differ.

Around it:

- Unreadable settings become defaults, which seeding then writes over the file though
  it is "never clobbering"; a failed write is swallowed; `SettingsPatch` lacks one of
  the knobs; stopping the risk monitor waits 5 s for a sleep of 60.
- The news cooldown is one value for all sources, so a later and shorter Retry-After
  replaces a longer one, and it is not kept across restarts; a failed round leaves no
  minimum gap; one time stamp serves both caches, so a news save makes an old calendar
  fresh; the file is not written atomically, and a save cut off in the middle, or two
  at a time, leave it unreadable.
- The tracker's states live in memory: after a restart the next cycle of an open signal
  sends a second message, and the first stays unfinished for good. So it does when the
  answer to the first was lost or its last edit failed, since `on_review` drops the
  state all the same (`signal_lifecycle.py:478`), against the "ONE edit-in-place
  Telegram message per signal". With `TELEGRAM_DIGEST_WINDOW_S` at 0 no timer is armed
  (`notifier.py:303`) and a batch below `max_items` waits for the next report; a restart
  loses the batch.
- An entered signal's message can be replaced by a later cycle's although
  `signal_lifecycle.py:364` keeps it.
- The drills are "sequential only, never parallel", but a drill past its deadline goes
  on: the default of 300 s is shorter than five of the seven can take. A later drill
  can be recorded as passed without its override in force when the environment of the
  service cannot be read. (TLC: `DrillTimeout = 100` refutes `ServicesRestored`: then a
  thread may be abandoned before it restores what it overrode.) `run_one` "never
  raises", but its write of the record may.
- The drills of the terminal kill every `terminal64.exe` (`run_ops_drills.py:542`,
  `:634`) and start the selected one only; their rollback does nothing about terminals
  when any runs (`:575`, `:661`) and does not look at whether the service could be
  attached again. So the other terminals stay closed, and the service may stay
  detached, although the rollbacks are there "so the host is always restored"
  (`:533`) and the drill is recorded as it went. `ServicesRestored` leaves both out.
- A record of the research log that was cut short has no newline
  (`research/store.py:41`): after a restart the next one is glued to it and neither is
  read. If that was a result, its experiment may be shown as completed without one.
  Hydration of experiments drops the strategy type; a
  backtest on too few bars completes without its version's parameters.

## 6. What is left out, and why

- `fsync`: an append that returned survives a crash of the process, not of the machine.
- Simulation mode of the connector: reconciliation is a no-op there.
- Indicator arithmetic and LLM prose: readings and answers are inputs. Floating point
  is replaced by exact arithmetic on the grids the code rounds to.
- The learning stores are modelled with records written whole or not at all; their
  logs have the same hole as the research log, so a torn line of one trade's review
  could swallow the next one's on reload (`ClosedIsReviewed`, `EvidenceIsEarned` do not
  see it).
- The drills: a start command that does nothing, and a dashboard that was never built.
- A failed position context makes the single-entry policy permissive by design;
  `OneEntryHolds` assumes readable contexts, and an HTTP cycle that supplies an account
  but no positions is outside it.
- The v2 control plane (`system/v2_endpoints.py`, `live_readiness/`, `certification/`,
  `readiness/`, `risk/multi_level_breaker.py`, `monitoring/incidents.py`): a
  certification is a pure function of the evidence of the moment, so a property would
  repeat its conditions. Its breaker, incidents and execution quality live in memory
  and are forgotten by a restart although `recovery.py` says a halt survives one; the
  environment guard's preconditions are never set, so live is never admitted;
  `/v2/recovery/run` has defaults that always end ready; promotion and escalation have
  no caller.
- The dashboard's stream (`apps/api/src/liveStream.ts`) and the API proxy: no trading
  state. Publish rounds may overlap and send older quotes after newer ones, and a
  pipeline run that answers 504 after 5 s goes on; both are seen by a person only.
- Operational scripts other than the drills, demo and soak harnesses and the failure
  lab: one-shot tools over the engine and stores modelled here.
- The deterministic engine behind the `/trading` endpoints, walk-forward and Monte
  Carlo statistics, read models, reports, charting, storage schemas, observability:
  they compute or record and decide nothing on the order path.

## 7. Plan

1. Proofs: type correctness of the modules whose invariants carry types only as far as
   their property needs them (`Startup`, `Notices`, `OpsDrills`, `Learning`).
2. A composition of `OrderExecution` and `Reconciliation` over one ledger and book.
3. The demo validation script, which drives one order through the engine across
   processes.
