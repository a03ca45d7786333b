------------------------------ MODULE EventPath ------------------------------
(***************************************************************************)
(* How market data becomes pipeline cycles: the feed loop and the risk     *)
(* monitor (worker threads) put events into the bounded priority queue,    *)
(* the scheduler (event loop) drains it through the event gate.            *)
(*                                                                         *)
(* A pass of the scheduler is synchronous, so only the two worker threads  *)
(* run beside it.  wake() is called from those threads; asyncio does not   *)
(* promise that a sleeping loop notices it before its poll interval ends,  *)
(* so an idle loop may resume at any time and must resume some time.       *)
(* Sequence numbers stand for arrival order: the queue is kept in it.      *)
(***************************************************************************)
EXTENDS Naturals, Sequences, FiniteSets, SequencesExt

CONSTANTS
  Primaries, Fallbacks,  \* symbols the feed polls, and those it polls instead
  FeedTypes,             \* event types the detector emits, among TypeNames
  MaxSize,               \* EventQueue.max_size
  MaxPerPass,            \* max_events_per_cycle; 0 drains until empty
  Backpressure,          \* skip BACKGROUND events
  MaxEvents              \* bound on the events that enter the queue

FeedSymbols == Primaries \cup Fallbacks
NoSymbol == "none"       \* RISK_* and TRADE_CLOSE payloads carry no symbol

VARIABLES
  fresh,      \* symbols whose bars differ from the last fingerprint
  cooling,    \* (symbol, type) pairs inside event_cooldown_s
  feed,       \* the poll in progress: events still to route, and how many were
  monitor,    \* "rest", or "wake" between enqueue and wake in the risk thread
  queue,      \* EventQueue._queue, in arrival order
  arrived,    \* EventQueue._sequence
  gate,       \* EventFingerprintGuillotine._records: pair -> last fingerprint
  loop,       \* the scheduler's run loop
  wake, stopping,
  taken       \* events processed in this pass

feedVars == <<fresh, cooling, feed>>
queueVars == <<queue, arrived>>
loopVars == <<loop, taken, gate>>
pathVars == <<feedVars, monitor, queueVars, loopVars, wake, stopping>>

-----------------------------------------------------------------------------
(* Event types, one for each combination of class and priority in use      *)

\* EVENT_PRIORITY_MAP: BACKGROUND 0 ... CRITICAL 5.
PriorityOf == [DOJI |-> 0, TRADE_CLOSE |-> 2, TREND |-> 3,
               VOLATILITY_CONTRACTING |-> 3, BREAKOUT |-> 4, RISK |-> 5]
TypeNames == DOMAIN PriorityOf

ASSUME EventPathAssumption ==
  /\ MaxSize \in Nat \ {0} /\ MaxPerPass \in Nat /\ MaxEvents \in Nat
  /\ Backpressure \in BOOLEAN
  /\ FeedTypes \subseteq TypeNames
  /\ IsFiniteSet(Primaries) /\ IsFiniteSet(Fallbacks)

\* classify_event_class.
ClassOf(type) ==
  CASE type = "RISK" -> "HOUSEKEEPING"
    [] type = "TRADE_CLOSE" -> "TRADE_CLOSE"
    [] type \in {"DOJI", "TREND", "BREAKOUT"} -> "TRADE_TRIGGER"
    [] OTHER -> "CONTEXT_UPDATE"

Events == [type : TypeNames, symbol : FeedSymbols \cup {NoSymbol}, stamp : 0..MaxEvents]
Pairs == FeedSymbols \X FeedTypes
PairOf(e) == <<e.symbol, e.type>>

\* bar_time is blank on a detected event, so its fingerprint is the time of the
\* poll that detected it: here, the number of arrivals so far plus one.
Stamp == arrived + 1

SchedulerInit ==
  /\ loop = "top" /\ taken = 0
  /\ gate = [p \in Pairs |-> 0]
  /\ wake = FALSE /\ stopping = FALSE

\* The monitor's thread runs from start() on, once however often it is started.
MonitorInit == monitor = "rest"

EventPathInit ==
  /\ fresh = FeedSymbols /\ cooling = {}
  /\ feed = [todo |-> <<>>, routed |-> 0]
  /\ queue = <<>> /\ arrived = 0
  /\ SchedulerInit /\ MonitorInit

-----------------------------------------------------------------------------
(* EventQueue                                                              *)

Full == Len(queue) >= MaxSize

\* enqueue: refused when the queue is full (the statistics of refusals are left
\* out).
Enqueue(e) ==
  IF Full THEN UNCHANGED queueVars
          ELSE queue' = Append(queue, e) /\ arrived' = arrived + 1

\* The bound: producers stop when MaxEvents events have entered.
MayOffer == arrived < MaxEvents

\* The index dequeue takes: highest priority, oldest first.
Best ==
  CHOOSE i \in DOMAIN queue : \A j \in DOMAIN queue :
    \/ PriorityOf[queue[i].type] > PriorityOf[queue[j].type]
    \/ PriorityOf[queue[i].type] = PriorityOf[queue[j].type] /\ i <= j

-----------------------------------------------------------------------------
(* MarketFeedLoop (worker thread)                                          *)

MarketMoves(s) ==
  /\ s \notin fresh
  /\ fresh' = fresh \cup {s}
  /\ UNCHANGED <<cooling, feed, monitor, queueVars, loopVars, wake, stopping>>

\* The symbols a poll reads: the primaries whose market is not known to be
\* closed, the fallbacks only when there is none.
Polled(open) ==
  LET main == Primaries \cap open
  IN  IF main # {} THEN main ELSE Fallbacks \cap open

\* poll_once up to the routing: the symbols with new bars are detected and their
\* fingerprints stored; a read or a detection that fails leaves them fresh.
PollOnce ==
  /\ feed.todo = <<>> /\ feed.routed = 0 /\ MayOffer
  /\ \E open \in SUBSET FeedSymbols : \E read \in SUBSET (Polled(open) \cap fresh) :
       /\ read # {}
       /\ fresh' = fresh \ read
       /\ \E found \in SUBSET (read \X FeedTypes) : \E order \in SetToSeqs(found) :
            feed' = [feed EXCEPT !.todo = order]
  /\ UNCHANGED <<cooling, monitor, queueVars, loopVars, wake, stopping>>

\* _route_events, one event: cooldown filter, enqueue, cooldown stamp only for
\* an event that entered the queue.
RouteEvent ==
  /\ feed.todo # <<>>
  /\ LET p == Head(feed.todo)
         e == [type |-> p[2], symbol |-> p[1], stamp |-> Stamp]
     IN  IF p \in cooling
           THEN /\ feed' = [feed EXCEPT !.todo = Tail(@)]
                /\ UNCHANGED <<queueVars, cooling>>
           ELSE /\ MayOffer /\ Enqueue(e)
                /\ feed' = [todo |-> Tail(feed.todo), routed |-> feed.routed + (IF Full THEN 0 ELSE 1)]
                /\ cooling' = IF Full THEN cooling ELSE cooling \cup {p}
  /\ UNCHANGED <<fresh, monitor, loopVars, wake, stopping>>

OnEmit_NotWired ==
  /\ feed.todo = <<>> /\ feed.routed > 0
  /\ feed' = [feed EXCEPT !.routed = 0]
  /\ UNCHANGED <<fresh, cooling, monitor, queueVars, loopVars, wake, stopping>>

\* on_emit wakes the scheduler once per poll, after the last event.
OnEmit ==
  /\ feed.todo = <<>> /\ feed.routed > 0
  /\ feed' = [feed EXCEPT !.routed = 0]
  /\ wake' = TRUE
  /\ UNCHANGED <<fresh, cooling, monitor, queueVars, loopVars, stopping>>

CooldownOver(p) ==
  /\ p \in cooling
  /\ cooling' = cooling \ {p}
  /\ UNCHANGED <<fresh, feed, monitor, queueVars, loopVars, wake, stopping>>

-----------------------------------------------------------------------------
(* RiskMonitor (daemon thread): enqueue, then wake                         *)

RiskEmit ==
  /\ monitor = "rest" /\ MayOffer
  /\ Enqueue([type |-> "RISK", symbol |-> NoSymbol, stamp |-> 0])
  /\ monitor' = "wake"
  /\ UNCHANGED <<feedVars, loopVars, wake, stopping>>

RiskWake ==
  /\ monitor = "wake"
  /\ monitor' = "rest" /\ wake' = TRUE
  /\ UNCHANGED <<feedVars, queueVars, loopVars, stopping>>

-----------------------------------------------------------------------------
(* AutonomousScheduler                                                     *)

\* _run_loop: the wake flag is cleared before the drain.
BeginPass ==
  /\ loop = "top" /\ ~stopping
  /\ loop' = "drain" /\ taken' = 0 /\ wake' = FALSE
  /\ UNCHANGED <<feedVars, monitor, queueVars, gate, stopping>>

Takes_HoldsBackground(i) ==
  /\ loop = "drain" /\ queue # <<>> /\ i = Best /\ PriorityOf[queue[i].type] > 0
  /\ MaxPerPass = 0 \/ taken < MaxPerPass

\* Another event of this pass, and which one.
Takes(i) ==
  /\ loop = "drain" /\ queue # <<>> /\ i = Best
  /\ MaxPerPass = 0 \/ taken < MaxPerPass

\* Only market events carry the attribute _is_background looks at.
Skipped(e) == Backpressure /\ PriorityOf[e.type] = 0

\* EventGate.check: the class, then the fingerprint of the pair's last event.
Duplicate(e) == gate[PairOf(e)] = e.stamp
Allowed(e) == ClassOf(e.type) = "TRADE_TRIGGER" /\ ~Duplicate(e)

SkipBackground ==
  /\ \E i \in DOMAIN queue :
       /\ Takes(i) /\ Skipped(queue[i])
       /\ queue' = RemoveAt(queue, i)
  /\ UNCHANGED <<feedVars, monitor, arrived, loop, taken, gate, wake, stopping>>

\* An event the gate holds back does not count towards the pass.
GateOut ==
  /\ \E i \in DOMAIN queue :
       /\ Takes(i) /\ ~Skipped(queue[i]) /\ ~Allowed(queue[i])
       /\ queue' = RemoveAt(queue, i)
  /\ UNCHANGED <<feedVars, monitor, arrived, loop, taken, gate, wake, stopping>>

\* The pipeline runs, or raises: both count.  The gate keeps the fingerprint.
\* Inside the run the position monitor may report closed positions, each a
\* TRADE_CLOSE event and a wake-up.
Analyse ==
  /\ \E i \in DOMAIN queue : \E closes \in 0..1 :
       LET e == queue[i]
           left == RemoveAt(queue, i)
           lands == closes = 1 /\ Len(left) < MaxSize
       IN  /\ Takes(i) /\ ~Skipped(e) /\ Allowed(e)
           /\ closes = 1 => MayOffer
           /\ queue' = IF lands
                         THEN Append(left, [type |-> "TRADE_CLOSE", symbol |-> NoSymbol, stamp |-> 0])
                         ELSE left
           /\ arrived' = arrived + (IF lands THEN 1 ELSE 0)
           /\ wake' = (wake \/ closes = 1)
           /\ gate' = [gate EXCEPT ![PairOf(e)] = e.stamp]
  /\ taken' = taken + 1
  /\ UNCHANGED <<feedVars, monitor, loop, stopping>>

\* The end of process_available (the reconciliation runner ticks here, see
\* Reconciliation) and of the loop body: sleep only after a pass without events.
EndPass ==
  /\ loop = "drain"
  /\ queue = <<>> \/ (MaxPerPass > 0 /\ taken >= MaxPerPass)
  /\ loop' = IF taken = 0 THEN "idle" ELSE "top"
  /\ UNCHANGED <<feedVars, monitor, queueVars, taken, gate, wake, stopping>>

\* _idle_sleep returns: woken, stopped or timed out.
Resume ==
  /\ loop = "idle"
  /\ loop' = "top"
  /\ UNCHANGED <<feedVars, monitor, queueVars, taken, gate, wake, stopping>>

\* A record older than its time to live no longer suppresses (and is evicted).
RecordExpires(p) ==
  /\ gate[p] # 0
  /\ gate' = [gate EXCEPT ![p] = 0]
  /\ UNCHANGED <<feedVars, monitor, queueVars, loop, taken, wake, stopping>>

\* stop() runs on the loop's thread, so only while the loop sleeps.
Stop ==
  /\ ~stopping /\ loop = "idle"
  /\ stopping' = TRUE
  /\ UNCHANGED <<feedVars, monitor, queueVars, loopVars, wake>>

Exit ==
  /\ loop = "top" /\ stopping
  /\ loop' = "off"
  /\ UNCHANGED <<feedVars, monitor, queueVars, taken, gate, wake, stopping>>

-----------------------------------------------------------------------------
Schedule ==
  \/ BeginPass \/ SkipBackground \/ GateOut \/ Analyse \/ EndPass \/ Resume \/ Exit

FeedStep == RouteEvent \/ OnEmit

EventPathNext ==
  \/ \E s \in FeedSymbols : MarketMoves(s)
  \/ PollOnce \/ FeedStep
  \/ \E p \in Pairs : CooldownOver(p) \/ RecordExpires(p)
  \/ RiskEmit \/ RiskWake
  \/ Schedule \/ Stop

EventPathSpec == EventPathInit /\ [][EventPathNext]_pathVars

\* Every thread that can take a step of its own does, and a sleep has a time-out.
EventPathFairSpec ==
  EventPathSpec /\ WF_pathVars(Schedule) /\ WF_pathVars(FeedStep) /\ WF_pathVars(RiskWake)

-----------------------------------------------------------------------------
(* Properties                                                              *)

EventPathTypeOK ==
  /\ fresh \subseteq FeedSymbols /\ cooling \subseteq Pairs
  /\ feed \in [todo : Seq(Pairs), routed : Nat]
  /\ monitor \in {"rest", "wake"}
  /\ queue \in Seq(Events) /\ Len(queue) <= MaxSize
  /\ arrived \in 0..MaxEvents
  /\ gate \in [Pairs -> 0..MaxEvents]
  /\ loop \in {"top", "drain", "idle", "off"} /\ taken \in Nat
  /\ wake \in BOOLEAN /\ stopping \in BOOLEAN

\* The loop never sleeps on a queue with events in it without a wake-up that is
\* set or on its way: the flag is cleared before the drain, "so an event enqueued
\* during processing re-sets it" (_run_loop).
NoLostWake ==
  loop = "idle" /\ queue # <<>> => wake \/ feed.routed > 0 \/ monitor = "wake"

\* No event waits for ever: the queue drains while the scheduler runs.
QueueDrains == queue # <<>> ~> queue = <<>> \/ loop = "off"

=============================================================================
