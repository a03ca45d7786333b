---------------------------- MODULE PositionCare ----------------------------
(***************************************************************************)
(* The life of an open position after its fill:                            *)
(*   - the trade manager, which climbs the stop-loss ladder                *)
(*     (monitoring/trade_manager.py, execution/sltp_manager.py,            *)
(*     ExecutionEngine.modify_position_sltp);                              *)
(*   - the entry context the ladder's R is anchored to                     *)
(*     (review/entry_context.py, persistence/entry_context_store.py);      *)
(*   - the close detector, the automatic review and what it records: trade *)
(*     ledger, review store, lessons (review/, persistence/, learning/).   *)
(* Prices are integers with R = InitialRisk; a stop of 0 is "no stop".     *)
(* Every store keeps a cache and an append-only file, and a failed write   *)
(* leaves the cache only: a restart returns to the file.                   *)
(***************************************************************************)
EXTENDS Integers, FiniteSets

CONSTANTS
  Tickets,
  Prices,              \* the quotes the market visits
  Entry, InitialRisk,  \* entry price, and R
  ATRs,                \* ATR of the latest snapshot; 0 when there is none
  Toggled,             \* the switches the operator flips
  DiskFails,           \* an append to a store's file may fail
  FlakyRead,           \* the monitor's position read may fail and return []
  MaxRestarts          \* bound: process restarts

ASSUME PositionAssumption ==
  /\ Prices \subseteq Nat \ {0} /\ Entry \in Prices
  /\ InitialRisk \in Nat \ {0} /\ InitialRisk < Entry /\ InitialRisk % 10 = 0
  /\ ATRs \subseteq Nat /\ \A a \in ATRs : a % 2 = 0
  /\ Toggled \subseteq {"management", "breakeven", "progressive", "trailing"}
  /\ DiskFails \in BOOLEAN /\ FlakyRead \in BOOLEAN /\ MaxRestarts \in Nat

VARIABLES
  price,        \* the symbol's quote (bid and ask alike)
  pos,          \* the broker's position per ticket
  switches,     \* sltp_* settings that are on, read live on every call
  armed,        \* an armed terminal is attached
  seen,         \* the snapshot manage() is iterating: ticket -> stop read
  cache, disk,  \* entry contexts in memory and in the file: ticket -> stop_loss
  known,        \* PositionCloseDetector._known
  trades,       \* TradeLedger._trades per ticket
  tradesFile,   \* logs/trade_ledger.jsonl, last line per ticket
  reviews,      \* ReviewStore and lessons: closed_at stamps reviewed per ticket
  boots

careVars == <<price, switches, armed>>
ctxVars == <<cache, disk>>
reviewVars == <<known, trades, tradesFile, reviews>>
vars == <<careVars, pos, seen, ctxVars, reviewVars, boots>>

Side == {"buy", "sell"}
Switch == {"management", "breakeven", "progressive", "trailing"}
Lines == [status : {"ABSENT", "OPEN", "CLOSED"}, sl : Nat, tp : BOOLEAN]
NoTrade == [status |-> "ABSENT", sl |-> 0, tp |-> FALSE]

\* Signed distance from a to b in the position's favour.
Gain(side, a, b) == IF side = "buy" THEN b - a ELSE a - b

\* The price r tenths of `risk` in favour of the position: _lock in decide_stop_loss.
LockAt(side, r, risk) ==
  IF side = "buy" THEN Entry + (r * risk) \div 10 ELSE Entry - (r * risk) \div 10

InitialStop(side) == LockAt(side, -10, InitialRisk)

Better(side, s, t) == IF Gain(side, Entry, s) >= Gain(side, Entry, t) THEN s ELSE t

Open == {t \in Tickets : pos[t].state = "open"}

CareTypeOK ==
  /\ price \in Prices /\ switches \subseteq Switch /\ armed \in BOOLEAN
  /\ pos \in [Tickets -> [state : {"none", "open", "closed"}, side : Side,
                          sl : Nat]]
  /\ \A f \in {seen, cache, disk} : DOMAIN f \subseteq Tickets
  /\ \A t \in DOMAIN seen : seen[t] \in Nat
  /\ \A t \in DOMAIN cache : cache[t] = InitialStop(pos[t].side)
  /\ \A t \in DOMAIN disk : disk[t] = InitialStop(pos[t].side)
  /\ known \subseteq Tickets
  /\ trades \in [Tickets -> Lines] /\ tradesFile \in [Tickets -> Lines]
  /\ reviews \in [Tickets -> SUBSET Nat] /\ \A t \in Tickets : IsFiniteSet(reviews[t])
  /\ boots \in 0..MaxRestarts

CareInit ==
  /\ price = Entry /\ switches = Switch /\ armed = TRUE
  /\ pos \in [Tickets -> [state : {"none"}, side : Side, sl : {0}]]
  /\ seen = <<>> /\ cache = <<>> /\ disk = <<>>
  /\ known = {} /\ reviews = [t \in Tickets |-> {}]
  /\ trades = [t \in Tickets |-> NoTrade] /\ tradesFile = trades
  /\ boots = 0

\* remember_entry_context: the ticket's context is written, or written over.
Put(f, t, sl) == [u \in DOMAIN f \cup {t} |-> IF u = t THEN sl ELSE f[u]]

\* The opening line of the trade ledger; a failed write leaves it in the cache.
OpenLine(sl) == [status |-> "OPEN", sl |-> sl, tp |-> TRUE]

\* _append_line: the file follows the cache unless the write fails.
Written(file, new) == IF DiskFails THEN {file, new} ELSE {new}

-----------------------------------------------------------------------------
(* Fill, market and operator                                               *)

FillAt(t, sl) ==
  /\ pos[t].state = "none" /\ price = Entry
  /\ pos' = [pos EXCEPT ![t].state = "open", ![t].sl = sl]

\* The single-terminal path remembers the context and opens a ledger line.
OpenSingle(t) ==
  LET sl == InitialStop(pos[t].side)
  IN  /\ FillAt(t, sl)
      /\ cache' = Put(cache, t, sl)
      /\ disk' \in Written(disk, Put(disk, t, sl))
      /\ trades' = [trades EXCEPT ![t] = OpenLine(sl)]
      /\ tradesFile' \in Written(tradesFile, [tradesFile EXCEPT ![t] = OpenLine(sl)])
      /\ UNCHANGED <<careVars, seen, known, reviews, boots>>

\* A fan-out fill, or a position somebody else opened: no context, no line.
OpenUnremembered(t) ==
  /\ \E sl \in {InitialStop(pos[t].side), 0} : FillAt(t, sl)
  /\ UNCHANGED <<careVars, seen, ctxVars, reviewVars, boots>>

Stopped(t, p) == pos[t].sl > 0 /\ Gain(pos[t].side, pos[t].sl, p) <= 0

\* The quote moves and the broker closes what it crosses.
MarketMoves(p) ==
  /\ p # price /\ price' = p
  /\ pos' = [t \in Tickets |->
       IF t \in Open /\ Stopped(t, p) THEN [pos[t] EXCEPT !.state = "closed"] ELSE pos[t]]
  /\ UNCHANGED <<switches, armed, seen, ctxVars, reviewVars, boots>>

\* Take-profit, or a person.
CloseAtBroker(t) ==
  /\ t \in Open
  /\ pos' = [pos EXCEPT ![t].state = "closed"]
  /\ UNCHANGED <<careVars, seen, ctxVars, reviewVars, boots>>

Operate ==
  /\ \/ \E s \in Toggled : switches' = IF s \in switches THEN switches \ {s} ELSE switches \cup {s}
     \/ UNCHANGED switches
  /\ armed' \in BOOLEAN
  /\ UNCHANGED <<price, pos, seen, ctxVars, reviewVars, boots>>

-----------------------------------------------------------------------------
(* The stop ladder                                                         *)

\* get_entry_context: the cache, then the persisted store.
Contexts ==
  [t \in DOMAIN cache \cup DOMAIN disk |-> IF t \in DOMAIN cache THEN cache[t] ELSE disk[t]]

\* The anchor of R; 0 when no context is known.
InitialSL(t) == IF t \in DOMAIN Contexts THEN Contexts[t] ELSE 0

Abs(n) == IF n < 0 THEN -n ELSE n

Risk(t, sl, atr) ==
  LET anchor == IF InitialSL(t) > 0 THEN InitialSL(t) ELSE sl
  IN  IF anchor > 0 /\ Abs(Entry - anchor) > 0 THEN Abs(Entry - anchor) ELSE atr

Candidate_BeyondTp1(side, p, risk, atr) ==
  IF Gain(side, Entry, p) > risk THEN LockAt(side, 1, risk) ELSE 0

Candidate(side, p, risk, atr) ==
  LET gain == Gain(side, Entry, p)
      trail == IF side = "buy" THEN p - (3 * atr) \div 2 ELSE p + (3 * atr) \div 2
  IN  IF "progressive" \in switches /\ gain >= 2 * risk
      THEN IF "trailing" \in switches /\ atr > 0 THEN Better(side, trail, LockAt(side, 10, risk))
           ELSE LockAt(side, 10, risk)
      ELSE IF "breakeven" \in switches /\ gain >= risk THEN LockAt(side, 1, risk) ELSE 0

\* Tighter than the stop read, by at least min_move_r = 0.05 R.
Tightens_AnyMove(side, new, sl, risk) == sl = 0 \/ Abs(new - sl) * 20 >= risk

Tightens(side, new, sl, risk) ==
  \/ sl = 0
  \/ Gain(side, sl, new) > 0 /\ Abs(new - sl) * 20 >= risk

\* decide_stop_loss: the new stop, or 0 for no change.
Decide(t, sl, atr) ==
  LET side == pos[t].side
      risk == Risk(t, sl, atr)
      new == Candidate(side, price, risk, atr)
  IN  IF risk > 0 /\ new > 0 /\ Tightens(side, new, sl, risk) THEN new ELSE 0

\* manage(): the master switch, then one read of the open positions.
ReadPositions ==
  /\ seen = <<>> /\ Open # {} /\ "management" \in switches
  /\ seen' = [t \in Open |-> pos[t].sl]
  /\ UNCHANGED <<careVars, pos, ctxVars, reviewVars, boots>>

\* The broker takes a stop behind the quote of a position that is still open;
\* it may also refuse, or the engine may find no armed terminal (403).
Accepts(t, new) == armed /\ t \in Open /\ Gain(pos[t].side, new, price) > 0

ManageTicket(t) ==
  /\ t \in DOMAIN seen
  /\ seen' = [u \in DOMAIN seen \ {t} |-> seen[u]]
  /\ \E atr \in ATRs :
       LET new == Decide(t, seen[t], atr)
       IN  pos' = IF new > 0 /\ Accepts(t, new) THEN [pos EXCEPT ![t].sl = new] ELSE pos
  /\ UNCHANGED <<careVars, ctxVars, reviewVars, boots>>

ApplyFails(t) ==
  /\ t \in DOMAIN seen
  /\ seen' = [u \in DOMAIN seen \ {t} |-> seen[u]]
  /\ UNCHANGED <<careVars, pos, ctxVars, reviewVars, boots>>

-----------------------------------------------------------------------------
(* Close, review and what is recorded                                      *)

\* review_id: the closing deal's time is the same every time it is read; a
\* record without a deal is stamped with the moment of the review.
Stamp(t, deal) == IF deal THEN 0 ELSE Cardinality(reviews[t]) + 1

\* _persist_review_and_ledger: the ledger line takes the review's stop_loss
\* (0 without a context) and take_profit (never carried by the review record).
ClosedLine(t) == [status |-> "CLOSED", sl |-> InitialSL(t), tp |-> FALSE]

\* get_position_close_deal: the closing deal, if the broker's history shows one
\* already; a position that is still open has none.
CloseDeals(closed) == {deal \in [closed -> BOOLEAN] : \A t \in closed : deal[t] => t \notin Open}

\* observe(): every known ticket that is not in the list read is reviewed, its
\* lesson stored and its ledger line closed; then the list becomes _known.  The
\* review itself may fail, which leaves no trace of it.
Observe_KeepsClosed(read) ==
  LET closed == known \ read
  IN  /\ \E done \in SUBSET closed, deal \in CloseDeals(closed) :
           /\ reviews' = [t \in Tickets |->
                IF t \in done THEN reviews[t] \cup {Stamp(t, deal[t])} ELSE reviews[t]]
           /\ trades' = [t \in Tickets |-> IF t \in done THEN ClosedLine(t) ELSE trades[t]]
           /\ tradesFile' \in Written(tradesFile,
                [t \in Tickets |-> IF t \in done THEN ClosedLine(t) ELSE tradesFile[t]])
      /\ known' = known \cup read

Observe(read) ==
  LET closed == known \ read
  IN  /\ \E done \in SUBSET closed, deal \in CloseDeals(closed) :
           /\ reviews' = [t \in Tickets |->
                IF t \in done THEN reviews[t] \cup {Stamp(t, deal[t])} ELSE reviews[t]]
           /\ trades' = [t \in Tickets |-> IF t \in done THEN ClosedLine(t) ELSE trades[t]]
           /\ tradesFile' \in Written(tradesFile,
                [t \in Tickets |-> IF t \in done THEN ClosedLine(t) ELSE tradesFile[t]])
      /\ known' = read

\* get_positions: a failed read is an empty list.
PositionsRead == {Open} \cup (IF FlakyRead THEN {{}} ELSE {})

\* monitor_all_positions hands what it read to the close detector.
MonitorAllPositions == \E read \in PositionsRead : Observe(read)

MonitorPositions ==
  /\ \A t \in Tickets : Cardinality(reviews[t]) < 3
  /\ MonitorAllPositions
  /\ UNCHANGED <<careVars, pos, seen, ctxVars, boots>>

RestartProcess ==
  /\ boots < MaxRestarts /\ boots' = boots + 1
  /\ seen' = <<>> /\ known' = {} /\ cache' = <<>>
  /\ trades' = tradesFile
  /\ UNCHANGED <<careVars, pos, disk, tradesFile, reviews>>

-----------------------------------------------------------------------------
Manage == ReadPositions \/ \E t \in Tickets : ManageTicket(t)

CareNext ==
  \/ \E t \in Tickets : OpenSingle(t) \/ OpenUnremembered(t) \/ CloseAtBroker(t)
  \/ \E p \in Prices : MarketMoves(p)
  \/ Operate
  \/ Manage \/ \E t \in Tickets : ApplyFails(t)
  \/ MonitorPositions
  \/ RestartProcess

CareSpec == CareInit /\ [][CareNext]_vars

\* _monitor_positions runs at the end of every scheduler cycle: the manager and
\* the monitor keep running, and a broker that keeps being asked accepts.
CareFairSpec ==
  /\ CareSpec
  /\ WF_vars(ReadPositions)
  /\ \A t \in Tickets : SF_vars(ManageTicket(t))
  /\ WF_vars(MonitorPositions)

-----------------------------------------------------------------------------
(* Properties                                                              *)

\* A position's stop never moves against it (sltp_manager.py: "the resulting
\* stop is never worse than the current stop"), although the price, the ATR, the
\* settings and the anchor of R change between two evaluations and the stop is
\* sent from an earlier read.
StopOnlyTightens ==
  [][\A t \in Tickets :
       t \in Open /\ pos[t].sl > 0 =>
         pos'[t].sl > 0 /\ Gain(pos[t].side, pos[t].sl, pos'[t].sl) >= 0]_vars

\* A position that stays at or beyond TP1 while management is on and a terminal
\* is armed ends up with its stop beyond entry (TradeManager.manage): a lost
\* reading, a refused modification or a restart only delays it.
Profits(t) ==
  /\ t \in Open /\ InitialSL(t) > 0
  /\ Gain(pos[t].side, Entry, price) >= InitialRisk
  /\ {"management", "breakeven"} \subseteq switches /\ armed

Tp1Secures ==
  \A t \in Tickets :
    <>[]Profits(t) => <>[](pos[t].sl > 0 /\ Gain(pos[t].side, Entry, pos[t].sl) > 0)

\* One close, one review and one lesson (review_store.py: reviews are idempotent;
\* the close detector forgets a ticket it has reported), restarts included.
ReviewedOnce ==
  \A t \in Tickets :
    /\ Cardinality(reviews[t]) <= 1
    /\ trades[t].status = "CLOSED" => pos[t].state = "closed"

=============================================================================
