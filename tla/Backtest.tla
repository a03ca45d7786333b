------------------------------ MODULE Backtest ------------------------------
(***************************************************************************)
(* The two backtest simulations, bar by bar over every small price path:   *)
(* ResearchEngine._simulate ("builtin": enters at the signal bar's close)  *)
(* and RealisticBacktester.run ("realistic": fills at a later open, with   *)
(* spread and slippage).  The indicators are abstracted to the reading a   *)
(* strategy takes from them: -1, 0 or 1 (which EMA leads; RSI below, inside*)
(* or above its band; the sign of the MACD histogram).  Prices are points. *)
(* Bars before the warm-up are skipped by both loops and left out.         *)
(***************************************************************************)
EXTENDS Integers

CONSTANTS
  StrategyTypes,    \* among "ema_crossover", "rsi_reversal", "macd_crossover"
  Prices,           \* the points a price may take
  Atrs,             \* ATR readings; 0: not available at this bar
  StopMultiplier, RewardRisk,
  Cost,             \* half spread plus slippage of a realistic fill
  Delay             \* execution_delay_bars

ASSUME BacktestAssumption ==
  /\ StopMultiplier \in Nat \ {0} /\ RewardRisk \in Nat \ {0}
  /\ Cost \in Nat /\ Delay \in Nat
  /\ Prices \subseteq Nat /\ Atrs \subseteq Nat
  /\ StrategyTypes \subseteq {"ema_crossover", "rsi_reversal", "macd_crossover"}

Readings == {-1, 0, 1}
Unread == 2                      \* no previous reading
Bars == {b \in [open : Prices, high : Prices, low : Prices, close : Prices] :
           \A p \in {b.open, b.close} : b.low <= p /\ p <= b.high}

VARIABLES
  engine, strategy,
  prev,       \* prev_rsi, prev_hist: the last reading seen
  pending,    \* realistic: the signal that waits to be filled, and for how long
  position,   \* the open trade
  closed,     \* the trade appended last
  data        \* "more" bars to come, or "end"

backtestVars == <<engine, strategy, prev, pending, position, closed, data>>

\* A distance of 0 stands for a trade that carries neither stop nor target.
Flat == [dir |-> 0, entry |-> 0, distance |-> 0]
NoSignal == [dir |-> 0, wait |-> 0]
NoClosedTrade == [pnl |-> 0, distance |-> 0, reason |-> "none"]

StopOf(p) == p.entry - p.dir * p.distance
TargetOf(p) == p.entry + p.dir * RewardRisk * p.distance

-----------------------------------------------------------------------------
(* Signals                                                                 *)

\* The entry conditions of the three strategies.
EntrySignal(r) ==
  CASE strategy = "ema_crossover" -> r
    [] strategy = "rsi_reversal" ->
         IF prev = -1 /\ r >= 0 THEN 1
         ELSE IF prev = 1 /\ r <= 0 THEN -1 ELSE 0
    [] strategy = "macd_crossover" ->
         IF prev \in {-1, 0} /\ r = 1 THEN 1
         ELSE IF prev \in {0, 1} /\ r = -1 THEN -1 ELSE 0

\* The exit conditions: a reversal, or an RSI that has gone all the way.
ExitSignal(p, r) == r = IF strategy = "rsi_reversal" THEN p.dir ELSE -p.dir

\* The signal function the realistic engine is run with: the EMAs cross.
Crossing(r) == IF prev \in Readings \ {r} THEN r ELSE 0

-----------------------------------------------------------------------------
(* Exits                                                                   *)

Reaches(b, level, dir) == IF dir = 1 THEN b.high >= level ELSE b.low <= level

Stopped(p, b) == p.distance > 0 /\ Reaches(b, StopOf(p), -p.dir)
Reached(p, b) == p.distance > 0 /\ Reaches(b, TargetOf(p), p.dir)

\* Mutant: the signal is looked at before the stop.
ExitOf_SignalFirst(p, b, signalled) ==
  IF signalled THEN <<b.close, "signal_reversal">>
  ELSE IF Stopped(p, b) THEN <<StopOf(p), "stop_loss">>
  ELSE IF Reached(p, b) THEN <<TargetOf(p), "take_profit">>
  ELSE <<0, "none">>

\* Where the bar takes the position out: the stop is looked at before the
\* target, both before the signal.
ExitOf(p, b, signalled) ==
  IF Stopped(p, b) THEN <<StopOf(p), "stop_loss">>
  ELSE IF Reached(p, b) THEN <<TargetOf(p), "take_profit">>
  ELSE IF signalled THEN <<b.close, "signal_reversal">>
  ELSE <<0, "none">>

Trade(p, price, reason) ==
  [pnl |-> (price - p.entry) * p.dir, distance |-> p.distance, reason |-> reason]

\* What is left open by the bar, and the trade it closed.
CloseAt(p, exit) ==
  IF exit[2] = "none" THEN [open |-> p, closed |-> closed]
  ELSE [open |-> Flat, closed |-> Trade(p, exit[1], exit[2])]

\* The last bar closes what is still open at its close.
Settle(after, b, last) ==
  LET end == last /\ after.open.dir # 0 IN
  /\ position' = IF end THEN Flat ELSE after.open
  /\ closed' = IF end THEN Trade(after.open, b.close, "end_of_data") ELSE after.closed
  /\ data' = IF last THEN "end" ELSE "more"

-----------------------------------------------------------------------------
(* One bar                                                                 *)

\* ResearchEngine._simulate: a bar enters or exits, never both.
BuiltinBar(b, r, atr, last) ==
  /\ engine = "builtin" /\ data = "more"
  /\ Settle(IF position.dir # 0
            THEN CloseAt(position, ExitOf(position, b, ExitSignal(position, r)))
            ELSE [open |-> IF EntrySignal(r) = 0 THEN Flat
                           ELSE [dir |-> EntrySignal(r), entry |-> b.close,
                                 distance |-> StopMultiplier * atr],
                  closed |-> closed],
            b, last)
  /\ prev' = r
  /\ UNCHANGED <<engine, strategy, pending>>

\* The realistic fill: the open, worsened, with the stop set from the range of
\* the bar that is only beginning.
Fill(b, dir) ==
  LET range == IF b.high = b.low THEN 1 ELSE b.high - b.low IN
  [dir |-> dir, entry |-> b.open + dir * Cost,
   distance |-> (StopMultiplier * StopMultiplier * range) \div 2]

\* RealisticBacktester.run: a flat bar may signal, a signal that has waited its
\* delay is filled, and the bar that filled it is looked at again for an exit.
RealisticBar(b, r, last) ==
  LET signal == IF position.dir # 0 \/ pending.dir # 0 THEN pending
                ELSE [dir |-> Crossing(r), wait |-> 0]
      fills == position.dir = 0 /\ signal.dir # 0 /\ signal.wait >= Delay
      held == IF fills THEN Fill(b, signal.dir) ELSE position
  IN
  /\ engine = "realistic" /\ data = "more"
  /\ Settle(IF held.dir = 0 THEN [open |-> Flat, closed |-> closed]
            ELSE CloseAt(held, ExitOf(held, b, Crossing(r) = -held.dir)),
            b, last)
  /\ pending' = IF fills \/ signal.dir = 0 THEN NoSignal
                ELSE [signal EXCEPT !.wait = @ + 1]
  /\ prev' = r
  /\ UNCHANGED <<engine, strategy>>

-----------------------------------------------------------------------------
(* Specification                                                           *)

\* run_experiment_backtest hands the bars to one engine or the other; the
\* realistic one always trades the EMA crossing.
Runs == {run \in {"builtin", "realistic"} \X StrategyTypes :
           run[1] = "realistic" => run[2] = "ema_crossover"}

BacktestInit ==
  /\ \E run \in Runs : engine = run[1] /\ strategy = run[2]
  /\ prev = Unread /\ pending = NoSignal /\ position = Flat
  /\ closed = NoClosedTrade /\ data = "more"

StartRun ==
  /\ data = "end" /\ data' = "more"
  /\ \E run \in Runs : engine' = run[1] /\ strategy' = run[2]
  /\ prev' = Unread /\ pending' = NoSignal
  /\ closed' = NoClosedTrade /\ UNCHANGED position

BacktestNext ==
  \/ \E b \in Bars, r \in Readings, last \in BOOLEAN :
       \/ \E atr \in Atrs : BuiltinBar(b, r, atr, last)
       \/ RealisticBar(b, r, last)
  \/ StartRun

BacktestSpec == BacktestInit /\ [][BacktestNext]_backtestVars

-----------------------------------------------------------------------------
(* Properties                                                              *)

\* A trade that carries a stop never loses more than the distance to it, at
\* whatever bar it is filled and by whatever rule it is closed: stop, target,
\* reversal or the end of the data (_simulate: "Intrabar the stop is checked
\* before the target (worst-case convention)").
StopBoundsLoss == closed.distance > 0 => closed.pnl >= -closed.distance
=============================================================================
