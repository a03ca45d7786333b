---------------------------- MODULE MCCommittee ----------------------------
(***************************************************************************)
(* Snapshots for TLC: a base market, and the evidence that moves each       *)
(* analyst across its thresholds, in agreement and in conflict.             *)
(***************************************************************************)
EXTENDS Committee

Still == [price |-> 0, rsi |-> 0, macd |-> 0]

Base == [events |-> {}, trend |-> "NONE", adx |-> "mid", rsi |-> "mid", macd |-> 0,
         stoch |-> "flat", velocity |-> 0, lows |-> Still, highs |-> Still,
         ema |-> 0, swing |-> 0, breaks |-> 0, sweep |-> 0, bars |-> TRUE, shock |-> FALSE,
         vol |-> "normal", sentiment |-> 0, impact |-> 0,
         releases |-> {}, caution |-> 0]

EventSets == {{"TREND_BULLISH"}, {"TREND_BEARISH", "RSI_OVERSOLD"},
              {"MOMENTUM_BULLISH", "RSI_OVERBOUGHT"}, {"EMA_CROSSOVER", "BREAKDOWN"}}

PriceMarkets ==
  {[Base EXCEPT !.events = e, !.trend = t, !.adx = a, !.macd = s, !.velocity = s,
                !.rsi = r, !.ema = b, !.breaks = b, !.swing = w] :
     e \in EventSets, t \in {"UP", "NONE"}, a \in {"weak", "strong"},
     s \in {-1, 1}, r \in {"high", "oversold"}, b \in {-1, 1}, w \in {-1, 1}}

Quiet == [hawkish |-> 0, dovish |-> 0, haven |-> 0]

\* A release above its forecast, and a safe-haven headline without one.
Surprise == [impact |-> "HIGH", actual |-> "number", surprise |-> 90, words |-> Quiet,
             stated |-> 0]
War == [impact |-> "MEDIUM", actual |-> "none", surprise |-> 0,
        words |-> [Quiet EXCEPT !.haven = 1], stated |-> 0]

NewsMarkets ==
  {[Base EXCEPT !.shock = k, !.sentiment = s, !.impact = i, !.releases = x] :
     k \in BOOLEAN, s \in {-450, 0, 700}, i \in {-3500, 3500}, x \in {{}, {Surprise}, {War}}}

EdgeMarkets ==
  {[Base EXCEPT !.bars = FALSE], [Base EXCEPT !.adx = "none", !.trend = "DOWN"],
   [Base EXCEPT !.events = {"DOJI"}, !.vol = "squeeze", !.stoch = "oversold"],
   [Base EXCEPT !.lows = [price |-> -1, rsi |-> 1, macd |-> 1], !.vol = "wide", !.sweep = 1],
   [Base EXCEPT !.vol = "none", !.stoch = "overbought", !.rsi = "overbought"],
   [Base EXCEPT !.stoch = "rising", !.rsi = "low", !.macd = 2]}

MCMarkets == PriceMarkets \cup NewsMarkets \cup EdgeMarkets

MCHistories ==
  {[skill |-> [total |-> 0, correct |-> 0], lessons |-> 0, bias |-> "NONE"],
   [skill |-> [total |-> 10, correct |-> 9], lessons |-> 2, bias |-> "BEARISH"],
   [skill |-> [total |-> 8, correct |-> 1], lessons |-> 0, bias |-> "BULLISH"]}

=============================================================================
