------------------------------ MODULE Analysts ------------------------------
(***************************************************************************)
(* The deterministic analysts of the committee, as operators on the         *)
(* evidence of one cycle.  Each turns a market snapshot into an answer      *)
(* [signal, conf]; nothing here keeps state.                                *)
(*                                                                          *)
(* Indicator values are abstracted to the bands the analysts compare them   *)
(* with; scores keep the code's arithmetic, in twentieths, and confidences  *)
(* are in thousandths (the code's floats are rounded to 2-4 decimals).      *)
(***************************************************************************)
EXTENDS Integers, FiniteSets, FiniteSetsExt

Directions == {"BULLISH", "BEARISH", "NEUTRAL"}

AtMost(x, cap) == IF x > cap THEN cap ELSE x
AtLeast(x, floor) == IF x < floor THEN floor ELSE x
Abs(x) == IF x < 0 THEN -x ELSE x
Clamp01(x) == AtLeast(AtMost(x, 1000), 0)

Answer(signal, conf) == [signal |-> signal, conf |-> conf]

(***************************************************************************)
(* The snapshot.  events: the detected events; trend, adx: market_state;    *)
(* rsi, macd, stoch, velocity: the momentum indicators; lows, highs: the    *)
(* last confirmed pivot against the one before; ema, swing, breaks, sweep:  *)
(* the structure of the bars (1 up, -1 down, 0 neither); bars: whether the  *)
(* price series is long enough; sentiment, impact: news scores in           *)
(* thousandths; releases, caution: the calendar's events and the risk       *)
(* sentiment; shock: the cycle's own context lists a high-impact item (the  *)
(* news provider nests its items one level below, where the lead does not   *)
(* look); vol: the volatility band.                                         *)
(***************************************************************************)
EventKinds == {"TREND_BULLISH", "TREND_BEARISH", "BREAKOUT", "BREAKDOWN",
               "MOMENTUM_BULLISH", "MOMENTUM_BEARISH", "EMA_CROSSOVER",
               "RSI_OVERSOLD", "RSI_OVERBOUGHT",
               "STOCH_OVERSOLD", "STOCH_OVERBOUGHT", "DOJI"}
AdxBands == {"none", "weak", "mid", "strong"}
RsiBands == {"none", "oversold", "low", "mid", "high", "overbought"}
StochBands == {"none", "oversold", "overbought", "rising", "falling", "flat"}
VolBands == {"none", "squeeze", "normal", "wide"}
Signs == {-1, 0, 1}

\* How price and oscillators moved between the last two confirmed pivots of a
\* kind; all zero with fewer than two.
Pivots == [price : Signs, rsi : Signs, macd : Signs]

ImpactWeight == [LOW |-> 300, MEDIUM |-> 600, HIGH |-> 1000, CRITICAL |-> 1500]

\* A parsed calendar event: what its actual value is worth ("number" when actual
\* and forecast both parse), their difference, the keywords found in the title,
\* and the sentiment it came with.
ReleaseOK(e) ==
  /\ e.impact \in DOMAIN ImpactWeight
  /\ e.actual \in {"none", "text", "number"}
  /\ e.words \in [hawkish : Nat, dovish : Nat, haven : Nat]
  /\ {e.surprise, e.stated} \subseteq Int

MarketOK(m) ==
  /\ m.events \subseteq EventKinds
  /\ m.trend \in {"UP", "DOWN", "NONE"}
  /\ m.adx \in AdxBands /\ m.rsi \in RsiBands
  /\ m.macd \in Signs \cup {2} /\ m.stoch \in StochBands
  /\ m.velocity \in Signs
  /\ {m.lows, m.highs} \subseteq Pivots
  /\ {m.ema, m.swing, m.breaks, m.sweep} \subseteq Signs
  /\ m.bars \in BOOLEAN /\ m.shock \in BOOLEAN
  /\ m.vol \in VolBands
  /\ {m.sentiment, m.impact} \subseteq Int /\ m.caution \in Nat
  /\ \A e \in m.releases : ReleaseOK(e)

-----------------------------------------------------------------------------
(***************************************************************************)
(* Pattern memory: a reliable record (eight cases or more) of how often the *)
(* agent was right moves its confidence by (accuracy - 0.5) * 0.3.          *)
(***************************************************************************)
MinSamples == 8

Nudge(skill) ==
  IF skill.total < MinSamples THEN 0
  ELSE (300 * skill.correct) \div skill.total - 150

AdjustConfidence(conf, skill) == Clamp01(conf + Nudge(skill))

(***************************************************************************)
(* The technical analyst weighs the detected events.  EMA_CROSSOVER counts  *)
(* as bullish whichever way the averages crossed.                           *)
(***************************************************************************)
EventScore(e) ==
  CASE e \in {"TREND_BULLISH", "BREAKOUT"} -> 20
    [] e \in {"TREND_BEARISH", "BREAKDOWN"} -> -20
    [] e \in {"MOMENTUM_BULLISH", "EMA_CROSSOVER"} -> 12
    [] e = "MOMENTUM_BEARISH" -> -12
    [] e \in {"RSI_OVERSOLD", "STOCH_OVERSOLD"} -> 6
    [] e \in {"RSI_OVERBOUGHT", "STOCH_OVERBOUGHT"} -> -6
    [] OTHER -> 0

Score(events, sign) ==
  LET Worth(points) == Cardinality({e \in events : EventScore(e) = sign * points})
  IN 20 * Worth(20) + 12 * Worth(12) + 6 * Worth(6)

(***************************************************************************)
(* In a strong trend the weaker side's score against the trend is halved.   *)
(***************************************************************************)
Discounted(m, own, other, against) ==
  IF m.adx = "strong" /\ m.trend = against /\ own < other THEN own \div 2 ELSE own

TechnicalAnalyst(m, skill) ==
  LET rawUp == Score(m.events, 1)
      rawDown == Score(m.events, -1)
      up == Discounted(m, rawUp, rawDown, "DOWN")
      down == Discounted(m, rawDown, rawUp, "UP")
      net == up - down
      total == up + down
      base == IF total = 0 THEN 0 ELSE AtMost(500 + (450 * Abs(net)) \div total, 950)
      torn == up > 0 /\ down > 0 /\ 2 * Abs(net) < total
      conf == IF torn THEN (base * 6) \div 10 ELSE base
  IN IF m.events = {} THEN Answer("NEUTRAL", 0)
     ELSE Answer(IF net > 0 THEN "BULLISH" ELSE IF net < 0 THEN "BEARISH" ELSE "NEUTRAL",
                 AdjustConfidence(conf, skill))

(***************************************************************************)
(* A divergence: price and oscillator moved in opposite ways between two    *)
(* pivots, regular or hidden; at lows it is bullish, at highs bearish.      *)
(***************************************************************************)
Diverges(pivot, oscillator) == pivot.price # 0 /\ pivot[oscillator] = -pivot.price

Divergences(pivot) == Cardinality({o \in {"rsi", "macd"} : Diverges(pivot, o)})

(***************************************************************************)
(* The momentum analyst adds up oscillator readings (in twentieths).  The   *)
(* MACD line above its signal line is bullish, anything else - equality     *)
(* included - bearish.  macd = 2 says that the series is too short for it.  *)
(***************************************************************************)
MomentumReadings(m) ==
  << CASE m.rsi = "overbought" -> -20 [] m.rsi = "oversold" -> 20
       [] m.rsi = "high" -> 16 [] m.rsi = "low" -> -16 [] OTHER -> 0,
     CASE m.macd = 1 -> 30 [] m.macd = -1 -> -30 [] m.macd = 0 -> -10 [] OTHER -> 0,
     CASE m.stoch = "oversold" -> 16 [] m.stoch = "overbought" -> -16
       [] m.stoch = "rising" -> 8 [] m.stoch = "falling" -> -8 [] OTHER -> 0,
     10 * m.velocity,
     30 * (Divergences(m.lows) - Divergences(m.highs)) >>

MomentumConfidence(diff, adx) ==
  LET size == Abs(diff)
      base == CASE size >= 40 -> AtMost(600 + 4 * size, 950)
                [] size > 10 /\ size < 40 -> AtMost(500 + 4 * size, 850)
                [] OTHER -> 500
  IN CASE adx = "strong" -> AtMost(base + 30, 950)
       [] adx = "weak" -> AtMost(base, 500)
       [] OTHER -> base

Rounded2(x) == ((x + 5) \div 10) * 10

MomentumAnalyst(m, skill) ==
  LET r == MomentumReadings(m)
      diff == r[1] + r[2] + r[3] + r[4] + r[5]
  IN IF ~m.bars \/ m.adx = "none" THEN Answer("NEUTRAL", 0)
     ELSE Answer(CASE diff > 10 -> "BULLISH" [] diff < -10 -> "BEARISH" [] OTHER -> "NEUTRAL",
                 Rounded2(AdjustConfidence(MomentumConfidence(diff, m.adx), skill)))

(***************************************************************************)
(* The structure analyst counts factors.  A break of the prior swing        *)
(* against the swing sequence is also a change of character.                *)
(***************************************************************************)
ChangeOfCharacter(m) ==
  IF m.breaks # 0 /\ m.swing = -m.breaks THEN m.breaks ELSE 0

StructureFactors(m, sign) ==
  Cardinality({f \in {<<"ema", m.ema>>, <<"bos", m.breaks>>, <<"choch", ChangeOfCharacter(m)>>,
                      <<"sweep", m.sweep>>, <<"swing", m.swing>>} : f[2] = sign})

StructureConfidence(count, adx) ==
  AtMost(600 + 50 * count
         + (CASE adx = "strong" -> 100 [] adx = "weak" -> -150 [] OTHER -> 0), 950)

(***************************************************************************)
(* Two or more lessons about failed breakouts cost it a tenth.              *)
(***************************************************************************)
AfterLessons(conf, lessons) ==
  IF lessons >= 2 THEN AtLeast(conf - 100, 100) ELSE conf

StructureAnalyst(m, lessons) ==
  LET up == StructureFactors(m, 1)
      down == StructureFactors(m, -1)
      raw == CASE up > down -> Answer("BULLISH", StructureConfidence(up, m.adx))
               [] down > up -> Answer("BEARISH", StructureConfidence(down, m.adx))
               [] OTHER -> Answer("NEUTRAL", 400)
  IN IF ~m.bars THEN Answer("NEUTRAL", 0)
     ELSE Answer(raw.signal, AfterLessons(raw.conf, lessons))

(***************************************************************************)
(* The volatility analyst names a regime, never a direction.                *)
(***************************************************************************)
VolatilityAnalyst(m) ==
  CASE m.vol = "squeeze" -> Answer("LOW", 780)
    [] m.vol = "wide" -> Answer("HIGH", 850)
    [] m.vol = "normal" -> Answer("NORMAL", 620)
    [] OTHER -> Answer("UNKNOWN", 0)

(***************************************************************************)
(* News: the average sentiment decides; failing that, the impact-weighted   *)
(* sum (a HIGH impact weighs 3.5).                                          *)
(***************************************************************************)
NewsSentiment(m) ==
  CASE m.sentiment >= 400 -> Answer("BULLISH", AtMost(600 + m.sentiment, 850))
    [] m.sentiment <= -400 -> Answer("BEARISH", AtMost(600 - m.sentiment, 850))
    [] Abs(m.sentiment) < 400 /\ m.impact <= -3500 -> Answer("BEARISH", 620)
    [] Abs(m.sentiment) < 400 /\ m.impact >= 3500 -> Answer("BULLISH", 620)
    [] OTHER -> Answer("NEUTRAL", 550)

(***************************************************************************)
(* Macro, in thousandths: positive is hawkish, a strong dollar.             *)
(***************************************************************************)
Clamp1(x) == AtLeast(AtMost(x, 1000), -1000)

TextSentiment(words) ==
  Clamp1(500 * words.hawkish - 500 * words.dovish - 400 * words.haven)

DeviationScore(e) ==
  IF e.actual = "number" THEN Clamp1((e.surprise * ImpactWeight[e.impact]) \div 100)
  ELSE e.stated

EventReading(e) ==
  Clamp1(IF e.actual = "none" THEN (TextSentiment(e.words) + e.stated) \div 2
         ELSE DeviationScore(e))

(***************************************************************************)
(* A safe-haven headline counts against the dollar a second time.           *)
(***************************************************************************)
MacroScore(m) ==
  MapThenSumSet(LAMBDA e : ((EventReading(e) - (IF e.words.haven > 0 THEN 300 ELSE 0))
                              * ImpactWeight[e.impact]) \div 1000, m.releases)
  - m.caution

(***************************************************************************)
(* A strong dollar is bearish for gold.                                     *)
(***************************************************************************)
FundamentalAnalyst(m) ==
  LET net == MacroScore(m)
  IN CASE net > 150 -> Answer("BEARISH", AtMost(680 + net \div 10, 850))
       [] net < -150 -> Answer("BULLISH", AtMost(680 - net \div 10, 850))
       [] OTHER -> Answer("NEUTRAL", 550)

(***************************************************************************)
(* The market lead's regime: a high-impact item in the context is a shock;  *)
(* otherwise ADX and the trend (or, without one, the direction in the       *)
(* triggering event's name) decide.                                         *)
(***************************************************************************)
DetectRegime(m, hint) ==
  LET directional == m.trend # "NONE" \/ hint
  IN CASE m.shock -> "NEWS_SHOCK"
       [] ~m.shock /\ m.adx \in {"strong", "none"} /\ directional -> "TRENDING"
       [] ~m.shock /\ m.adx = "weak" /\ ~directional -> "RANGING"
       [] OTHER -> "BALANCED"

AdaptiveWeights(regime) ==
  CASE regime = "TRENDING" ->
         [technical_analyst |-> 30, momentum_analyst |-> 25, structure_analyst |-> 15,
          volatility_analyst |-> 10, news_sentiment |-> 10, fundamental_analyst |-> 10]
    [] regime = "RANGING" ->
         [structure_analyst |-> 35, technical_analyst |-> 20, volatility_analyst |-> 15,
          momentum_analyst |-> 10, news_sentiment |-> 10, fundamental_analyst |-> 10]
    [] regime = "NEWS_SHOCK" ->
         [news_sentiment |-> 30, fundamental_analyst |-> 30, volatility_analyst |-> 15,
          technical_analyst |-> 10, momentum_analyst |-> 10, structure_analyst |-> 5]
    [] OTHER ->
         [technical_analyst |-> 20, momentum_analyst |-> 15, structure_analyst |-> 20,
          volatility_analyst |-> 15, news_sentiment |-> 15, fundamental_analyst |-> 15]

(***************************************************************************)
(* Only the specialists whose evidence bears on the event family are heard. *)
(***************************************************************************)
RelevantSpecialists ==
  [BREAKOUT   |-> <<"structure_analyst", "momentum_analyst", "volatility_analyst">>,
   STRUCTURE  |-> <<"structure_analyst", "technical_analyst">>,
   TREND      |-> <<"technical_analyst", "momentum_analyst", "volatility_analyst",
                    "structure_analyst">>,
   MOMENTUM   |-> <<"momentum_analyst", "structure_analyst", "technical_analyst">>,
   EMA        |-> <<"technical_analyst", "momentum_analyst">>,
   GAP        |-> <<"technical_analyst", "volatility_analyst">>,
   NEWS       |-> <<"news_sentiment", "fundamental_analyst">>,
   ECONOMIC   |-> <<"fundamental_analyst", "news_sentiment">>,
   SOCIAL     |-> <<"news_sentiment">>]

=============================================================================
