----------------------------- MODULE MarketData -----------------------------
(***************************************************************************)
(* What the committee is shown of the market: the detector that turns two  *)
(* successive readings of a symbol into events (trading/events.py), the    *)
(* snapshot the feed loop builds and caches (trading/feed_loop.py,         *)
(* trading/market_snapshot.py, market/multi_timeframe.py) and the          *)
(* freshness gate a cycle asks before it analyses one                      *)
(* (trading/market_freshness.py, pipeline._stale_snapshot_reason).         *)
(*                                                                         *)
(* A reading stands for the indicators computed from the bars of one read; *)
(* an indicator is NoValue when there are too few bars.  Readings is a set *)
(* of representative readings.  Times count grace periods of the freshness *)
(* gate.  How events are queued is in EventPath; here an event waits with  *)
(* its snapshot for any length of time.                                    *)
(***************************************************************************)
EXTENDS Integers, FiniteSets

CONSTANTS
  Markets,       \* symbols
  Readings,      \* [n, open, high, low, close, fast, slow, adx, macd, rsi, stoch, band, stamped]
  NoValue,
  Slower,        \* the timeframes of the multi-timeframe evidence, numbered by rank
  Skews,         \* broker clock minus ours
  MaxAge,        \* max_allowed_age of the feed's timeframe
  Tolerance,     \* CLOCK_SKEW_TOLERANCE_SECONDS
  MaxTime        \* bound on the clock

ASSUME MarketAssumption ==
  /\ MaxAge \in Nat /\ Tolerance \in Nat /\ MaxTime \in Nat
  /\ Skews \subseteq Int /\ Slower \subseteq Nat

VARIABLES
  now,           \* our clock
  market,        \* per symbol: the newest reading and its bar time, as MT5 has them
  fingerprints,  \* MarketFeedLoop._fingerprints
  marketStates,  \* MarketFeedLoop._states, NoValue before the first poll
  found,         \* the events of the last detection, per symbol
  emaSide,       \* history: side of the slow EMA the fast one was last seen on
  latest,        \* the cached snapshot of each symbol, NoValue when there is none
  carried,       \* the snapshot of an event waiting for its cycle
  evidence       \* what the last analysed cycle was given

marketVars == <<now, market, fingerprints, marketStates, found, emaSide, latest, carried, evidence>>

-----------------------------------------------------------------------------
(* EventDetector                                                           *)

Known(x) == x # NoValue

When(condition, type) == IF condition THEN {type} ELSE {}

TrendEvents(r) ==
  IF ~(Known(r.fast) /\ Known(r.slow)) THEN {}
  ELSE When(r.fast > r.slow, "TREND_BULLISH") \union When(r.fast < r.slow, "TREND_BEARISH")
       \union When(r.fast = r.slow, "TREND_NEUTRAL")

AdxEvents(r, prev) ==
  IF ~(Known(r.adx) /\ Known(prev) /\ Known(prev.adx)) THEN {}
  ELSE When(r.adx > prev.adx + 2, "TREND_STRENGTHENING")
       \union When(r.adx < prev.adx - 2, "TREND_WEAKENING")

MacdEvents(r) ==
  IF ~Known(r.macd) THEN {}
  ELSE When(r.macd > 0, "MOMENTUM_BULLISH") \union When(r.macd < 0, "MOMENTUM_BEARISH")

OscillatorEvents(r) ==
  (IF ~Known(r.rsi) THEN {}
   ELSE When(r.rsi >= 70, "RSI_OVERBOUGHT") \union When(r.rsi <= 30, "RSI_OVERSOLD"))
  \union
  (IF ~Known(r.stoch) THEN {}
   ELSE When(r.stoch >= 80, "STOCH_OVERBOUGHT") \union When(r.stoch <= 20, "STOCH_OVERSOLD"))

\* The previous close is compared with the bands of this reading.
BandEvents(r, prev) ==
  IF ~Known(r.band) \/ ~Known(prev) THEN {}
  ELSE LET upper == r.band + r.width  lower == r.band - r.width
       IN  When(r.close > upper /\ prev.close <= upper, "BREAKOUT")
           \union When(r.close < lower /\ prev.close >= lower, "BREAKDOWN")
           \union When(\/ prev.close > upper /\ r.close < r.band
                       \/ prev.close < lower /\ r.close > r.band, "REVERSAL")

\* Widths relative to the middle band, compared by cross-multiplication.
VolatilityEvents(r, prev) ==
  IF ~Known(r.band) \/ ~Known(prev) THEN {}
  ELSE IF ~Known(prev.band) \/ prev.width = 0 THEN {}
  ELSE LET this == 10 * r.width * prev.band  that == prev.width * r.band
       IN  When(this > 12 * that, "VOLATILITY_EXPANDING")
           \union When(this < 8 * that, "VOLATILITY_CONTRACTING")

DojiEvents(r) ==
  LET body == IF r.close > r.open THEN r.close - r.open ELSE r.open - r.close
  IN  When(r.high > r.low /\ 10 * body < r.high - r.low, "DOJI")

\* Half a percent between the close of the previous poll and the open of this
\* reading's bar.
GapEvents(r, prev) ==
  IF ~Known(prev) THEN {}
  ELSE When(200 * (r.open - prev.close) > prev.close, "GAP_UP")
       \union When(200 * (prev.close - r.open) > prev.close, "GAP_DOWN")

HasEmas(s) == Known(s) /\ Known(s.fast) /\ Known(s.slow)

\* Mutant: both sides strict.
CrossEvents_Strict(r, prev) ==
  IF ~HasEmas(prev) \/ ~HasEmas(r) THEN {}
  ELSE When(\/ prev.fast < prev.slow /\ r.fast > r.slow
            \/ prev.fast > prev.slow /\ r.fast < r.slow, "EMA_CROSSOVER")

CrossEvents(r, prev) ==
  IF ~HasEmas(prev) \/ ~HasEmas(r) THEN {}
  ELSE When(\/ prev.fast <= prev.slow /\ r.fast > r.slow
            \/ prev.fast >= prev.slow /\ r.fast < r.slow, "EMA_CROSSOVER")

Detect(r, prev) ==
  TrendEvents(r) \union AdxEvents(r, prev) \union MacdEvents(r) \union OscillatorEvents(r)
  \union BandEvents(r, prev) \union VolatilityEvents(r, prev) \union DojiEvents(r)
  \union GapEvents(r, prev) \union CrossEvents(r, prev)

\* update_state replaces the whole state; what a short read lacks is lost.
UpdateState(r) ==
  [close |-> r.close, fast |-> r.fast, slow |-> r.slow, adx |-> r.adx,
   band |-> r.band, width |-> r.width]

\* An average is a number or missing, and a state is never taken for none.
ASSUME ReadingsAssumption ==
  \A r \in Readings : /\ {r.fast, r.slow} \subseteq Int \union {NoValue}
                      /\ UpdateState(r) # NoValue

-----------------------------------------------------------------------------
(* Snapshots                                                               *)

\* _bar_timestamp: NoValue when the bar has no readable time.
BarTimestamp(r, time) == IF r.stamped THEN time ELSE NoValue

\* build_timeframe_prices: the bias is computed on the slowest timeframe that
\* could be read, NoValue when none could.
BiasTimeframe(readable) ==
  IF readable = {} THEN NoValue ELSE CHOOSE t \in readable : \A u \in readable : u <= t

BuildSnapshot(s, time, readable) ==
  [symbol |-> s, bar |-> time, received |-> now, bias |-> BiasTimeframe(readable)]

\* get_latest_snapshot: a symbol without one gets the only one there is.
GetLatestSnapshot(s) ==
  LET cached == {t \in Markets : Known(latest[t])}
  IN  IF s \in cached THEN latest[s]
      ELSE IF Cardinality(cached) = 1 THEN latest[CHOOSE t \in cached : TRUE]
      ELSE NoValue

\* evaluate_freshness: the age is that of the bar when it was received.
Fresh(snap) ==
  /\ Known(snap.bar)
  /\ snap.bar <= snap.received
  /\ snap.received - now <= Tolerance /\ snap.bar - now <= Tolerance
  /\ snap.received - snap.bar <= MaxAge

-----------------------------------------------------------------------------
(* Actions                                                                 *)

ClockTicks ==
  /\ now < MaxTime /\ now' = now + 1
  /\ UNCHANGED <<market, fingerprints, marketStates, found, emaSide, latest, carried, evidence>>

\* The bar being formed changes, or a new one opens.
MarketMovesOn(s) ==
  /\ \E r \in Readings, skew \in Skews, time \in {market[s].time, now} :
       market' = [market EXCEPT ![s] = [reading |-> r, time |-> time, skew |-> skew]]
  /\ UNCHANGED <<now, fingerprints, marketStates, found, emaSide, latest, carried, evidence>>

SideOf(r, before) ==
  IF ~HasEmas(r) THEN NoValue
  ELSE IF r.fast > r.slow THEN "above" ELSE IF r.fast < r.slow THEN "below" ELSE before

\* _poll_symbol from the read on; a closed market, a read or a detection that
\* fails, and a series like the last one change nothing.
PollSymbol(s) ==
  LET r == market[s].reading
      time == market[s].time + market[s].skew
      print == <<r.n, time, r.close>>
  IN  /\ print # fingerprints[s]
      /\ fingerprints' = [fingerprints EXCEPT ![s] = print]
      /\ found' = [found EXCEPT ![s] = Detect(r, marketStates[s])]
      /\ marketStates' = [marketStates EXCEPT ![s] = UpdateState(r)]
      /\ emaSide' = [emaSide EXCEPT ![s] = SideOf(r, emaSide[s])]
      /\ \E readable \in SUBSET Slower :
           latest' = [latest EXCEPT ![s] = BuildSnapshot(s, BarTimestamp(r, time), readable)]
      /\ carried' = IF found'[s] = {} THEN carried ELSE latest'[s]
      /\ UNCHANGED <<now, market, evidence>>

\* A cycle for a symbol: the event's snapshot, or the cached one when there is no
\* event or it carries none.  A snapshot that is not fresh ends the cycle; a
\* cycle without one goes on.
Analyse(s, snap) ==
  evidence' = IF ~Known(snap) THEN [asked |-> s, snapshot |-> NoValue, at |-> now]
              ELSE IF Fresh(snap) THEN [asked |-> s, snapshot |-> snap, at |-> now]
              ELSE evidence

EventCycle ==
  /\ Known(carried)
  /\ Analyse(carried.symbol, carried)
  /\ carried' = NoValue
  /\ UNCHANGED <<now, market, fingerprints, marketStates, found, emaSide, latest>>

ManualCycle(s) ==
  /\ Analyse(s, GetLatestSnapshot(s))
  /\ UNCHANGED <<now, market, fingerprints, marketStates, found, emaSide, latest, carried>>

MarketInit ==
  /\ now = 0
  /\ market \in [Markets -> [reading : Readings, time : {0}, skew : {0}]]
  /\ fingerprints = [s \in Markets |-> NoValue]
  /\ marketStates = [s \in Markets |-> NoValue]
  /\ found = [s \in Markets |-> {}] /\ emaSide = [s \in Markets |-> NoValue]
  /\ latest = [s \in Markets |-> NoValue]
  /\ carried = NoValue /\ evidence = NoValue

MarketNext ==
  \/ ClockTicks \/ EventCycle
  \/ \E s \in Markets : MarketMovesOn(s) \/ PollSymbol(s) \/ ManualCycle(s)

MarketSpec == MarketInit /\ [][MarketNext]_marketVars

-----------------------------------------------------------------------------
(* Properties                                                              *)

\* A fast EMA seen on the other side of the slow one is reported as a crossing
\* at that poll, however many polls found the two equal in between
\* (EventDetector.detect, EMA crossover; update_state).
NoCrossingMissed ==
  [][\A s \in Markets :
       Known(emaSide[s]) /\ Known(emaSide'[s]) /\ emaSide'[s] # emaSide[s]
         => "EMA_CROSSOVER" \in found'[s]]_marketVars

\* What market_freshness.py says: a snapshot whose bar closed long ago - the
\* feed stalled, the event waited - is never handed to the committee.
StaleNeverAnalysed ==
  IF ~Known(evidence) \/ ~Known(evidence.snapshot) THEN TRUE
  ELSE evidence.at - evidence.snapshot.bar <= MaxAge
=============================================================================
