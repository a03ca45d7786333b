----------------------------- MODULE ZoneEntry -----------------------------
(***************************************************************************)
(* Watch-and-fire entry at an order block or fair value gap: the zones     *)
(* found in the closed bars (trading/entry_detectors.py,                   *)
(* entry_zone.detect_entry_zones), the plan at the nearest one, the gate   *)
(* that remembers a signal waiting for its zone (ZoneEntryGate), and the   *)
(* trigger that must confirm it (pipeline._zone_entry_plan,                *)
(* trading/trigger_engine.py, entry_adapter.py).                           *)
(*                                                                         *)
(* Prices are integers and a bar is one of Candles.  The bias of the       *)
(* higher timeframes and the ATR are computed from other series and are    *)
(* inputs of every evaluation; both may differ from one to the next.       *)
(***************************************************************************)
EXTENDS Integers, Sequences, FiniteSets

CONSTANTS
  Candles,      \* bars: [o, h, l, c]
  Prices,       \* live prices
  Atrs,         \* values of the ATR
  ObLookback, FvgLookback, MaxRetests,   \* ZoneConfig
  MaxBars       \* bound: closed bars

ASSUME ZoneAssumption ==
  /\ \A k \in Candles : k.l <= k.o /\ k.l <= k.c /\ k.o <= k.h /\ k.c <= k.h
  /\ Atrs \subseteq Nat \ {0} /\ MaxRetests \in Nat
  /\ ObLookback \in Nat /\ FvgLookback \in Nat

VARIABLES
  bars,      \* the closed bars
  forming,   \* the bar being formed, the last one MT5 returns
  pending,   \* ZoneEntryGate._pending of the symbol
  fired,     \* the plan that fired last
  spent      \* zones that were consumed at some time

zoneVars == <<bars, forming, pending, fired, spent>>

Sides == {"LONG", "SHORT"}
None == [side |-> "none"]

Abs(x) == IF x < 0 THEN -x ELSE x
Larger(x, y) == IF x > y THEN x ELSE y

-----------------------------------------------------------------------------
\* Zones of the closed bars

Body(k) == Abs(k.c - k.o)
Down(k) == k.c < k.o
Up(k) == k.c > k.o

Zone(kind, side, top, bottom, i) ==
  [kind |-> kind, side |-> side, top |-> top, bottom |-> bottom, origin |-> i]

\* detect_order_blocks: a bar against the move, then one whose body is half an
\* ATR at least.
OrderBlocks(atr) ==
  LET n == Len(bars)
      Origins == {i \in Larger(2, n - ObLookback + 1) .. n - 1 : 2 * Body(bars[i + 1]) >= atr}
  IN  {Zone("OB", "LONG", bars[i].h, bars[i].l, i) :
         i \in {j \in Origins : Down(bars[j]) /\ Up(bars[j + 1])}}
      \union
      {Zone("OB", "SHORT", bars[i].h, bars[i].l, i) :
         i \in {j \in Origins : Up(bars[j]) /\ Down(bars[j + 1])}}

\* detect_fvgs: the gap between a bar's neighbours, a tenth of an ATR at least.
Gaps(atr) ==
  LET n == Len(bars)
      Middles == Larger(2, n - FvgLookback + 1) .. n - 1
      Wide(top, bottom) == top > bottom /\ 10 * (top - bottom) >= atr
  IN  {Zone("FVG", "LONG", bars[i + 1].l, bars[i - 1].h, i) :
         i \in {j \in Middles : Wide(bars[j + 1].l, bars[j - 1].h)}}
      \union
      {Zone("FVG", "SHORT", bars[i - 1].l, bars[i + 1].h, i) :
         i \in {j \in Middles : Wide(bars[j - 1].l, bars[j + 1].h)}}

\* The bars that closed after the zone was complete.
After(z) == z.origin + 2 .. Len(bars)

Touched(z, k) == bars[k].l <= z.top /\ bars[k].h >= z.bottom

\* Touches in a row count once.
Touches(z) ==
  Cardinality({k \in After(z) : Touched(z, k) /\ (k - 1 \in After(z) => ~Touched(z, k - 1))})

\* A close beyond an order block's far edge; a wick through the whole gap.
Broken(z, k) ==
  CASE z.kind = "OB" /\ z.side = "LONG" -> bars[k].c < z.bottom
    [] z.kind = "OB" /\ z.side = "SHORT" -> bars[k].c > z.top
    [] z.kind = "FVG" /\ z.side = "LONG" -> bars[k].l <= z.bottom
    [] z.kind = "FVG" /\ z.side = "SHORT" -> bars[k].h >= z.top

\* Mutant: only the newest bar is looked at.
Consumed_Newest(z) ==
  \/ z.kind = "OB" /\ Touches(z) > MaxRetests
  \/ \E k \in After(z) : k = Len(bars) /\ Broken(z, k)

Consumed(z) ==
  \/ z.kind = "OB" /\ Touches(z) > MaxRetests
  \/ \E k \in After(z) : Broken(z, k)

\* detect_entry_zones
EntryZones(atr) ==
  IF Len(bars) < 3 THEN {} ELSE {z \in OrderBlocks(atr) \union Gaps(atr) : ~Consumed(z)}

-----------------------------------------------------------------------------
\* The plan

\* _zone_distance
Distance(z, price) ==
  IF price > z.top THEN price - z.top ELSE IF price < z.bottom THEN z.bottom - price ELSE 0

\* The order the detectors list zones in: order blocks first, then by origin.
Before(y, z) ==
  \/ y.kind = "OB" /\ z.kind = "FVG"
  \/ y.kind = z.kind /\ y.origin <= z.origin

\* _pick_zone: the nearest zone of the side, the first of several.
PickZone(side, price, atr) ==
  LET zones == {z \in EntryZones(atr) : z.side = side}
      nearest == {z \in zones : \A y \in zones : Distance(z, price) <= Distance(y, price)}
  IN  {z \in nearest : \A y \in nearest : Before(z, y)}

\* The stop is the zone's far edge, on whichever side of the price that is.
StopAt(z) == IF z.side = "LONG" THEN z.bottom ELSE z.top

\* Within a quarter of an ATR of the band, or the firing distance of two.
AtZone(z, price, atr) ==
  \/ 4 * (z.bottom - price) <= atr /\ 4 * (price - z.top) <= atr
  \/ Distance(z, price) <= 2 * atr

\* build_entry_plan with the default distances: at most one plan.
EntryPlan(side, price, atr, inside) ==
  {[side |-> side, zone |-> z, entry |-> price, stop |-> StopAt(z),
    target |-> price + 2 * (price - StopAt(z))] :
     z \in {y \in PickZone(side, price, atr) :
              /\ y.bottom > 0 /\ y.top > y.bottom
              /\ Distance(y, price) <= 4 * atr
              /\ price # StopAt(y) /\ 2 * Abs(price - StopAt(y)) <= 5 * atr
              /\ inside => AtZone(y, price, atr)}}

-----------------------------------------------------------------------------
\* The trigger

\* _detect_rejection over one bar: a wick into the zone, four tenths of the
\* range at least, and a body away from it.
Rejection(side, z, k) ==
  LET range == k.h - k.l
      low == IF k.o < k.c THEN k.o ELSE k.c
  IN  /\ range > 0
      /\ IF side = "LONG"
         THEN /\ k.l <= z.top /\ k.l >= z.bottom - range
              /\ k.c > k.o /\ 10 * (low - k.l) >= 4 * range
         ELSE /\ k.h >= z.bottom /\ k.h <= z.top + range
              /\ k.c < k.o /\ 10 * (k.h - Larger(k.o, k.c)) >= 4 * range

\* The series _evaluate_canonical_trigger hands over when the context has none:
\* the zone's bars up to the one being formed, the highs in place of the closes.
TriggerBar == [forming EXCEPT !.c = forming.h]

\* evaluate_triggers: the required triggers are the touch, the rejection and the
\* close of the bar, which is taken as closed.
Triggered(side, z, k) == k.l <= z.top /\ k.h >= z.bottom /\ Rejection(side, z, k)

\* _evaluate_canonical_trigger: three bars at least, and nothing that blocks (a
\* wide spread, news or a broken structure).
EntryReady(side, z, blocked) ==
  Len(bars) >= 2 /\ ~blocked /\ Triggered(side, z, TriggerBar)

-----------------------------------------------------------------------------
\* One cycle's question to the gate

\* ZoneEntryGate.evaluate: a plan in reach ends the waiting, one out of reach is
\* remembered, none forgets it.
Evaluate(live, waiting) ==
  pending' = IF live = {} /\ waiting # {}
             THEN LET p == CHOOSE p \in waiting : TRUE
                  IN  [side |-> p.side, top |-> p.zone.top, bottom |-> p.zone.bottom]
             ELSE None

\* _zone_entry_plan for a signal: a bias that is neutral or against it clears
\* the pending entry; a plan fires when its trigger confirms.  Without a price or
\* bars, and after an error, nothing changes.
AskGate(side, bias, price, atr, blocked) ==
  LET live == EntryPlan(side, price, atr, TRUE)
  IN  /\ IF bias # side THEN pending' = None
         ELSE Evaluate(live, EntryPlan(side, price, atr, FALSE))
      /\ fired' = IF bias = side /\ \E p \in live : EntryReady(side, p.zone, blocked)
                  THEN CHOOSE p \in live : TRUE
                  ELSE fired
      /\ UNCHANGED <<bars, forming, spent>>

-----------------------------------------------------------------------------
\* The market

Tick == forming' \in Candles /\ UNCHANGED <<bars, pending, fired, spent>>

\* Every zone of these bars, at the ATR that lets most of them in, that an
\* entry must not come from any more.
SpentZones ==
  LET smallest == CHOOSE a \in Atrs : \A b \in Atrs : a <= b
      Gone(z) ==
        \/ \E k \in z.origin + 2 .. Len(bars) : Broken(z, k)
        \/ z.kind = "OB" /\ Touches(z) > MaxRetests
  IN  {z \in OrderBlocks(smallest) \union Gaps(smallest) : Gone(z)}

BarCloses ==
  /\ Len(bars) < MaxBars
  /\ bars' = Append(bars, forming)
  /\ forming' \in Candles
  /\ spent' = spent \union SpentZones'
  /\ UNCHANGED <<pending, fired>>

ZoneInit ==
  /\ bars = <<>> /\ forming \in Candles
  /\ pending = None /\ fired = None /\ spent = {}

ZoneNext ==
  \/ Tick \/ BarCloses
  \/ \E side \in Sides, bias \in Sides \union {"NEUTRAL"}, price \in Prices, atr \in Atrs,
        blocked \in BOOLEAN : AskGate(side, bias, price, atr, blocked)

ZoneSpec == ZoneInit /\ [][ZoneNext]_zoneVars

-----------------------------------------------------------------------------
(* Properties *)

\* No entry fires from a zone that was consumed at any earlier time - closed
\* through, filled, or retested too often - however the ATR moves between two
\* evaluations and whatever the bar being formed does (detect_entry_zones).
NoEntryFromSpentZone == [][fired' # fired => fired'.zone \notin spent]_zoneVars
=============================================================================
