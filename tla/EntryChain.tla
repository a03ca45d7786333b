------------------------------ MODULE EntryChain ------------------------------
(***************************************************************************)
(* One proposal on its way to the broker: completion of entry, stop and    *)
(* target, risk-% sizing, lot cap, the risk gate, the zone gate, the order *)
(* builder, the re-validation of the final order and the engine's own      *)
(* checks (TradingPipeline.run, steps B, B6, C and C0, as the runtime      *)
(* wires it).  The guards between them (B2 to B5) are in other modules.    *)
(*                                                                         *)
(* Prices, volumes and money are integers: a price unit is the fifth       *)
(* decimal, VolUnit volume units make a lot, Contract is the money a price *)
(* unit is worth per lot.  Every read of the broker's symbol specification *)
(* is a call that may fail, so each is a choice.  The quote that travels   *)
(* with the proposal is a snapshot; the engine compares the order with the *)
(* quote of its own moment.                                                *)
(***************************************************************************)
EXTENDS Integers, FiniteSetsExt

CONSTANTS
  Contexts,     \* what a cycle may start from (see ContextType)
  Quotes,       \* prices the market may show when the order is sent
  Contract, VolUnit, Grid,    \* Grid: price units per broker digit
  Broker, Fallback,           \* volume limits: records with min, max, step
  Caps, RiskKnobs, ZoneModes, \* operator knobs: max_lot_per_trade,
                              \* risk_per_trade_pct, zone_entry_enabled
  MaxRiskPcts,                \* env MAX_RISK_PCT, in 1/100000 of equity; 0 unset
  MaxSpread, SpreadTolerance

Directions == {"BUY", "SELL"}
Unknown == -1

ContextType == [dir : Directions, entry : Int, sl : Int, tp : Int, size : Nat,
                price : Nat, atr : Nat, spread : Nat, commission : Int,
                contract : BOOLEAN, equity : Nat, others : Int, used : Nat,
                open : Nat, zone : [top : Nat, bottom : Nat], trigger : BOOLEAN]

ASSUME EntryAssumption ==
  /\ Contexts \subseteq ContextType /\ Quotes \subseteq Nat
  /\ {Contract, VolUnit, Grid} \subseteq Nat \ {0}
  /\ {MaxSpread, SpreadTolerance} \cup MaxRiskPcts \subseteq Nat
  /\ Caps \subseteq Nat \ {0} /\ RiskKnobs \subseteq Int
  /\ {Broker, Fallback} \subseteq [min : Nat, max : Nat, step : Nat \ {0}]
  /\ Broker.step % Fallback.step = 0   \* broker steps are whole hundredths of a lot
  /\ ZoneModes \subseteq BOOLEAN

VARIABLES
  stage,     \* where the cycle is
  ctx,       \* account_state, current_positions, market_info and the proposal
  knobs,     \* the operator's settings, live
  maxRisk,   \* the gate's max_risk_pct, fixed at start-up
  p,         \* validation["proposal"]
  levels,    \* the levels on the raw proposal, which the zone plan overwrites
  req,       \* the OrderRequest
  sizedBy    \* history: the cap in force when p was sized; the spec was read

chainVars == <<stage, ctx, knobs, maxRisk, p, levels, req, sizedBy>>

NoContext == [dir |-> "none"]
Knobs == [cap : Caps, risk : RiskKnobs, zone : ZoneModes]
Nothing == [entry |-> 0, sl |-> 0, tp |-> 0, vol |-> 0]
Unsized == [entry |-> 0, sl |-> 0, tp |-> 0, vol |-> 0, risk |-> 0, verified |-> FALSE]
LevelsOf(r) == [entry |-> r.entry, sl |-> r.sl, tp |-> r.tp, vol |-> r.vol]
Dist(a, b) == IF a > b THEN a - b ELSE b - a
Side(dir) == IF dir = "BUY" THEN 1 ELSE -1

-----------------------------------------------------------------------------
(* Money management                                                        *)

\* _risk_fraction, in 1/100000: a knob of 0.1 and more is a percentage, a
\* smaller one a fraction; the knob is in thousandths.
RiskFraction(knob) ==
  IF knob <= 0 THEN 1000 ELSE IF knob >= 100 THEN knob ELSE knob * 100

\* MoneyManager.calculate_sl_tp: 1.5 and 3 ATR from the price the order fills
\* at; the order's own target is at three times the risk.
StopFor(dir, entry, atr, spread) ==
  entry + Side(dir) * (spread - (3 * atr) \div 2)
TargetFor(dir, entry, sl, atr, spread) ==
  IF sl > 0 /\ sl # entry
  THEN entry + Side(dir) * 3 * Dist(entry, sl)
  ELSE entry + Side(dir) * (spread + 3 * atr)

\* Money lost per lot when the stop is hit, costs included.
LossPerLot(c, o) ==
  (Dist(o.entry, o.sl) + c.spread) * Contract + Max({c.commission, 0})

\* calculate_lot_size: the volume whose loss at the stop is the risk budget.
LotSize(c, o, fraction) ==
  IF LossPerLot(c, o) <= 0 THEN 0
  ELSE (c.equity * fraction * VolUnit) \div (LossPerLot(c, o) * 100000)

Snap_Nearest(vol, spec) ==
  LET near == ((Min({vol, spec.max}) + spec.step \div 2) \div spec.step) * spec.step
  IN  IF near < spec.min THEN 0 ELSE near

\* Snap a volume down to the specification; below its minimum it is nothing.
Snap(vol, spec) ==
  LET down == (Min({vol, spec.max}) \div spec.step) * spec.step
  IN  IF down < spec.min THEN 0 ELSE down

\* get_symbol_specification: the broker's, or a labelled fallback.
Spec(up) == IF up THEN Broker ELSE Fallback

\* _resolve_point_contract: from the context or the broker's own specification;
\* a fallback's point and contract size are never used to size a trade.
PointKnown(c, up) == c.contract \/ up

\* _cap_lot and _apply_broker_volume_constraints: operator cap, then the
\* broker's limits when its specification can be read.
CapLot(vol, cap, up) ==
  LET capped == Min({vol, cap, 5 * VolUnit})
  IN  IF up THEN Snap(capped, Broker) ELSE capped

\* _size_proposal: the volume is always computed anew (force_risk_sizing); one
\* that cannot be computed is nothing.
Sized(c, o, k, up) ==
  LET fraction == RiskFraction(k.risk)
      usable == o.sl > 0 /\ o.entry # o.sl /\ c.equity > 0 /\ PointKnown(c, up)
      lot == IF usable THEN LotSize(c, o, fraction) ELSE 0
  IN  [entry |-> o.entry, sl |-> o.sl, tp |-> o.tp, vol |-> CapLot(lot, k.cap, up),
       risk |-> IF lot > 0 THEN fraction ELSE 0, verified |-> lot > 0]

\* _complete_proposal: levels the analysis gave are kept, missing ones come
\* from the ATR; without a price the volume is only capped.
Complete(c, k, up) ==
  LET entry == IF c.entry > 0 THEN c.entry ELSE c.price
      sl == IF c.sl <= 0 /\ c.atr > 0 THEN StopFor(c.dir, entry, c.atr, c.spread) ELSE c.sl
      tp == IF c.tp <= 0 /\ c.atr > 0 THEN TargetFor(c.dir, entry, sl, c.atr, c.spread) ELSE c.tp
  IN  IF entry <= 0
      THEN [entry |-> 0, sl |-> c.sl, tp |-> c.tp, vol |-> CapLot(c.size, k.cap, up),
            risk |-> 0, verified |-> FALSE]
      ELSE Sized(c, [entry |-> entry, sl |-> sl, tp |-> tp], k, up)

-----------------------------------------------------------------------------
(* RiskGate.validate_proposal                                              *)

\* _broker_contract_size: the gate asks the broker again.
ContractKnown(c, up) == c.contract \/ up

\* calculate_portfolio_risk: no exposure without equity, none to rely on when an
\* open position's notional is unknown.
KnownExposure(c) == c.equity > 0 /\ c.others # Unknown

Notional(o, c) == o.vol * (IF c.price > 0 THEN c.price ELSE o.entry) * Contract

\* check_projected_exposure: with the proposed trade at most 30 % of equity.
Projected(o, c) == c.others * VolUnit + Notional(o, c)
ExposureOk(o, c, up) ==
  /\ KnownExposure(c)
  /\ o.vol > 0 => ContractKnown(c, up)
  /\ 10 * Projected(o, c) <= 3 * c.equity * VolUnit
\* The trade itself at most 10 %.
SizeOk(o, c, up) ==
  /\ c.equity > 0 /\ o.entry > 0 /\ o.vol > 0 /\ ContractKnown(c, up)
  /\ 10 * o.vol * o.entry * Contract <= c.equity * VolUnit

\* Five open positions, 20 % of equity in margin.  Peak equity and daily loss
\* are not known to the account context, which reports none.
AccountOk(c) == c.equity > 0 /\ c.open < 5 /\ 5 * c.used <= c.equity

\* An unknown spread is refused.  Without a symbol specification in the
\* context the pip is that of a five-digit symbol.
SpreadOk(c) == c.spread > 0 /\ c.spread * (IF c.contract THEN 1 ELSE Grid) <= MaxSpread

\* validate_rr_ratio: at least 1.5, whatever the direction.
RewardOk(o) ==
  /\ o.entry > 0 /\ o.sl > 0 /\ o.tp > 0 /\ o.sl # o.entry
  /\ 2 * Dist(o.tp, o.entry) >= 3 * Dist(o.entry, o.sl)

WithinRisk(o, c, fraction) ==
  o.vol * LossPerLot(c, o) * 100000 <= c.equity * fraction * VolUnit

\* The monetary check: a configured budget, or that of a verified sizing;
\* with neither it only informs.
BudgetOk(o, c, risk, verified, up) ==
  LET fraction == IF maxRisk > 0 THEN maxRisk ELSE IF verified THEN risk ELSE 0
  IN  fraction > 0 =>
        /\ ContractKnown(c, up) /\ o.sl > 0 /\ o.entry > 0 /\ o.entry # o.sl
        /\ o.vol > 0 /\ c.equity > 0 /\ c.commission # Unknown
        /\ WithinRisk(o, c, fraction)

Limits(o, c, up) ==
  /\ AccountOk(c) /\ SpreadOk(c) /\ RewardOk(o)
  /\ ExposureOk(o, c, up) /\ SizeOk(o, c, up)

Gate(o, c, risk, verified, up) ==
  Limits(o, c, up) /\ BudgetOk(o, c, risk, verified, up)

-----------------------------------------------------------------------------
(* The zone gate                                                           *)

ZoneGap(z, price) ==
  IF price > z.top THEN price - z.top ELSE IF price < z.bottom THEN z.bottom - price ELSE 0

\* build_entry_plan: the stop beyond the zone, two risks to the target; no plan
\* for a stop wider than 2.5 ATR, a zone further than 4 ATR, or a price more
\* than 2 ATR from it (the width of the zone when no ATR is known).
PlanStop(c) == IF c.dir = "BUY" THEN c.zone.bottom ELSE c.zone.top
HasPlan(c) ==
  LET risk == Dist(c.price, PlanStop(c))
      gap == ZoneGap(c.zone, c.price)
  IN  /\ c.price > 0 /\ c.zone.bottom > 0 /\ c.zone.top > c.zone.bottom /\ risk > 0
      /\ c.atr > 0 => gap <= 4 * c.atr /\ 2 * risk <= 5 * c.atr /\ gap <= 2 * c.atr
      /\ c.atr = 0 => gap <= c.zone.top - c.zone.bottom
ZonePlan(c) ==
  [entry |-> c.price, sl |-> PlanStop(c),
   tp |-> c.price + Side(c.dir) * 2 * Dist(c.price, PlanStop(c)), vol |-> 0]

-----------------------------------------------------------------------------
(* The cycle                                                               *)

EntryInit ==
  /\ stage = "idle" /\ ctx = NoContext
  /\ knobs \in Knobs /\ maxRisk \in MaxRiskPcts
  /\ p = Unsized /\ levels = Nothing /\ req = Nothing
  /\ sizedBy = [cap |-> 0, up |-> FALSE]

\* A proposal arrives with its context: _build_validation_inputs.
Propose ==
  /\ stage = "idle"
  /\ \E c \in Contexts, up \in BOOLEAN :
       /\ ctx' = c
       /\ p' = Complete(c, knobs, up)
       /\ sizedBy' = [cap |-> knobs.cap, up |-> up]
       /\ levels' = [entry |-> c.entry, sl |-> c.sl, tp |-> c.tp, vol |-> c.size]
  /\ stage' = "proposed"
  /\ UNCHANGED <<knobs, maxRisk, req>>

\* Step B.
RiskGate ==
  /\ stage = "proposed"
  /\ \E up \in BOOLEAN :
       stage' = IF Gate(p, ctx, p.risk, p.verified, up) THEN "approved" ELSE "refused"
  /\ UNCHANGED <<ctx, knobs, maxRisk, p, levels, req, sizedBy>>

\* Step B6: the plan is written onto the raw proposal.
ZoneGate ==
  /\ stage = "approved"
  /\ IF ~knobs.zone THEN stage' = "armed" /\ UNCHANGED levels
     ELSE IF HasPlan(ctx) /\ ctx.trigger
     THEN stage' = "armed" /\ levels' = ZonePlan(ctx)
     ELSE stage' = "refused" /\ UNCHANGED levels
  /\ UNCHANGED <<ctx, knobs, maxRisk, p, req, sizedBy>>

Rounded(price) == IF price > 0 THEN ((price + Grid \div 2) \div Grid) * Grid ELSE price

\* _build_order_request and _normalise_to_spec: values come from the validated
\* proposal; volume and prices are brought onto the specification's grid.
BuildOrder ==
  /\ stage = "armed"
  /\ \E up \in BOOLEAN :
       req' = IF up
              THEN [entry |-> Rounded(p.entry), sl |-> Rounded(p.sl),
                    tp |-> Rounded(p.tp), vol |-> Snap(p.vol, Spec(up))]
              ELSE [LevelsOf(p) EXCEPT !.vol = Snap(p.vol, Spec(up))]
  /\ stage' = "built"
  /\ UNCHANGED <<ctx, knobs, maxRisk, p, levels, sizedBy>>

Changed_VolumeOnly == req.vol # p.vol

\* _revalidate_final_order: a request that differs from what the gate approved
\* goes through the gate again, without the mark of a verified sizing.
Changed == req # LevelsOf(p)

Revalidate ==
  /\ stage = "built"
  /\ IF ~Changed THEN stage' = "cleared" /\ UNCHANGED p
     ELSE \E up \in BOOLEAN :
            IF Gate(req, ctx, p.risk, FALSE, up)
            THEN stage' = "cleared"
                 /\ p' = [p EXCEPT !.entry = req.entry, !.sl = req.sl,
                                   !.tp = req.tp, !.vol = req.vol]
            ELSE stage' = "refused" /\ UNCHANGED p
  /\ UNCHANGED <<ctx, knobs, maxRisk, levels, req, sizedBy>>

RightSides_StopOnly(dir, o) == o.sl > 0 => Side(dir) * (o.entry - o.sl) > 0

\* ExecutionEngine.validate_order: volume limits, price near the market, stop
\* and target on their sides.
RightSides(dir, o) ==
  /\ o.sl > 0 => Side(dir) * (o.entry - o.sl) > 0
  /\ o.tp > 0 => Side(dir) * (o.tp - o.entry) > 0

ValidOrder(dir, o, quote, spread, up) ==
  LET spec == IF up THEN Broker ELSE [min |-> 1, max |-> 100 * VolUnit, step |-> 1]
  IN  /\ o.vol > 0 /\ o.vol >= spec.min /\ o.vol <= spec.max
      /\ Dist(o.entry, quote) <= Max({SpreadTolerance, 2 * spread})
      /\ RightSides(dir, o)

\* Steps C1 and C2: the engine validates and dispatches.
Send ==
  /\ stage = "cleared"
  /\ \E quote \in Quotes, up \in BOOLEAN :
       IF ValidOrder(ctx.dir, req, quote, ctx.spread, up)
       THEN stage' = "sent" ELSE stage' = "refused"
  /\ UNCHANGED <<ctx, knobs, maxRisk, p, levels, req, sizedBy>>

\* The cycle ends; nothing of it is kept for the next.
NextCycle ==
  /\ stage \in {"sent", "refused"}
  /\ stage' = "idle" /\ ctx' = NoContext
  /\ p' = Unsized /\ levels' = Nothing /\ req' = Nothing
  /\ sizedBy' = [cap |-> 0, up |-> FALSE]
  /\ UNCHANGED <<knobs, maxRisk>>

\* The settings endpoint pushes the knobs into the running pipeline.
SetKnobs ==
  /\ knobs' \in Knobs
  /\ UNCHANGED <<stage, ctx, maxRisk, p, levels, req, sizedBy>>

EntryNext ==
  \/ Propose \/ RiskGate \/ ZoneGate \/ BuildOrder
  \/ Revalidate \/ Send \/ NextCycle \/ SetKnobs

EntrySpec == EntryInit /\ [][EntryNext]_chainVars

-----------------------------------------------------------------------------
(* Properties                                                              *)

\* The loss at the stop of an order that is sent, costs included, is within
\* the risk the volume was computed from; rounding prices to the broker's
\* digits may add less than one digit.  A configured MAX_RISK_PCT is kept
\* exactly, rounding included.
BudgetKept ==
  stage = "sent" =>
    /\ req.vol * (LossPerLot(ctx, req) - (Grid - 1) * Contract) * 100000
         <= ctx.equity * p.risk * VolUnit
    /\ maxRisk > 0 => WithinRisk(req, ctx, maxRisk)

\* "Only an order that passes the gate ON ITS OWN values may be executed":
\* what is sent keeps every limit of the gate with the values it is sent with,
\* although completion, capping and normalisation changed them on the way.
SentKeepsLimits == stage = "sent" => Limits(req, ctx, TRUE)

\* Whatever the analysis proposed and however wide the spread, an order that
\* is sent has its stop on the losing and its target on the winning side.
StopOnLosingSide ==
  stage = "sent" =>
    /\ Side(ctx.dir) * (req.entry - req.sl) > 0
    /\ Side(ctx.dir) * (req.tp - req.entry) > 0

=============================================================================
