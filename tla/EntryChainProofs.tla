-------------------------- MODULE EntryChainProofs --------------------------
(***************************************************************************)
(* Proofs about the way to an entry.  EntryChain, for any contexts, quotes, *)
(* volume limits, price grid and operator knobs: what is sent keeps the    *)
(* limits of the risk gate with its own values, has its levels on the      *)
(* right sides, and risks no more than the budget its volume was computed  *)
(* from.  ZoneEntry: no entry from a spent zone.  MarketData: no crossing  *)
(* of the averages goes unreported.                                        *)
(***************************************************************************)
EXTENDS EntryChain, ZoneEntry, MarketData, FiniteSetTheorems, TLAPS

Proposals == [entry : Int, sl : Int, tp : Int, vol : Nat, risk : Nat, verified : BOOLEAN]
Requests == [entry : Int, sl : Int, tp : Int, vol : Nat]

\* The fields the gate and the budget look at.
SameLevels(a, b) == a.entry = b.entry /\ a.sl = b.sl /\ a.tp = b.tp /\ a.vol = b.vol

ChainTypeOK ==
  /\ stage \in {"idle", "proposed", "approved", "armed", "built", "cleared", "sent", "refused"}
  /\ stage # "idle" => ctx \in Contexts
  /\ knobs \in Knobs /\ maxRisk \in MaxRiskPcts
  /\ p \in Proposals /\ req \in Requests

\* A volume that was computed fits its budget, one that was not is nothing.
SizedInv ==
  stage = "proposed" /\ p.entry > 0 /\ p.vol > 0 => WithinRisk(p, ctx, p.risk)

\* The proposal the order is built from passed the gate.
ApprovedInv ==
  stage \in {"approved", "armed", "built"} =>
    /\ Limits(p, ctx, TRUE) /\ WithinRisk(p, ctx, p.risk)
    /\ maxRisk > 0 => WithinRisk(p, ctx, maxRisk)

\* Normalisation makes the volume no larger and a distance at most one digit,
\* less one unit, longer.
BuiltInv ==
  stage \in {"built", "cleared", "sent"} =>
    req.vol * (LossPerLot(ctx, req) - (Grid - 1) * Contract) * 100000
      <= ctx.equity * p.risk * VolUnit

\* What is sent passed the gate with its own values.
ClearedInv ==
  stage \in {"cleared", "sent"} =>
    /\ Limits(req, ctx, TRUE)
    /\ maxRisk > 0 => WithinRisk(req, ctx, maxRisk)

SidesInv == stage = "sent" => RightSides(ctx.dir, req)

ChainInv == ChainTypeOK /\ SizedInv /\ ApprovedInv /\ BuiltInv /\ ClearedInv /\ SidesInv

-----------------------------------------------------------------------------
(* Arithmetic                                                              *)

LEMMA Division ==
  ASSUME NEW x \in Int, NEW d \in Nat \ {0}
  PROVE  /\ x \div d \in Int
         /\ (x \div d) * d <= x /\ x < (x \div d) * d + d
         /\ x >= 0 => x \div d \in Nat
OBVIOUS

LEMMA ProductGrows ==
  ASSUME NEW a \in Nat, NEW b \in Nat, NEW c \in Nat, a <= b
  PROVE  a * c <= b * c
OBVIOUS

LEMMA MinOfTwo ==
  ASSUME NEW a \in Int, NEW b \in Int
  PROVE  Min({a, b}) = IF a < b THEN a ELSE b
BY DEF Min

LEMMA MaxOfTwo ==
  ASSUME NEW a \in Int, NEW b \in Int
  PROVE  Max({a, b}) = IF a > b THEN a ELSE b
BY DEF Max

LEMMA MinOfThree ==
  ASSUME NEW a \in Nat, NEW b \in Nat, NEW c \in Nat
  PROVE  Min({a, b, c}) \in Nat /\ Min({a, b, c}) <= a
<1>1. \E x \in {a, b, c} : \A y \in {a, b, c} : x <= y
  OBVIOUS
<1>2. Min({a, b, c}) \in {a, b, c} /\ \A y \in {a, b, c} : Min({a, b, c}) <= y
  BY <1>1 DEF Min
<1> QED BY <1>2

LEMMA Constants ==
  /\ Contract \in Nat \ {0} /\ VolUnit \in Nat \ {0} /\ Grid \in Nat \ {0}
  /\ \A up \in BOOLEAN : Spec(up) \in [min : Nat, max : Nat, step : Nat \ {0}]
  /\ Broker \in [min : Nat, max : Nat, step : Nat \ {0}]
  /\ \A k \in Knobs : k.cap \in Nat \ {0} /\ k.risk \in Int
  /\ \A m \in MaxRiskPcts : m \in Nat
  /\ \A c \in Contexts : c \in ContextType
<1>1. {Contract, VolUnit, Grid} \subseteq Nat \ {0} /\ Contexts \subseteq ContextType
  BY EntryAssumption
<1>2. {MaxSpread, SpreadTolerance} \cup MaxRiskPcts \subseteq Nat
  BY EntryAssumption
<1>3. {Broker, Fallback} \subseteq [min : Nat, max : Nat, step : Nat \ {0}]
  BY EntryAssumption
<1>4. Caps \subseteq Nat \ {0} /\ RiskKnobs \subseteq Int
  BY EntryAssumption
<1> QED BY <1>1, <1>2, <1>3, <1>4 DEF Spec, Knobs

-----------------------------------------------------------------------------
(* Money management                                                        *)

\* Snapping to a specification never makes a volume larger.
LEMMA SnapDown ==
  ASSUME NEW vol \in Nat, NEW spec \in [min : Nat, max : Nat, step : Nat \ {0}]
  PROVE  Snap(vol, spec) \in Nat /\ Snap(vol, spec) <= vol
<1> DEFINE m == Min({vol, spec.max})
           n == m \div spec.step
<1>1. m \in Nat /\ m <= vol /\ spec.step \in Nat \ {0}
  BY MinOfTwo
<1> HIDE DEF m
<1>2. n \in Nat /\ n * spec.step <= m
  BY <1>1, Division
<1> HIDE DEF n
<1>3. n * spec.step \in Nat
  BY <1>1, <1>2
<1> QED BY <1>1, <1>2, <1>3 DEF Snap, n, m

\* Neither does the operator's cap.
LEMMA CapDown ==
  ASSUME NEW vol \in Nat, NEW cap \in Nat, NEW up \in BOOLEAN
  PROVE  CapLot(vol, cap, up) \in Nat /\ CapLot(vol, cap, up) <= vol
<1> DEFINE capped == Min({vol, cap, 5 * VolUnit})
<1>1. 5 * VolUnit \in Nat
  BY Constants
<1>2. capped \in Nat /\ capped <= vol
  BY <1>1, MinOfThree
<1> HIDE DEF capped
<1>3. Snap(capped, Broker) \in Nat /\ Snap(capped, Broker) <= capped
  BY <1>2, Constants, SnapDown
<1> QED BY <1>2, <1>3 DEF CapLot, capped

LEMMA LossNat ==
  ASSUME NEW c \in ContextType, NEW o, o.entry \in Int, o.sl \in Int
  PROVE  LossPerLot(c, o) \in Nat
<1>1. Dist(o.entry, o.sl) \in Nat
  BY DEF Dist
<1>2. c.spread \in Nat /\ c.commission \in Int
  BY DEF ContextType
<1>3. Max({c.commission, 0}) \in Nat
  BY <1>2, MaxOfTwo
<1>4. (Dist(o.entry, o.sl) + c.spread) * Contract \in Nat
  BY <1>1, <1>2, Constants
<1> QED BY <1>3, <1>4 DEF LossPerLot

LEMMA FractionNat == \A knob \in Int : RiskFraction(knob) \in Nat
BY DEF RiskFraction

\* The volume computed for a budget loses no more than the budget at the stop
\* (MoneyManager.calculate_lot_size).
LEMMA LotWithinRisk ==
  ASSUME NEW c \in ContextType, NEW o, o.entry \in Int, o.sl \in Int, NEW fraction \in Nat
  PROVE  /\ LotSize(c, o, fraction) \in Nat
         /\ LotSize(c, o, fraction) * LossPerLot(c, o) * 100000 <= c.equity * fraction * VolUnit
<1> DEFINE loss == LossPerLot(c, o)
           budget == c.equity * fraction * VolUnit
<1>1. loss \in Nat
  BY LossNat
<1>2. budget \in Nat
  BY Constants DEF ContextType
<1>3. LotSize(c, o, fraction) = IF loss <= 0 THEN 0 ELSE budget \div (loss * 100000)
  BY DEF LotSize
<1> HIDE DEF loss, budget
<1>4. CASE loss = 0
  <2>1. LotSize(c, o, fraction) = 0
    BY <1>3, <1>4
  <2> QED BY <1>1, <1>2, <1>4, <2>1 DEF loss, budget
<1>5. CASE loss # 0
  <2> DEFINE d == loss * 100000
             n == budget \div d
  <2>1. d \in Nat \ {0}
    BY <1>1, <1>5
  <2> HIDE DEF d
  <2>2. n \in Nat /\ n * d <= budget
    BY <1>2, <2>1, Division
  <2>3. LotSize(c, o, fraction) = n
    BY <1>1, <1>3, <1>5 DEF d
  <2> HIDE DEF n
  <2>4. n * loss * 100000 = n * d
    BY <1>1, <2>2 DEF d
  <2> QED BY <2>2, <2>3, <2>4 DEF loss, budget
<1> QED BY <1>1, <1>4, <1>5

LEMMA LevelsInt ==
  ASSUME NEW dir \in Directions, NEW entry \in Int, NEW sl \in Int, NEW atr \in Nat, NEW spread \in Nat
  PROVE  StopFor(dir, entry, atr, spread) \in Int /\ TargetFor(dir, entry, sl, atr, spread) \in Int
<1>1. Side(dir) \in Int /\ Dist(entry, sl) \in Int /\ (3 * atr) \div 2 \in Int
  BY DEF Side, Dist
<1>2. /\ Side(dir) * (spread - (3 * atr) \div 2) \in Int
      /\ Side(dir) * 3 * Dist(entry, sl) \in Int
      /\ Side(dir) * (spread + 3 * atr) \in Int
  BY <1>1
<1> QED BY <1>2 DEF StopFor, TargetFor

\* Sizing: a proposal with a volume loses no more than the fraction it records
\* (_size_proposal).
LEMMA SizedEffect ==
  ASSUME NEW c \in ContextType, NEW k \in Knobs, NEW up \in BOOLEAN,
         NEW o \in [entry : Int, sl : Int, tp : Int]
  PROVE  /\ Sized(c, o, k, up) \in Proposals
         /\ Sized(c, o, k, up).vol > 0 =>
              WithinRisk(Sized(c, o, k, up), c, Sized(c, o, k, up).risk)
<1> DEFINE fraction == RiskFraction(k.risk)
           usable == o.sl > 0 /\ o.entry # o.sl /\ c.equity > 0 /\ PointKnown(c, up)
           lot == IF usable THEN LotSize(c, o, fraction) ELSE 0
           vol == CapLot(lot, k.cap, up)
           risk == IF lot > 0 THEN fraction ELSE 0
           verified == lot > 0
           s == Sized(c, o, k, up)
<1>1. fraction \in Nat /\ k.cap \in Nat
  BY FractionNat, Constants
<1>2. LossPerLot(c, o) \in Nat /\ c.equity \in Nat
  BY LossNat DEF ContextType
<1>3. s = [entry |-> o.entry, sl |-> o.sl, tp |-> o.tp, vol |-> vol, risk |-> risk,
           verified |-> verified]
  BY DEF Sized
<1> HIDE DEF fraction
<1>4. lot \in Nat /\ lot * LossPerLot(c, o) * 100000 <= c.equity * (IF lot > 0 THEN fraction ELSE 0) * VolUnit
  <2>1. /\ LotSize(c, o, fraction) \in Nat
        /\ LotSize(c, o, fraction) * LossPerLot(c, o) * 100000 <= c.equity * fraction * VolUnit
    BY <1>1, LotWithinRisk
  <2>2. CASE lot = 0
    <3>1. c.equity * 0 * VolUnit = 0 /\ 0 * LossPerLot(c, o) * 100000 = 0
      BY <1>2, Constants
    <3> HIDE DEF lot
    <3> QED BY <2>2, <3>1
  <2>3. CASE lot # 0
    <3>1. lot = LotSize(c, o, fraction)
      BY <2>3
    <3> HIDE DEF lot
    <3> QED BY <2>1, <2>3, <3>1
  <2> QED BY <2>2, <2>3
<1> HIDE DEF lot
<1>5. vol \in Nat /\ vol <= lot
  <2>1. \A v \in Nat, cap \in Nat : CapLot(v, cap, up) \in Nat /\ CapLot(v, cap, up) <= v
    BY CapDown
  <2>2. lot \in Nat /\ k.cap \in Nat
    BY <1>1, <1>4
  <2> QED BY <2>1, <2>2
<1>6. risk \in Nat /\ verified \in BOOLEAN
  BY <1>1
<1> HIDE DEF vol, risk, verified
<1>7. s \in Proposals
  BY <1>3, <1>5, <1>6 DEF Proposals
<1>8. vol * LossPerLot(c, o) * 100000 <= lot * LossPerLot(c, o) * 100000
  <2>1. vol * LossPerLot(c, o) <= lot * LossPerLot(c, o)
    BY <1>2, <1>4, <1>5, ProductGrows
  <2> QED BY <1>2, <1>4, <1>5, <2>1
<1>9. /\ s.vol = vol /\ s.risk = risk
      /\ s.entry = o.entry /\ s.sl = o.sl
  BY <1>3
<1>10. LossPerLot(c, s) = LossPerLot(c, o)
  BY <1>9 DEF LossPerLot
<1> HIDE DEF s
<1>11. vol * LossPerLot(c, o) * 100000 <= c.equity * risk * VolUnit
  <2>1. vol * LossPerLot(c, o) * 100000 \in Int /\ c.equity * risk * VolUnit \in Int
    BY <1>2, <1>5, <1>6, Constants
  <2>2. lot * LossPerLot(c, o) * 100000 \in Int
    BY <1>2, <1>4
  <2> QED BY <1>4, <1>8, <2>1, <2>2 DEF risk
<1>12. WithinRisk(s, c, s.risk)
  BY <1>9, <1>10, <1>11 DEF WithinRisk
<1> QED BY <1>7, <1>12 DEF s

\* Completion: a proposal with an entry and a volume was sized (_complete_proposal).
LEMMA CompleteEffect ==
  ASSUME NEW c \in ContextType, NEW k \in Knobs, NEW up \in BOOLEAN
  PROVE  /\ Complete(c, k, up) \in Proposals
         /\ Complete(c, k, up).entry > 0 /\ Complete(c, k, up).vol > 0 =>
              WithinRisk(Complete(c, k, up), c, Complete(c, k, up).risk)
<1> DEFINE entry == IF c.entry > 0 THEN c.entry ELSE c.price
           sl == IF c.sl <= 0 /\ c.atr > 0 THEN StopFor(c.dir, entry, c.atr, c.spread) ELSE c.sl
           tp == IF c.tp <= 0 /\ c.atr > 0 THEN TargetFor(c.dir, entry, sl, c.atr, c.spread) ELSE c.tp
           o == [entry |-> entry, sl |-> sl, tp |-> tp]
           bare == [entry |-> 0, sl |-> c.sl, tp |-> c.tp, vol |-> CapLot(c.size, k.cap, up),
                    risk |-> 0, verified |-> FALSE]
<1>1. c.dir \in Directions /\ c.atr \in Nat /\ c.spread \in Nat /\ entry \in Int
      /\ c.sl \in Int /\ c.tp \in Int /\ c.size \in Nat
  BY DEF ContextType
<1>2. Complete(c, k, up) = IF entry <= 0 THEN bare ELSE Sized(c, o, k, up)
  BY DEF Complete
<1> HIDE DEF entry
<1>3. sl \in Int
  BY <1>1, LevelsInt
<1> HIDE DEF sl
<1>4. tp \in Int
  BY <1>1, <1>3, LevelsInt
<1> HIDE DEF tp
<1>5. CASE entry <= 0
  <2>1. CapLot(c.size, k.cap, up) \in Nat
    BY <1>1, CapDown, Constants
  <2>2. bare \in Proposals /\ bare.entry = 0
    BY <1>1, <2>1 DEF Proposals
  <2> QED BY <1>2, <1>5, <2>2
<1>6. CASE ~(entry <= 0)
  <2>1. o \in [entry : Int, sl : Int, tp : Int]
    BY <1>1, <1>3, <1>4
  <2> HIDE DEF o
  <2> QED BY <1>2, <1>6, <2>1, SizedEffect
<1> QED BY <1>5, <1>6

-----------------------------------------------------------------------------
(* The gate                                                                *)

\* The gate's limits depend on the levels only, and knowing the contract size
\* only helps.
LEMMA GateLimits ==
  ASSUME NEW o, NEW c, NEW risk, NEW verified, NEW up \in BOOLEAN,
         Gate(o, c, risk, verified, up)
  PROVE  /\ Limits(o, c, TRUE)
         /\ maxRisk > 0 => WithinRisk(o, c, maxRisk)
<1>1. Limits(o, c, TRUE)
  BY DEF Gate, Limits, ExposureOk, SizeOk, ContractKnown
<1> QED BY <1>1 DEF Gate, BudgetOk

LEMMA LimitsOfLevels ==
  ASSUME NEW a, NEW b, NEW c, SameLevels(a, b)
  PROVE  /\ Limits(a, c, TRUE) => Limits(b, c, TRUE)
         /\ LossPerLot(c, a) = LossPerLot(c, b)
         /\ \A fraction : WithinRisk(a, c, fraction) => WithinRisk(b, c, fraction)
<1>1. LossPerLot(c, a) = LossPerLot(c, b)
  BY DEF SameLevels, LossPerLot
<1>2. Limits(a, c, TRUE) => Limits(b, c, TRUE)
  BY DEF SameLevels, Limits, RewardOk, ExposureOk, Projected, Notional, SizeOk
<1>3. ASSUME NEW fraction, WithinRisk(a, c, fraction)
      PROVE  WithinRisk(b, c, fraction)
  <2> DEFINE loss == LossPerLot(c, a)
  <2>1. a.vol = b.vol /\ LossPerLot(c, b) = loss
    BY <1>1 DEF SameLevels
  <2>2. a.vol * loss * 100000 <= c.equity * fraction * VolUnit
    BY <1>3 DEF WithinRisk
  <2> HIDE DEF loss
  <2>3. b.vol * LossPerLot(c, b) * 100000 <= c.equity * fraction * VolUnit
    BY <2>1, <2>2
  <2> QED BY <2>3 DEF WithinRisk
<1> QED BY <1>1, <1>2, <1>3

-----------------------------------------------------------------------------
(* Normalisation                                                           *)

\* Two prices rounded to the broker's digits are less than one digit further
\* apart than before (_normalise_to_spec).
LEMMA RoundedDistance ==
  ASSUME NEW a \in Nat \ {0}, NEW b \in Nat \ {0}
  PROVE  /\ Rounded(a) \in Int /\ Rounded(b) \in Int
         /\ Dist(Rounded(a), Rounded(b)) <= Dist(a, b) + (Grid - 1)
<1> DEFINE h == Grid \div 2
           m == (a + h) \div Grid
           n == (b + h) \div Grid
<1>1. Grid \in Nat \ {0} /\ h \in Nat
  BY Constants, Division
<1> HIDE DEF h
<1>2. /\ m \in Int /\ m * Grid <= a + h /\ a + h < m * Grid + Grid
      /\ n \in Int /\ n * Grid <= b + h /\ b + h < n * Grid + Grid
  BY <1>1, Division
<1>3. Rounded(a) = m * Grid /\ Rounded(b) = n * Grid
  BY DEF Rounded, h
<1> HIDE DEF m, n
<1>4. m * Grid \in Int /\ n * Grid \in Int
  BY <1>1, <1>2
<1> QED BY <1>1, <1>2, <1>3, <1>4 DEF Dist


LEMMA ProductBound ==
  ASSUME NEW v \in Nat, NEW w \in Nat, NEW x \in Int, NEW y \in Nat, v <= w, x <= y
  PROVE  v * x <= w * y
<1>1. CASE x >= 0
  <2>1. v * x <= w * x
    BY <1>1, ProductGrows
  <2>2. x * w <= y * w
    BY <1>1, ProductGrows
  <2> QED BY <1>1, <2>1, <2>2
<1>2. CASE x < 0
  <2>1. v * x <= 0 /\ 0 <= w * y
    BY <1>2
  <2>2. v * x \in Int /\ w * y \in Int
    OBVIOUS
  <2> QED BY <2>1, <2>2
<1> QED BY <1>1, <1>2

\* The request loses, per lot, less than one digit more than the proposal.
LEMMA RoundedLoss ==
  ASSUME NEW c \in ContextType, NEW a, NEW b,
         a.entry \in Int, a.sl \in Int, b.entry \in Int, b.sl \in Int,
         Dist(b.entry, b.sl) <= Dist(a.entry, a.sl) + (Grid - 1)
  PROVE  LossPerLot(c, b) - (Grid - 1) * Contract <= LossPerLot(c, a)
<1> DEFINE da == Dist(a.entry, a.sl)
           db == Dist(b.entry, b.sl)
           costs == Max({c.commission, 0})
<1>1. da \in Nat /\ db \in Nat
  BY DEF Dist
<1>2. c.spread \in Nat /\ costs \in Int
  BY MaxOfTwo DEF ContextType
<1>3. Contract \in Nat /\ Grid \in Nat
  BY Constants
<1>4. LossPerLot(c, a) = (da + c.spread) * Contract + costs
  BY DEF LossPerLot
<1>5. LossPerLot(c, b) = (db + c.spread) * Contract + costs
  BY DEF LossPerLot
<1>6. db <= da + (Grid - 1)
  OBVIOUS
<1> HIDE DEF da, db, costs
<1>7. db * Contract <= (da + (Grid - 1)) * Contract
  <2>1. da + (Grid - 1) \in Nat
    BY <1>1, <1>3, <1>6, Constants
  <2> QED BY <1>1, <1>3, <1>6, <2>1, ProductGrows
<1>8. /\ (da + (Grid - 1)) * Contract = da * Contract + (Grid - 1) * Contract
      /\ (da + c.spread) * Contract = da * Contract + c.spread * Contract
      /\ (db + c.spread) * Contract = db * Contract + c.spread * Contract
  BY <1>1, <1>2, <1>3
<1>9. /\ da * Contract \in Int /\ db * Contract \in Int /\ c.spread * Contract \in Int
      /\ (Grid - 1) * Contract \in Int
  BY <1>1, <1>2, <1>3
<1> QED BY <1>2, <1>4, <1>5, <1>7, <1>8, <1>9

\* A request is well typed, no larger, and within the budget up to rounding
\* (OrderBuilder).
LEMMA BuildEffect ==
  ASSUME ChainTypeOK, ApprovedInv, BuildOrder
  PROVE  /\ req' \in Requests
         /\ req'.vol * (LossPerLot(ctx, req') - (Grid - 1) * Contract) * 100000
              <= ctx.equity * p.risk * VolUnit
<1>1. PICK up \in BOOLEAN :
        req' = IF up
               THEN [entry |-> Rounded(p.entry), sl |-> Rounded(p.sl),
                     tp |-> Rounded(p.tp), vol |-> Snap(p.vol, Spec(up))]
               ELSE [LevelsOf(p) EXCEPT !.vol = Snap(p.vol, Spec(up))]
  BY DEF BuildOrder
<1>2. p \in Proposals /\ ctx \in ContextType
  BY Constants DEF BuildOrder, ChainTypeOK
<1>3. stage = "armed"
  BY DEF BuildOrder
<1>4. /\ p.entry \in Nat \ {0} /\ p.sl \in Nat \ {0} /\ p.tp \in Nat \ {0}
      /\ p.vol \in Nat /\ p.risk \in Nat
  BY <1>2, <1>3 DEF ApprovedInv, Limits, RewardOk, Proposals
<1>5. p.vol * LossPerLot(ctx, p) * 100000 <= ctx.equity * p.risk * VolUnit
  BY <1>3 DEF ApprovedInv, WithinRisk
<1> DEFINE vol == Snap(p.vol, Spec(up))
<1>6. vol \in Nat /\ vol <= p.vol
  BY <1>4, Constants, SnapDown
<1> HIDE DEF vol
<1>7. /\ req' \in Requests /\ req'.vol = vol
      /\ Dist(req'.entry, req'.sl) <= Dist(p.entry, p.sl) + (Grid - 1)
  <2>1. CASE up
    <3>1. req' = [entry |-> Rounded(p.entry), sl |-> Rounded(p.sl),
                  tp |-> Rounded(p.tp), vol |-> vol]
      BY <1>1, <2>1 DEF vol
    <3>2. /\ Rounded(p.entry) \in Int /\ Rounded(p.sl) \in Int /\ Rounded(p.tp) \in Int
          /\ Dist(Rounded(p.entry), Rounded(p.sl)) <= Dist(p.entry, p.sl) + (Grid - 1)
      BY <1>4, RoundedDistance
    <3> QED BY <1>6, <3>1, <3>2 DEF Requests
  <2>2. CASE ~up
    <3>1. req' = [entry |-> p.entry, sl |-> p.sl, tp |-> p.tp, vol |-> vol]
      BY <1>1, <2>2 DEF LevelsOf, vol
    <3>2. Grid \in Nat \ {0} /\ Dist(p.entry, p.sl) \in Int
      BY <1>4, Constants DEF Dist
    <3> QED BY <1>4, <1>6, <3>1, <3>2 DEF Requests
  <2> QED BY <2>1, <2>2
<1> DEFINE x == LossPerLot(ctx, req') - (Grid - 1) * Contract
           y == LossPerLot(ctx, p)
<1>8. req'.entry \in Int /\ req'.sl \in Int
  BY <1>7 DEF Requests
<1>9. y \in Nat /\ x \in Int /\ x <= y
  <2>1. LossPerLot(ctx, req') \in Nat /\ y \in Nat
    BY <1>2, <1>4, <1>8, LossNat
  <2>2. (Grid - 1) * Contract \in Int
    BY Constants
  <2>3. x <= y
    BY <1>2, <1>4, <1>7, <1>8, RoundedLoss
  <2> QED BY <2>1, <2>2, <2>3
<1> HIDE DEF x, y
<1>10. vol * x <= p.vol * y
  BY <1>4, <1>6, <1>9, ProductBound
<1>11. /\ vol * x \in Int /\ p.vol * y \in Int /\ ctx.equity * p.risk * VolUnit \in Int
       /\ p.vol * y * 100000 <= ctx.equity * p.risk * VolUnit
  BY <1>2, <1>4, <1>5, <1>6, <1>9, Constants DEF y, ContextType
<1>12. vol * x * 100000 <= ctx.equity * p.risk * VolUnit
  BY <1>10, <1>11
<1> QED BY <1>7, <1>12 DEF x

-----------------------------------------------------------------------------
(* The cycle                                                               *)

LEMMA ChainInit == EntryInit => ChainInv
<1> SUFFICES ASSUME EntryInit
             PROVE  ChainInv
  OBVIOUS
<1>1. p \in Proposals /\ req \in Requests /\ stage = "idle"
  BY DEF EntryInit, Unsized, Nothing, Proposals, Requests
<1> QED
  BY <1>1 DEF EntryInit, ChainInv, ChainTypeOK, SizedInv, ApprovedInv, BuiltInv, ClearedInv, SidesInv

\* Steps that give a stage its first facts, one lemma each.
LEMMA ProposeStep ==
  ASSUME ChainInv, Propose
  PROVE  ChainInv'
<1>1. PICK c \in Contexts, up \in BOOLEAN : ctx' = c /\ p' = Complete(c, knobs, up)
  BY DEF Propose
<1>2. c \in ContextType /\ knobs \in Knobs
  BY Constants DEF ChainInv, ChainTypeOK
<1>3. /\ p' \in Proposals
      /\ p'.entry > 0 /\ p'.vol > 0 => WithinRisk(p', c, p'.risk)
  BY <1>1, <1>2, CompleteEffect
<1>4. ChainTypeOK'
  BY <1>1, <1>3 DEF Propose, ChainInv, ChainTypeOK
<1>5. SizedInv'
  BY <1>1, <1>3 DEF SizedInv
<1> QED
  BY <1>4, <1>5 DEF Propose, ChainInv, ApprovedInv, BuiltInv, ClearedInv, SidesInv

LEMMA RiskGateStep ==
  ASSUME ChainInv, RiskGate
  PROVE  ChainInv'
<1>1. PICK up \in BOOLEAN :
        stage' = IF Gate(p, ctx, p.risk, p.verified, up) THEN "approved" ELSE "refused"
  BY DEF RiskGate
<1>2. UNCHANGED <<ctx, knobs, maxRisk, p, req>> /\ stage = "proposed"
  BY DEF RiskGate
<1>3. ChainTypeOK'
  BY <1>1, <1>2 DEF ChainInv, ChainTypeOK
<1>4. ASSUME Gate(p, ctx, p.risk, p.verified, up)
      PROVE  /\ Limits(p, ctx, TRUE) /\ WithinRisk(p, ctx, p.risk)
             /\ maxRisk > 0 => WithinRisk(p, ctx, maxRisk)
  <2>1. Limits(p, ctx, TRUE) /\ (maxRisk > 0 => WithinRisk(p, ctx, maxRisk))
    BY <1>4, GateLimits
  <2>2. p.entry > 0 /\ p.vol > 0
    BY <2>1 DEF Limits, SizeOk
  <2> QED BY <1>2, <2>1, <2>2 DEF ChainInv, SizedInv
<1>5. ApprovedInv'
  <2>1. CASE Gate(p, ctx, p.risk, p.verified, up)
    <3>1. /\ Limits(p, ctx, TRUE) /\ WithinRisk(p, ctx, p.risk)
          /\ maxRisk > 0 => WithinRisk(p, ctx, maxRisk)
      BY <1>4, <2>1
    <3> QED BY <1>2, <3>1 DEF ApprovedInv
  <2>2. CASE ~Gate(p, ctx, p.risk, p.verified, up)
    BY <1>1, <2>2 DEF ApprovedInv
  <2> QED BY <2>1, <2>2
<1>6. stage' \in {"approved", "refused"}
  BY <1>1
<1>7. SizedInv' /\ BuiltInv' /\ ClearedInv' /\ SidesInv'
  <2>1. stage' \notin {"proposed", "built", "cleared", "sent"}
    BY <1>6
  <2>2. SizedInv' /\ ClearedInv' /\ SidesInv'
    BY <2>1, Zenon DEF SizedInv, ClearedInv, SidesInv
  <2>3. BuiltInv'
    BY <2>1, SMT DEF BuiltInv
  <2> QED BY <2>2, <2>3
<1> QED BY <1>3, <1>5, <1>7 DEF ChainInv

LEMMA BuildStep ==
  ASSUME ChainInv, BuildOrder
  PROVE  ChainInv'
<1>1. /\ req' \in Requests
      /\ req'.vol * (LossPerLot(ctx, req') - (Grid - 1) * Contract) * 100000
           <= ctx.equity * p.risk * VolUnit
  BY BuildEffect DEF ChainInv
<1>2. UNCHANGED <<ctx, knobs, maxRisk, p>> /\ stage = "armed" /\ stage' = "built"
  BY DEF BuildOrder
<1>3. ChainTypeOK'
  BY <1>1, <1>2 DEF ChainInv, ChainTypeOK
<1>4. BuiltInv'
  BY <1>1, <1>2 DEF BuiltInv, LossPerLot
<1>5. ApprovedInv'
  <2>1. /\ Limits(p, ctx, TRUE) /\ WithinRisk(p, ctx, p.risk)
        /\ maxRisk > 0 => WithinRisk(p, ctx, maxRisk)
    BY <1>2 DEF ChainInv, ApprovedInv
  <2> QED BY <1>2, <2>1 DEF ApprovedInv
<1> QED
  BY <1>2, <1>3, <1>4, <1>5 DEF ChainInv, SizedInv, ClearedInv, SidesInv

LEMMA RevalidateStep ==
  ASSUME ChainInv, Revalidate
  PROVE  ChainInv'
<1>1. /\ UNCHANGED <<ctx, knobs, maxRisk, req>> /\ stage = "built"
      /\ p \in Proposals /\ req \in Requests
  BY DEF Revalidate, ChainInv, ChainTypeOK
<1>2. /\ p' \in Proposals /\ p'.risk = p.risk /\ stage' \in {"cleared", "refused"}
      /\ stage' = "cleared" =>
           Limits(req, ctx, TRUE) /\ (maxRisk > 0 => WithinRisk(req, ctx, maxRisk))
  <2>1. CASE ~Changed
    <3>1. SameLevels(p, req)
      BY <2>1 DEF Changed, LevelsOf, SameLevels
    <3>2. Limits(p, ctx, TRUE) /\ (maxRisk > 0 => WithinRisk(p, ctx, maxRisk))
      BY <1>1 DEF ChainInv, ApprovedInv
    <3>3. p' = p /\ stage' = "cleared"
      BY <2>1 DEF Revalidate
    <3> QED BY <1>1, <3>1, <3>2, <3>3, LimitsOfLevels
  <2>2. CASE Changed
    <3>1. PICK up \in BOOLEAN :
            IF Gate(req, ctx, p.risk, FALSE, up)
            THEN stage' = "cleared"
                 /\ p' = [p EXCEPT !.entry = req.entry, !.sl = req.sl,
                                   !.tp = req.tp, !.vol = req.vol]
            ELSE stage' = "refused" /\ UNCHANGED p
      BY <2>2 DEF Revalidate
    <3>2. CASE Gate(req, ctx, p.risk, FALSE, up)
      <4>1. /\ stage' = "cleared"
            /\ p' = [p EXCEPT !.entry = req.entry, !.sl = req.sl, !.tp = req.tp, !.vol = req.vol]
        BY <3>1, <3>2
      <4>2. p' \in Proposals /\ p'.risk = p.risk
        BY <1>1, <4>1 DEF Proposals, Requests
      <4> QED BY <3>2, <4>1, <4>2, GateLimits
    <3>3. CASE ~Gate(req, ctx, p.risk, FALSE, up)
      BY <1>1, <3>1, <3>3
    <3> QED BY <3>2, <3>3
  <2> QED BY <2>1, <2>2
<1>3. ChainTypeOK'
  BY <1>1, <1>2 DEF ChainInv, ChainTypeOK
<1>4. BuiltInv'
  <2>1. req.vol * (LossPerLot(ctx, req) - (Grid - 1) * Contract) * 100000
          <= ctx.equity * p.risk * VolUnit
    BY <1>1 DEF ChainInv, BuiltInv
  <2> QED BY <1>1, <1>2, <2>1 DEF BuiltInv
<1>5. ClearedInv'
  BY <1>1, <1>2 DEF ClearedInv
<1> QED BY <1>2, <1>3, <1>4, <1>5 DEF ChainInv, SizedInv, ApprovedInv, SidesInv

LEMMA SendStep ==
  ASSUME ChainInv, Send
  PROVE  ChainInv'
<1>1. /\ UNCHANGED <<ctx, knobs, maxRisk, p, req>> /\ stage = "cleared"
      /\ stage' \in {"sent", "refused"}
      /\ stage' = "sent" => RightSides(ctx.dir, req)
  BY DEF Send, ValidOrder
<1>2. ChainTypeOK'
  BY <1>1 DEF ChainInv, ChainTypeOK
<1>3. BuiltInv'
  <2>1. req.vol * (LossPerLot(ctx, req) - (Grid - 1) * Contract) * 100000
          <= ctx.equity * p.risk * VolUnit
    BY <1>1 DEF ChainInv, BuiltInv
  <2> QED BY <1>1, <2>1 DEF BuiltInv
<1>4. ClearedInv' /\ SidesInv'
  BY <1>1 DEF ChainInv, ClearedInv, SidesInv
<1> QED BY <1>1, <1>2, <1>3, <1>4 DEF ChainInv, SizedInv, ApprovedInv

LEMMA ChainStep ==
  ASSUME ChainInv, [EntryNext]_chainVars
  PROVE  ChainInv'
<1> DEFINE Kept == /\ Limits(p, ctx, TRUE) /\ WithinRisk(p, ctx, p.risk)
                   /\ maxRisk > 0 => WithinRisk(p, ctx, maxRisk)
<1>1. CASE Propose \/ RiskGate \/ BuildOrder \/ Revalidate \/ Send
  BY <1>1, ProposeStep, RiskGateStep, BuildStep, RevalidateStep, SendStep
<1>2. CASE ZoneGate
  <2>1. /\ UNCHANGED <<ctx, knobs, maxRisk, p, req>> /\ stage = "approved"
        /\ stage' \in {"armed", "refused"}
    BY <1>2 DEF ZoneGate
  <2>2. Kept
    BY <2>1 DEF ChainInv, ApprovedInv
  <2>3. ApprovedInv'
    BY <2>1, <2>2 DEF ApprovedInv
  <2>4. ChainTypeOK'
    BY <2>1 DEF ChainInv, ChainTypeOK
  <2>5. stage' \notin {"proposed", "built", "cleared", "sent"}
    BY <2>1
  <2>6. SizedInv' /\ BuiltInv' /\ ClearedInv' /\ SidesInv'
    <3>1. SizedInv' /\ ClearedInv' /\ SidesInv'
      BY <2>5, Zenon DEF SizedInv, ClearedInv, SidesInv
    <3>2. BuiltInv'
      BY <2>5, SMT DEF BuiltInv
    <3> QED BY <3>1, <3>2
  <2> QED BY <2>3, <2>4, <2>6 DEF ChainInv
<1>3. CASE NextCycle
  <2>1. p' \in Proposals /\ req' \in Requests /\ stage' = "idle"
    BY <1>3 DEF NextCycle, Unsized, Nothing, Proposals, Requests
  <2>2. UNCHANGED <<knobs, maxRisk>>
    BY <1>3 DEF NextCycle
  <2> QED
    BY <2>1, <2>2
    DEF ChainInv, ChainTypeOK, SizedInv, ApprovedInv, BuiltInv, ClearedInv, SidesInv
<1>4. CASE SetKnobs \/ UNCHANGED chainVars
  <2>1. UNCHANGED <<stage, ctx, maxRisk, p, req>> /\ knobs' \in Knobs
    BY <1>4 DEF SetKnobs, chainVars, ChainInv, ChainTypeOK
  <2>2. ChainTypeOK'
    BY <2>1 DEF ChainInv, ChainTypeOK
  <2>3. SizedInv'
    BY <2>1, Zenon DEF ChainInv, SizedInv
  <2>4. ApprovedInv'
    BY <2>1, Zenon DEF ChainInv, ApprovedInv
  <2>5. BuiltInv'
    <3>1. CASE stage \in {"built", "cleared", "sent"}
      <4>1. req.vol * (LossPerLot(ctx, req) - (Grid - 1) * Contract) * 100000
              <= ctx.equity * p.risk * VolUnit
        BY <3>1 DEF ChainInv, BuiltInv
      <4> QED BY <2>1, <4>1 DEF BuiltInv
    <3>2. CASE stage \notin {"built", "cleared", "sent"}
      BY <2>1, <3>2, SMT DEF BuiltInv
    <3> QED BY <3>1, <3>2
  <2>6. ClearedInv' /\ SidesInv'
    BY <2>1, Zenon DEF ChainInv, ClearedInv, SidesInv
  <2> QED BY <2>2, <2>3, <2>4, <2>5, <2>6 DEF ChainInv
<1> QED BY <1>1, <1>2, <1>3, <1>4 DEF EntryNext

\* What holds at each stage of a cycle, in every behaviour.
THEOREM ChainInvariant == EntrySpec => []ChainInv
<1> QED BY ChainInit, ChainStep, PTL DEF EntrySpec

\* What is sent keeps the limits of the gate with the values it is sent with
\* (_revalidate_final_order).
THEOREM SentKeepsLimitsHolds == EntrySpec => []SentKeepsLimits
<1>1. ChainInv => SentKeepsLimits
  BY DEF ChainInv, ClearedInv, SentKeepsLimits
<1> QED BY <1>1, ChainInvariant, PTL

\* The stop of an order that is sent is on the losing and its target on the
\* winning side: the gate saw to it that both exist and differ from the entry,
\* the engine that they are on their sides (validate_rr_ratio, validate_order).
THEOREM StopOnLosingSideHolds == EntrySpec => []StopOnLosingSide
<1>1. ChainInv => StopOnLosingSide
  <2> SUFFICES ASSUME ChainInv, stage = "sent"
               PROVE  /\ Side(ctx.dir) * (req.entry - req.sl) > 0
                      /\ Side(ctx.dir) * (req.tp - req.entry) > 0
    BY DEF StopOnLosingSide
  <2>1. req.sl > 0 /\ req.tp > 0
    BY DEF ChainInv, ClearedInv, Limits, RewardOk
  <2> QED BY <2>1 DEF ChainInv, SidesInv, RightSides
<1> QED BY <1>1, ChainInvariant, PTL

\* Whatever the analysis proposed, the knobs were set to and the rounding did,
\* an order that is sent loses at its stop no more than the risk its volume was
\* computed from, less than one digit aside, and never more than a configured
\* MAX_RISK_PCT (calculate_lot_size, _check_monetary_risk).
THEOREM BudgetKeptHolds == EntrySpec => []BudgetKept
<1>1. ChainInv => BudgetKept
  BY DEF ChainInv, BuiltInv, ClearedInv, BudgetKept
<1> QED BY <1>1, ChainInvariant, PTL


-----------------------------------------------------------------------------
(* The averages.  The detector's history is one reading long: what it last *)
(* saw of the two averages agrees with the state it compares against, as   *)
(* long as both were known.                                                *)

Sided(side, state) ==
  /\ side \in {NoValue, "above", "below"}
  /\ Known(side) =>
       /\ HasEmas(state) /\ state.fast \in Int /\ state.slow \in Int
       /\ side = "above" => state.fast >= state.slow
       /\ side = "below" => state.fast <= state.slow

SideInv ==
  /\ market = [s \in Markets |-> market[s]]
  /\ \A s \in Markets : market[s].reading \in Readings
  /\ marketStates = [s \in Markets |-> marketStates[s]]
  /\ emaSide = [s \in Markets |-> emaSide[s]]
  /\ found = [s \in Markets |-> found[s]]
  /\ \A s \in Markets : Sided(emaSide[s], marketStates[s])

\* One reading: the side follows it, and a change of sides is a crossing.
LEMMA SideFollows ==
  ASSUME NEW r \in Readings, NEW side, NEW state, Sided(side, state)
  PROVE  /\ Sided(SideOf(r, side), UpdateState(r))
         /\ Known(side) /\ Known(SideOf(r, side)) /\ SideOf(r, side) # side
              => "EMA_CROSSOVER" \in Detect(r, state)
<1>1. /\ r.fast \in Int \union {NoValue} /\ r.slow \in Int \union {NoValue}
      /\ UpdateState(r) # NoValue
      /\ UpdateState(r).fast = r.fast /\ UpdateState(r).slow = r.slow
  BY ReadingsAssumption DEF UpdateState
<1>2. CASE ~HasEmas(r)
  BY <1>2 DEF SideOf, Sided, Known
<1>3. CASE HasEmas(r)
  <2>1. r.fast \in Int /\ r.slow \in Int /\ HasEmas(UpdateState(r))
    BY <1>1, <1>3 DEF HasEmas, Known
  <2>2. SideOf(r, side) = IF r.fast > r.slow THEN "above"
                          ELSE IF r.fast < r.slow THEN "below" ELSE side
    BY <1>3 DEF SideOf
  <2>3. Sided(SideOf(r, side), UpdateState(r))
    BY <1>1, <2>1, <2>2 DEF Sided, Known
  <2>4. ASSUME Known(side), SideOf(r, side) # side
        PROVE  "EMA_CROSSOVER" \in CrossEvents(r, state)
    <3>1. HasEmas(state) /\ state.fast \in Int /\ state.slow \in Int
          /\ (side = "above" => state.fast >= state.slow)
          /\ (side = "below" => state.fast <= state.slow)
          /\ side \in {"above", "below"}
      BY <2>4 DEF Sided, Known
    <3>2. \/ state.fast <= state.slow /\ r.fast > r.slow
          \/ state.fast >= state.slow /\ r.fast < r.slow
      BY <2>1, <2>2, <2>4, <3>1
    <3> QED BY <1>3, <3>1, <3>2 DEF CrossEvents, When
  <2> QED BY <2>3, <2>4 DEF Detect
<1> QED BY <1>2, <1>3

\* A poll of one symbol moves that symbol's side and state together.
LEMMA PollKeepsSides ==
  ASSUME SideInv, NEW s \in Markets, PollSymbol(s)
  PROVE  /\ SideInv'
         /\ \A t \in Markets : Known(emaSide[t]) /\ Known(emaSide'[t]) /\ emaSide'[t] # emaSide[t]
              => "EMA_CROSSOVER" \in found'[t]
<1> DEFINE r == market[s].reading
<1>1. /\ found' = [found EXCEPT ![s] = Detect(r, marketStates[s])]
      /\ marketStates' = [marketStates EXCEPT ![s] = UpdateState(r)]
      /\ emaSide' = [emaSide EXCEPT ![s] = SideOf(r, emaSide[s])]
      /\ market' = market
  BY DEF PollSymbol
<1>2. r \in Readings /\ Sided(emaSide[s], marketStates[s])
  BY DEF SideInv
<1>3. /\ found'[s] = Detect(r, marketStates[s]) /\ marketStates'[s] = UpdateState(r)
      /\ emaSide'[s] = SideOf(r, emaSide[s])
      /\ \A t \in Markets \ {s} : /\ found'[t] = found[t] /\ marketStates'[t] = marketStates[t]
                                  /\ emaSide'[t] = emaSide[t]
      /\ found' = [t \in Markets |-> found'[t]] /\ emaSide' = [t \in Markets |-> emaSide'[t]]
      /\ marketStates' = [t \in Markets |-> marketStates'[t]]
  BY <1>1 DEF SideInv
<1>4. PICK side, state : side = emaSide[s] /\ state = marketStates[s]
  OBVIOUS
<1>5. PICK q \in Readings : q = r
  BY <1>2
<1>6. Sided(side, state)
  BY <1>2, <1>4 DEF Sided, HasEmas, Known
<1>7. /\ Sided(SideOf(q, side), UpdateState(q))
      /\ Known(side) /\ Known(SideOf(q, side)) /\ SideOf(q, side) # side
           => "EMA_CROSSOVER" \in Detect(q, state)
  BY <1>6, SideFollows
<1>8. /\ found'[s] = Detect(q, state) /\ marketStates'[s] = UpdateState(q)
      /\ emaSide'[s] = SideOf(q, side)
  BY <1>1, <1>3, <1>4, <1>5 DEF SideInv
<1>9. PICK newSide, newState : newSide = emaSide'[s] /\ newState = marketStates'[s]
  OBVIOUS
<1>10. Sided(newSide, newState)
  BY <1>7, <1>8, <1>9
<1>11. \A t \in Markets : Sided(emaSide'[t], marketStates'[t])
  BY <1>3, <1>9, <1>10 DEF SideInv, Sided, HasEmas, Known
<1>12. SideInv'
  BY <1>1, <1>3, <1>11 DEF SideInv
<1>13. \A t \in Markets : Known(emaSide[t]) /\ Known(emaSide'[t]) /\ emaSide'[t] # emaSide[t]
              => "EMA_CROSSOVER" \in found'[t]
  BY <1>3, <1>4, <1>7, <1>8 DEF Known
<1> QED BY <1>12, <1>13

\* A fast average seen on the other side of the slow one is reported at that poll, for
\* any readings and however many polls found them equal or could not compute them
\* (EventDetector.detect, update_state).
THEOREM NoCrossingMissedHolds == MarketSpec => NoCrossingMissed
<1>1. MarketInit => SideInv
  BY DEF MarketInit, SideInv, Sided, Known
<1> DEFINE Reported ==
      \A s \in Markets :
        Known(emaSide[s]) /\ Known(emaSide'[s]) /\ emaSide'[s] # emaSide[s]
          => "EMA_CROSSOVER" \in found'[s]
<1>2. SideInv /\ [MarketNext]_marketVars => SideInv' /\ [Reported]_marketVars
  <2> SUFFICES ASSUME SideInv, [MarketNext]_marketVars
               PROVE  SideInv' /\ Reported
    OBVIOUS
  <2>1. ASSUME NEW s \in Markets, PollSymbol(s)
        PROVE  SideInv' /\ Reported
    BY <2>1, PollKeepsSides
  <2>2. ASSUME UNCHANGED <<marketStates, emaSide, found, market>>
        PROVE  SideInv' /\ Reported
    BY <2>2 DEF SideInv, Sided, HasEmas, Known
  <2>3. ASSUME NEW s \in Markets, MarketMovesOn(s)
        PROVE  SideInv' /\ Reported
    <3>1. PICK r \in Readings, skew \in Skews, time \in {market[s].time, now} :
            market' = [market EXCEPT ![s] = [reading |-> r, time |-> time, skew |-> skew]]
      BY <2>3 DEF MarketMovesOn
    <3>3. UNCHANGED <<marketStates, emaSide, found>>
      BY <2>3 DEF MarketMovesOn
    <3>2. /\ market' = [t \in Markets |-> market'[t]]
          /\ \A t \in Markets : market'[t].reading \in Readings
      BY <3>1 DEF SideInv
    <3> QED BY <3>2, <3>3 DEF SideInv, Sided, HasEmas, Known
  <2>4. ClockTicks \/ EventCycle \/ UNCHANGED marketVars
          => UNCHANGED <<marketStates, emaSide, found, market>>
    BY DEF ClockTicks, EventCycle, marketVars
  <2>5. \A s \in Markets : ManualCycle(s) => UNCHANGED <<marketStates, emaSide, found, market>>
    BY DEF ManualCycle
  <2> QED BY <2>1, <2>2, <2>3, <2>4, <2>5 DEF MarketNext
<1> QED BY <1>1, <1>2, PTL DEF MarketSpec, NoCrossingMissed


-----------------------------------------------------------------------------
(* Zones.  Whether a zone is consumed is asked of all the bars after it,   *)
(* and bars are only added, so what is spent once is consumed at every     *)
(* later evaluation, at whatever ATR.                                      *)

ZoneInv ==
  /\ bars \in Seq(Candles) /\ forming \in Candles
  /\ \A z \in spent : z.origin \in Nat /\ Consumed(z)

TouchStarts(z) ==
  {k \in After(z) : Touched(z, k) /\ (k - 1 \in After(z) => ~Touched(z, k - 1))}

\* One more bar does not take back a touch or a break.
LEMMA ConsumedStays ==
  ASSUME bars \in Seq(Candles), NEW k \in Candles, bars' = Append(bars, k),
         NEW z, z.origin \in Nat, Consumed(z)
  PROVE  Consumed(z)'
<1>1. /\ Len(bars) \in Nat /\ Len(bars') = Len(bars) + 1
      /\ \A i \in 1..Len(bars) : bars'[i] = bars[i]
  OBVIOUS
<1>2. \A i \in After(z) : i \in Int /\ i \in 1..Len(bars) /\ bars'[i] = bars[i] /\ i \in After(z)'
  BY <1>1 DEF After
<1>3. \A i \in After(z) : (Touched(z, i)' <=> Touched(z, i)) /\ (Broken(z, i)' <=> Broken(z, i))
  BY <1>2 DEF Touched, Broken
<1>4. CASE \E i \in After(z) : Broken(z, i)
  BY <1>2, <1>3, <1>4 DEF Consumed
<1>5. CASE z.kind = "OB" /\ Touches(z) > MaxRetests
  <2>1. \A i \in After(z) : i - 1 \in After(z)' => i - 1 \in After(z)
    BY <1>1, <1>2 DEF After
  <2>2. TouchStarts(z) \subseteq TouchStarts(z)'
    BY <1>2, <1>3, <2>1 DEF TouchStarts
  <2>3. IsFiniteSet(TouchStarts(z)')
    <3>1. TouchStarts(z)' \subseteq z.origin + 2 .. Len(bars')
      BY DEF TouchStarts, After
    <3>2. IsFiniteSet(z.origin + 2 .. Len(bars'))
      <4>1. PICK first \in Int, last \in Int : first = z.origin + 2 /\ last = Len(bars')
        BY <1>1
      <4>2. IsFiniteSet(first .. last)
        BY FS_Interval
      <4> QED BY <4>1, <4>2
    <3> QED BY <3>1, <3>2, FS_Subset
  <2>4. Cardinality(TouchStarts(z)) <= Cardinality(TouchStarts(z)')
    BY <2>2, <2>3, FS_Subset
  <2>5. IsFiniteSet(TouchStarts(z))
    BY <2>2, <2>3, FS_Subset
  <2>6. Cardinality(TouchStarts(z)) \in Nat /\ Cardinality(TouchStarts(z)') \in Nat
    BY <2>3, <2>5, FS_CardinalityType
  <2>7. Touches(z) = Cardinality(TouchStarts(z)) /\ Touches(z)' = Cardinality(TouchStarts(z)')
    BY DEF Touches, TouchStarts
  <2>8. Touches(z)' > MaxRetests
    BY <1>5, <2>4, <2>6, <2>7, ZoneAssumption
  <2> QED BY <1>5, <2>8 DEF Consumed
<1> QED BY <1>4, <1>5 DEF Consumed

\* What is set down as spent is a zone of the bars and is consumed.
LEMMA SpentAreConsumed ==
  bars \in Seq(Candles) => \A z \in SpentZones : z.origin \in Nat /\ Consumed(z)
<1> SUFFICES ASSUME bars \in Seq(Candles), NEW z \in SpentZones
             PROVE  z.origin \in Nat /\ Consumed(z)
  OBVIOUS
<1>1. Consumed(z)
  BY DEF SpentZones, Consumed, After
<1>2. PICK atr : z \in OrderBlocks(atr) \union Gaps(atr)
  BY DEF SpentZones
<1>3. Len(bars) \in Nat /\ ObLookback \in Nat /\ FvgLookback \in Nat
  BY ZoneAssumption
<1>4. CASE z \in OrderBlocks(atr)
  <2>1. PICK i \in Larger(2, Len(bars) - ObLookback + 1) .. Len(bars) - 1 : z.origin = i
    BY <1>4 DEF OrderBlocks, Zone
  <2> QED BY <1>1, <1>3, <2>1 DEF Larger
<1>5. CASE z \in Gaps(atr)
  <2>1. PICK i \in Larger(2, Len(bars) - FvgLookback + 1) .. Len(bars) - 1 : z.origin = i
    BY <1>5 DEF Gaps, Zone
  <2> QED BY <1>1, <1>3, <2>1 DEF Larger
<1> QED BY <1>2, <1>4, <1>5

\* What fires is the plan at a zone that is not consumed.
LEMMA FiresAtLiveZone ==
  ASSUME NEW side, NEW bias, NEW price, NEW atr, NEW blocked,
         AskGate(side, bias, price, atr, blocked), fired' # fired
  PROVE  ~Consumed(fired'.zone)
<1> DEFINE live == EntryPlan(side, price, atr, TRUE)
<1>1. (\E plan \in live : EntryReady(side, plan.zone, blocked)) /\ fired' = CHOOSE plan \in live : TRUE
  BY DEF AskGate
<1>2. fired' \in live
  <2> HIDE DEF live
  <2> QED BY <1>1
<1>3. PICK z \in PickZone(side, price, atr) : fired'.zone = z
  BY <1>2 DEF EntryPlan
<1>4. z \in EntryZones(atr)
  BY <1>3 DEF PickZone
<1> QED BY <1>3, <1>4 DEF EntryZones

\* No entry fires from a zone that was consumed at any earlier time, for any bars,
\* lookbacks and retests, and however the ATR and the bias move between evaluations
\* (detect_entry_zones, _zone_entry_plan).
THEOREM NoEntryFromSpentZoneHolds == ZoneSpec => NoEntryFromSpentZone
<1>1. ZoneInit => ZoneInv
  BY DEF ZoneInit, ZoneInv
<1>2. ZoneInv /\ [ZoneNext]_zoneVars => ZoneInv'
  <2> SUFFICES ASSUME ZoneInv, [ZoneNext]_zoneVars
               PROVE  ZoneInv'
    OBVIOUS
  <2>1. CASE BarCloses
    <3>1. /\ bars' = Append(bars, forming) /\ forming' \in Candles
          /\ spent' = spent \union SpentZones'
      BY <2>1 DEF BarCloses
    <3>2. bars \in Seq(Candles) /\ forming \in Candles /\ bars' \in Seq(Candles)
      BY <3>1 DEF ZoneInv
    <3>3. \A z \in spent : z.origin \in Nat /\ Consumed(z)'
      BY <3>1, <3>2, ConsumedStays DEF ZoneInv
    <3>4. (bars \in Seq(Candles) => \A z \in SpentZones : z.origin \in Nat /\ Consumed(z))'
      BY SpentAreConsumed, PTL
    <3> QED BY <3>1, <3>2, <3>3, <3>4 DEF ZoneInv
  <2>2. CASE Tick \/ UNCHANGED zoneVars
    BY <2>2 DEF ZoneInv, Tick, zoneVars, Consumed, Touches, Touched, Broken, After
  <2>3. ASSUME NEW side, NEW bias, NEW price, NEW atr, NEW blocked,
               AskGate(side, bias, price, atr, blocked)
        PROVE  ZoneInv'
    BY <2>3 DEF ZoneInv, AskGate, Consumed, Touches, Touched, Broken, After
  <2> QED BY <2>1, <2>2, <2>3 DEF ZoneNext
<1>3. ZoneInv /\ [ZoneNext]_zoneVars => [fired' # fired => fired'.zone \notin spent]_zoneVars
  <2> SUFFICES ASSUME ZoneInv, ZoneNext, fired' # fired
               PROVE  fired'.zone \notin spent
    BY DEF zoneVars
  <2>1. PICK side, bias, price, atr, blocked : AskGate(side, bias, price, atr, blocked)
    BY DEF ZoneNext, Tick, BarCloses
  <2>2. ~Consumed(fired'.zone)
    BY <2>1, FiresAtLiveZone
  <2>3. PICK z : z = fired'.zone
    OBVIOUS
  <2>4. ~Consumed(z)
    BY <2>2, <2>3 DEF Consumed, Touches, Touched, Broken, After
  <2> QED BY <2>3, <2>4 DEF ZoneInv
<1> QED BY <1>1, <1>2, <1>3, PTL DEF ZoneSpec, NoEntryFromSpentZone

=============================================================================
