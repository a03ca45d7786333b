------------------------- MODULE PositionCareProofs -------------------------
(***************************************************************************)
(* Proofs about PositionCare, for any tickets, quotes, risk and ATRs: type *)
(* correctness; that a stop never moves against its position; and, while   *)
(* the monitor's reads of the open positions do not fail, that a close is  *)
(* reviewed at most once.                                                  *)
(***************************************************************************)
EXTENDS PositionCare, FiniteSetTheorems, TLAPS

\* The stop manage() read is still the broker's: nothing else moves a stop.
SeenInv == \A t \in DOMAIN seen : pos[t].state # "none" /\ seen[t] = pos[t].sl

\* A position is reviewed after it closed and only while the detector knows it.
CloseInv ==
  \A t \in Tickets :
    /\ pos[t].state \in {"none", "open"} => reviews[t] = {}
    /\ t \in known => reviews[t] = {} /\ pos[t].state # "none"
    /\ trades[t].status = "CLOSED" \/ tradesFile[t].status = "CLOSED" => pos[t].state = "closed"

Positions == [state : {"none", "open", "closed"}, side : Side, sl : Nat]

-----------------------------------------------------------------------------
(* Lemmas about the operators                                              *)

\* The initial stop is R away from entry, a price (InitialRisk < Entry).
LEMMA InitialStopNat == \A side \in Side : InitialStop(side) \in Nat \ {0}
<1>1. Entry \in Nat /\ InitialRisk \in Nat /\ InitialRisk < Entry /\ InitialRisk > 0
  BY PositionAssumption
<1>2. (-10 * InitialRisk) \div 10 = -InitialRisk
  BY <1>1
<1> QED BY <1>1, <1>2 DEF InitialStop, LockAt, Side

\* The anchor of R is a stop that was set at a fill, or 0 when there is none.
LEMMA AnchorNat ==
  ASSUME CareTypeOK, NEW t \in Tickets
  PROVE  InitialSL(t) \in Nat
<1>1. CASE t \in DOMAIN Contexts
  <2>1. Contexts[t] \in {InitialStop(pos[t].side)}
    BY <1>1 DEF CareTypeOK, Contexts
  <2>2. pos[t].side \in Side
    BY DEF CareTypeOK
  <2> QED BY <1>1, <2>1, <2>2, InitialStopNat DEF InitialSL
<1>2. CASE t \notin DOMAIN Contexts
  BY <1>2 DEF InitialSL
<1> QED BY <1>1, <1>2

LEMMA AbsNat == \A n \in Int : Abs(n) \in Nat
BY DEF Abs

LEMMA RiskNat ==
  ASSUME CareTypeOK, NEW t \in Tickets, NEW sl \in Nat, NEW atr \in ATRs
  PROVE  Risk(t, sl, atr) \in Nat
<1> DEFINE anchor == IF InitialSL(t) > 0 THEN InitialSL(t) ELSE sl
<1>1. anchor \in Nat /\ Entry \in Nat /\ atr \in Nat
  BY AnchorNat, PositionAssumption
<1> HIDE DEF anchor
<1>2. Abs(Entry - anchor) \in Nat
  BY <1>1, AbsNat
<1> QED BY <1>1, <1>2 DEF Risk, anchor

LEMMA LockInt ==
  ASSUME NEW side \in Side, NEW r \in {1, 10}, NEW risk \in Nat
  PROVE  LockAt(side, r, risk) \in Int
<1>1. Entry \in Int
  BY PositionAssumption
<1>2. r * risk \in Int
  OBVIOUS
<1>3. (r * risk) \div 10 \in Int
  BY <1>2
<1> QED BY <1>1, <1>3 DEF LockAt

\* Whatever rung the ladder picks is an integer price (decide_stop_loss).
LEMMA CandidateInt ==
  ASSUME NEW side \in Side, NEW p \in Nat, NEW risk \in Nat, NEW atr \in Nat
  PROVE  Candidate(side, p, risk, atr) \in Int
<1> DEFINE trail == IF side = "buy" THEN p - (3 * atr) \div 2 ELSE p + (3 * atr) \div 2
           gain == Gain(side, Entry, p)
<1>1. trail \in Int
  OBVIOUS
<1>2. LockAt(side, 1, risk) \in Int /\ LockAt(side, 10, risk) \in Int
  BY LockInt
<1>3. Better(side, trail, LockAt(side, 10, risk)) \in Int
  BY <1>1, <1>2 DEF Better
<1> HIDE DEF trail, gain
<1>4. Candidate(side, p, risk, atr) \in
        {Better(side, trail, LockAt(side, 10, risk)), LockAt(side, 10, risk),
         LockAt(side, 1, risk), 0}
  BY DEF Candidate, trail, gain
<1> QED BY <1>2, <1>3, <1>4

\* A decision is "no change" or a tighter stop, never one against the position.
LEMMA DecideTightens ==
  ASSUME CareTypeOK, NEW t \in Tickets, NEW sl \in Nat, NEW atr \in ATRs,
         Decide(t, sl, atr) > 0
  PROVE  /\ Decide(t, sl, atr) \in Nat
         /\ sl > 0 => Gain(pos[t].side, sl, Decide(t, sl, atr)) > 0
<1> DEFINE side == pos[t].side
           risk == Risk(t, sl, atr)
           new == Candidate(side, price, risk, atr)
<1>1. side \in Side /\ price \in Nat /\ atr \in Nat /\ risk \in Nat
  BY RiskNat, PositionAssumption DEF CareTypeOK
<1>2. new \in Int
  BY <1>1, CandidateInt
<1>3. Decide(t, sl, atr) = IF risk > 0 /\ new > 0 /\ Tightens(side, new, sl, risk) THEN new ELSE 0
  BY DEF Decide
<1> HIDE DEF side, risk, new
<1>4. Decide(t, sl, atr) = new /\ Tightens(side, new, sl, risk) /\ new > 0
  BY <1>3
<1> QED BY <1>2, <1>4 DEF Tightens, side

-----------------------------------------------------------------------------
(* Type correctness                                                        *)

LEMMA TypeInit == CareInit => CareTypeOK
<1> SUFFICES ASSUME CareInit
             PROVE  CareTypeOK
  OBVIOUS
<1>1. pos \in [Tickets -> Positions]
  BY DEF CareInit, Positions
<1>2. NoTrade \in Lines
  BY DEF NoTrade, Lines
<1>3. /\ trades \in [Tickets -> Lines] /\ tradesFile \in [Tickets -> Lines]
      /\ reviews \in [Tickets -> SUBSET Nat] /\ \A t \in Tickets : IsFiniteSet(reviews[t])
  BY <1>2, FS_EmptySet DEF CareInit
<1>4. DOMAIN seen = {} /\ DOMAIN cache = {} /\ DOMAIN disk = {}
  BY DEF CareInit
<1>5. boots \in 0..MaxRestarts /\ price \in Prices
  BY PositionAssumption DEF CareInit
<1> QED BY <1>1, <1>3, <1>4, <1>5 DEF CareInit, CareTypeOK, Positions

LEMMA OpenSingleType ==
  ASSUME CareTypeOK, NEW t \in Tickets, OpenSingle(t)
  PROVE  CareTypeOK'
<1> DEFINE sl == InitialStop(pos[t].side)
<1>1. pos[t].side \in Side /\ sl \in Nat
  BY InitialStopNat DEF CareTypeOK
<1> HIDE DEF sl
<1>2. /\ pos' = [pos EXCEPT ![t].state = "open", ![t].sl = sl]
      /\ cache' = Put(cache, t, sl)
      /\ disk' \in {disk, Put(disk, t, sl)}
      /\ trades' = [trades EXCEPT ![t] = OpenLine(sl)]
      /\ tradesFile' \in {tradesFile, [tradesFile EXCEPT ![t] = OpenLine(sl)]}
  BY DEF OpenSingle, FillAt, Written, sl
<1>3. /\ pos' \in [Tickets -> Positions]
      /\ \A u \in Tickets : pos'[u].side = pos[u].side
  <2>1. pos \in [Tickets -> Positions]
    BY DEF CareTypeOK, Positions
  <2> QED BY <1>1, <1>2, <2>1 DEF Positions
<1>4. OpenLine(sl) \in Lines
  BY <1>1 DEF OpenLine, Lines
<1>5. trades' \in [Tickets -> Lines] /\ tradesFile' \in [Tickets -> Lines]
  BY <1>2, <1>4 DEF CareTypeOK
<1>6. ASSUME NEW f, f \in {cache, disk}
      PROVE  /\ DOMAIN Put(f, t, sl) \subseteq Tickets
             /\ \A u \in DOMAIN Put(f, t, sl) : Put(f, t, sl)[u] = InitialStop(pos[u].side)
  <2>1. DOMAIN f \subseteq Tickets /\ \A u \in DOMAIN f : f[u] = InitialStop(pos[u].side)
    BY <1>6 DEF CareTypeOK
  <2>2. /\ DOMAIN Put(f, t, sl) = DOMAIN f \cup {t}
        /\ \A u \in DOMAIN f \cup {t} : Put(f, t, sl)[u] = IF u = t THEN sl ELSE f[u]
    BY DEF Put
  <2> QED BY <2>1, <2>2 DEF sl
<1>7. /\ DOMAIN cache' \subseteq Tickets /\ DOMAIN disk' \subseteq Tickets
      /\ \A u \in DOMAIN cache' : cache'[u] = InitialStop(pos'[u].side)
      /\ \A u \in DOMAIN disk' : disk'[u] = InitialStop(pos'[u].side)
  <2>1. /\ DOMAIN cache' \subseteq Tickets
        /\ \A u \in DOMAIN cache' : cache'[u] = InitialStop(pos[u].side)
    BY <1>2, <1>6
  <2>2. /\ DOMAIN disk' \subseteq Tickets
        /\ \A u \in DOMAIN disk' : disk'[u] = InitialStop(pos[u].side)
    BY <1>2, <1>6 DEF CareTypeOK
  <2> QED BY <1>3, <2>1, <2>2
<1> QED
  BY <1>3, <1>5, <1>7 DEF OpenSingle, CareTypeOK, careVars, Positions

\* Steps that change positions and nothing but their state and their stop.
LEMMA MovedType ==
  ASSUME CareTypeOK, UNCHANGED <<ctxVars, reviewVars, boots>>,
         price' \in Prices, switches' \subseteq Switch, armed' \in BOOLEAN,
         pos' \in [Tickets -> Positions],
         \A u \in Tickets : pos'[u].side = pos[u].side,
         DOMAIN seen' \subseteq Tickets, \A u \in DOMAIN seen' : seen'[u] \in Nat
  PROVE  CareTypeOK'
BY DEF CareTypeOK, ctxVars, reviewVars, Positions

\* A position whose state changes is still a position.
LEMMA ManagedType ==
  ASSUME CareTypeOK, NEW t \in Tickets, ManageTicket(t)
  PROVE  /\ pos' \in [Tickets -> Positions]
         /\ \A u \in Tickets : /\ pos'[u].side = pos[u].side /\ pos'[u].state = pos[u].state
                               /\ u # t => pos'[u] = pos[u]
         /\ \/ pos' = pos
            \/ /\ pos'[t].sl > 0
               /\ seen[t] > 0 => Gain(pos[t].side, seen[t], pos'[t].sl) > 0
<1>1. seen[t] \in Nat
  BY DEF ManageTicket, CareTypeOK
<1>2. PICK atr \in ATRs :
        LET new == Decide(t, seen[t], atr)
        IN  pos' = IF new > 0 /\ Accepts(t, new) THEN [pos EXCEPT ![t].sl = new] ELSE pos
  BY DEF ManageTicket
<1> DEFINE new == Decide(t, seen[t], atr)
<1>3. new > 0 => new \in Nat /\ (seen[t] > 0 => Gain(pos[t].side, seen[t], new) > 0)
  BY <1>1, DecideTightens
<1> HIDE DEF new
<1>4. CASE new > 0 /\ Accepts(t, new)
  <2>1. pos' = [pos EXCEPT ![t].sl = new]
    BY <1>2, <1>4 DEF new
  <2>2. pos \in [Tickets -> Positions] /\ new \in Nat
    BY <1>3, <1>4 DEF CareTypeOK, Positions
  <2>3. pos'[t].sl = new /\ pos' \in [Tickets -> Positions]
    BY <2>1, <2>2 DEF Positions
  <2>4. \A u \in Tickets : /\ pos'[u].side = pos[u].side /\ pos'[u].state = pos[u].state
                           /\ u # t => pos'[u] = pos[u]
    BY <2>1, <2>2 DEF Positions
  <2> QED BY <1>3, <1>4, <2>3, <2>4
<1>5. CASE ~(new > 0 /\ Accepts(t, new))
  BY <1>2, <1>5 DEF new, CareTypeOK, Positions
<1> QED BY <1>4, <1>5

\* What a monitoring pass leaves behind, for any list it may have read.
LEMMA ObserveType ==
  ASSUME CareTypeOK, NEW read \in SUBSET Tickets, Observe(read)
  PROVE  /\ known' \subseteq Tickets
         /\ trades' \in [Tickets -> Lines] /\ tradesFile' \in [Tickets -> Lines]
         /\ reviews' \in [Tickets -> SUBSET Nat] /\ \A t \in Tickets : IsFiniteSet(reviews'[t])
<1> DEFINE closed == known \ read
<1>1. PICK done \in SUBSET closed, deal \in CloseDeals(closed) :
        /\ reviews' = [t \in Tickets |->
             IF t \in done THEN reviews[t] \cup {Stamp(t, deal[t])} ELSE reviews[t]]
        /\ trades' = [t \in Tickets |-> IF t \in done THEN ClosedLine(t) ELSE trades[t]]
        /\ tradesFile' \in Written(tradesFile,
             [t \in Tickets |-> IF t \in done THEN ClosedLine(t) ELSE tradesFile[t]])
  BY DEF Observe
<1>2. \A t \in Tickets : ClosedLine(t) \in Lines
  BY AnchorNat DEF ClosedLine, Lines
<1>3. trades' \in [Tickets -> Lines]
  BY <1>1, <1>2 DEF CareTypeOK
<1>4. tradesFile' \in [Tickets -> Lines]
  <2>1. tradesFile' \in
          {tradesFile, [t \in Tickets |-> IF t \in done THEN ClosedLine(t) ELSE tradesFile[t]]}
    BY <1>1 DEF Written
  <2> QED BY <1>2, <2>1 DEF CareTypeOK
<1>5. ASSUME NEW t \in Tickets
      PROVE  reviews'[t] \in SUBSET Nat /\ IsFiniteSet(reviews'[t])
  <2>1. reviews[t] \in SUBSET Nat /\ IsFiniteSet(reviews[t])
    BY DEF CareTypeOK
  <2>2. Stamp(t, deal[t]) \in Nat
    BY <2>1, FS_CardinalityType DEF Stamp
  <2>3. IsFiniteSet(reviews[t] \cup {Stamp(t, deal[t])})
    BY <2>1, FS_AddElement
  <2>4. reviews'[t] \in {reviews[t], reviews[t] \cup {Stamp(t, deal[t])}}
    BY <1>1
  <2> QED BY <2>1, <2>2, <2>3, <2>4
<1>6. reviews' = [t \in Tickets |-> reviews'[t]]
  BY <1>1
<1>7. reviews' \in [Tickets -> SUBSET Nat]
  BY <1>5, <1>6
<1> QED BY <1>3, <1>4, <1>5, <1>7 DEF Observe

LEMMA TypeStep ==
  ASSUME CareTypeOK, [CareNext]_vars
  PROVE  CareTypeOK'
<1> USE DEF careVars
<1>a. /\ pos \in [Tickets -> Positions] /\ price \in Prices /\ switches \subseteq Switch
      /\ armed \in BOOLEAN /\ DOMAIN seen \subseteq Tickets /\ \A u \in DOMAIN seen : seen[u] \in Nat
  BY DEF CareTypeOK, Positions
<1>1. ASSUME NEW t \in Tickets, OpenSingle(t)
      PROVE  CareTypeOK'
  BY <1>1, OpenSingleType
<1>2. ASSUME NEW t \in Tickets, OpenUnremembered(t)
      PROVE  CareTypeOK'
  <2>1. PICK sl \in {InitialStop(pos[t].side), 0} :
          pos' = [pos EXCEPT ![t].state = "open", ![t].sl = sl]
    BY <1>2 DEF OpenUnremembered, FillAt
  <2>2. sl \in Nat
    BY <1>a, InitialStopNat DEF Positions
  <2>3. pos' \in [Tickets -> Positions] /\ \A u \in Tickets : pos'[u].side = pos[u].side
    BY <1>a, <2>1, <2>2 DEF Positions
  <2> QED BY <1>2, <1>a, <2>3, MovedType DEF OpenUnremembered
<1>3. ASSUME NEW t \in Tickets, CloseAtBroker(t)
      PROVE  CareTypeOK'
  <2>1. pos' \in [Tickets -> Positions] /\ \A u \in Tickets : pos'[u].side = pos[u].side
    BY <1>3, <1>a DEF CloseAtBroker, Positions
  <2> QED BY <1>3, <1>a, <2>1, MovedType DEF CloseAtBroker
<1>4. ASSUME NEW p \in Prices, MarketMoves(p)
      PROVE  CareTypeOK'
  <2>1. pos' \in [Tickets -> Positions] /\ \A u \in Tickets : pos'[u].side = pos[u].side
    BY <1>4, <1>a DEF MarketMoves, Positions
  <2> QED BY <1>4, <1>a, <2>1, MovedType DEF MarketMoves
<1>5. CASE Operate
  BY <1>5, <1>a, PositionAssumption, MovedType DEF Operate, Switch
<1>6. CASE ReadPositions
  <2>1. DOMAIN seen' \subseteq Tickets /\ \A u \in DOMAIN seen' : seen'[u] \in Nat
    BY <1>6, <1>a DEF ReadPositions, Open, Positions
  <2> QED BY <1>6, <1>a, <2>1, MovedType DEF ReadPositions
<1>7. ASSUME NEW t \in Tickets, ManageTicket(t)
      PROVE  CareTypeOK'
  <2>1. DOMAIN seen' \subseteq Tickets /\ \A u \in DOMAIN seen' : seen'[u] \in Nat
    BY <1>7, <1>a DEF ManageTicket
  <2> QED BY <1>7, <1>a, <2>1, ManagedType, MovedType DEF ManageTicket
<1>8. ASSUME NEW t \in Tickets, ApplyFails(t)
      PROVE  CareTypeOK'
  <2>1. DOMAIN seen' \subseteq Tickets /\ \A u \in DOMAIN seen' : seen'[u] \in Nat
    BY <1>8, <1>a DEF ApplyFails
  <2> QED BY <1>8, <1>a, <2>1, MovedType DEF ApplyFails
<1>9. CASE MonitorPositions
  <2>1. PICK read \in SUBSET Tickets : Observe(read)
    BY <1>9 DEF MonitorPositions, MonitorAllPositions, PositionsRead, Open
  <2> QED BY <1>9, <2>1, ObserveType DEF MonitorPositions, CareTypeOK, ctxVars
<1>10. CASE RestartProcess
  <2>1. DOMAIN seen' = {} /\ DOMAIN cache' = {}
    BY <1>10 DEF RestartProcess
  <2>2. boots' \in 0..MaxRestarts
    <3>1. MaxRestarts \in Nat /\ boots \in 0..MaxRestarts
      BY PositionAssumption DEF CareTypeOK
    <3> QED BY <1>10, <3>1 DEF RestartProcess
  <2> QED BY <1>10, <2>1, <2>2 DEF RestartProcess, CareTypeOK
<1>11. CASE UNCHANGED vars
  BY <1>11 DEF CareTypeOK, vars, ctxVars, reviewVars
<1> QED
  BY <1>1, <1>2, <1>3, <1>4, <1>5, <1>6, <1>7, <1>8, <1>9, <1>10, <1>11 DEF CareNext, Manage

\* Every position, snapshot, context, ledger line and review is well formed
\* whatever the market, the disk, the operator and the restarts do.
THEOREM TypeCorrect == CareSpec => []CareTypeOK
<1> QED BY TypeInit, TypeStep, PTL DEF CareSpec

-----------------------------------------------------------------------------
(* The stop ladder                                                         *)

LEMMA SeenStep ==
  ASSUME CareTypeOK, SeenInv, [CareNext]_vars
  PROVE  SeenInv'
<1>a. pos \in [Tickets -> Positions] /\ DOMAIN seen \subseteq Tickets
  BY DEF CareTypeOK, Positions
<1>b. ASSUME UNCHANGED seen,
             \A t \in DOMAIN seen : pos'[t].sl = pos[t].sl /\ (pos'[t].state = "none" => pos[t].state = "none")
      PROVE  SeenInv'
  BY <1>b DEF SeenInv
<1>1. ASSUME NEW t \in Tickets, OpenSingle(t) \/ OpenUnremembered(t)
      PROVE  SeenInv'
  <2>1. PICK sl : pos' = [pos EXCEPT ![t].state = "open", ![t].sl = sl]
    BY <1>1 DEF OpenSingle, OpenUnremembered, FillAt
  <2>2. pos[t].state = "none" /\ seen' = seen
    BY <1>1 DEF OpenSingle, OpenUnremembered, FillAt
  <2>3. \A u \in DOMAIN seen : u # t
    BY <2>2 DEF SeenInv
  <2> QED BY <1>a, <1>b, <2>1, <2>2, <2>3
<1>2. ASSUME NEW t \in Tickets, CloseAtBroker(t)
      PROVE  SeenInv'
  BY <1>2, <1>a, <1>b DEF CloseAtBroker, Positions
<1>3. ASSUME NEW p \in Prices, MarketMoves(p)
      PROVE  SeenInv'
  BY <1>3, <1>a, <1>b DEF MarketMoves, Positions
<1>4. CASE Operate \/ MonitorPositions
  BY <1>4, <1>b DEF Operate, MonitorPositions
<1>5. CASE ReadPositions
  BY <1>5 DEF ReadPositions, SeenInv, Open
<1>6. ASSUME NEW t \in Tickets, ManageTicket(t)
      PROVE  SeenInv'
  <2>1. \A u \in Tickets : u # t => pos'[u] = pos[u]
    BY <1>6, ManagedType
  <2>2. seen' = [u \in DOMAIN seen \ {t} |-> seen[u]]
    BY <1>6 DEF ManageTicket
  <2> QED BY <1>a, <2>1, <2>2 DEF SeenInv
<1>7. ASSUME NEW t \in Tickets, ApplyFails(t)
      PROVE  SeenInv'
  BY <1>7 DEF ApplyFails, SeenInv
<1>8. CASE RestartProcess
  <2>1. DOMAIN seen' = {}
    BY <1>8 DEF RestartProcess
  <2> QED BY <2>1 DEF SeenInv
<1>9. CASE UNCHANGED vars
  BY <1>9 DEF vars, SeenInv
<1> QED
  BY <1>1, <1>2, <1>3, <1>4, <1>5, <1>6, <1>7, <1>8, <1>9 DEF CareNext, Manage

\* A fill aside, only the trade manager moves a stop, and it was decided against
\* the stop the broker still has.
LEMMA StopStep ==
  ASSUME CareTypeOK, SeenInv, [CareNext]_vars,
         NEW t \in Tickets, t \in Open, pos[t].sl > 0
  PROVE  pos'[t].sl > 0 /\ Gain(pos[t].side, pos[t].sl, pos'[t].sl) >= 0
<1>a. pos \in [Tickets -> Positions] /\ pos[t].sl \in Nat /\ pos[t].state = "open"
  BY DEF CareTypeOK, Positions, Open
<1>b. pos'[t].sl = pos[t].sl => pos'[t].sl > 0 /\ Gain(pos[t].side, pos[t].sl, pos'[t].sl) >= 0
  BY <1>a DEF Gain
<1>1. ASSUME NEW u \in Tickets, OpenSingle(u) \/ OpenUnremembered(u)
      PROVE  pos'[t].sl = pos[t].sl
  <2>1. PICK sl : pos' = [pos EXCEPT ![u].state = "open", ![u].sl = sl]
    BY <1>1 DEF OpenSingle, OpenUnremembered, FillAt
  <2>2. u # t
    BY <1>1, <1>a DEF OpenSingle, OpenUnremembered, FillAt
  <2> QED BY <1>a, <2>1, <2>2
<1>2. ASSUME NEW u \in Tickets, CloseAtBroker(u)
      PROVE  pos'[t].sl = pos[t].sl
  BY <1>2, <1>a DEF CloseAtBroker, Positions
<1>3. ASSUME NEW p \in Prices, MarketMoves(p)
      PROVE  pos'[t].sl = pos[t].sl
  BY <1>3, <1>a DEF MarketMoves, Positions
<1>4. ASSUME NEW u \in Tickets, ManageTicket(u)
      PROVE  pos'[t].sl > 0 /\ Gain(pos[t].side, pos[t].sl, pos'[t].sl) >= 0
  <2>1. CASE u # t \/ pos' = pos
    BY <1>4, <1>b, <2>1, ManagedType
  <2>2. CASE u = t /\ pos' # pos
    <3>1. seen[t] = pos[t].sl
      BY <1>4, <2>2 DEF ManageTicket, SeenInv
    <3>2. pos'[t].sl > 0 /\ Gain(pos[t].side, pos[t].sl, pos'[t].sl) > 0
      BY <1>4, <2>2, <3>1, ManagedType
    <3>3. pos'[t].sl \in Nat
      BY <1>4, ManagedType DEF Positions
    <3> QED BY <1>a, <3>2, <3>3 DEF Gain
  <2> QED BY <2>1, <2>2
<1>5. ASSUME \/ Operate \/ ReadPositions \/ MonitorPositions \/ RestartProcess
             \/ \E u \in Tickets : ApplyFails(u)
             \/ UNCHANGED vars
      PROVE  pos'[t].sl = pos[t].sl
  BY <1>5 DEF Operate, ReadPositions, MonitorPositions, RestartProcess, ApplyFails, vars
<1> QED BY <1>b, <1>1, <1>2, <1>3, <1>4, <1>5 DEF CareNext, Manage

\* No stop ever moves against its position, for any path of quotes, ATRs and
\* settings between the read and the modification (TradeManager.manage,
\* decide_stop_loss).
THEOREM StopOnlyTightensHolds == CareSpec => StopOnlyTightens
<1> DEFINE Kept == \A t \in Tickets :
                     t \in Open /\ pos[t].sl > 0 =>
                       pos'[t].sl > 0 /\ Gain(pos[t].side, pos[t].sl, pos'[t].sl) >= 0
<1>1. CareInit => SeenInv
  <2> SUFFICES ASSUME CareInit
               PROVE  SeenInv
    OBVIOUS
  <2>1. DOMAIN seen = {}
    BY DEF CareInit
  <2> QED BY <2>1 DEF SeenInv
<1>2. CareTypeOK /\ SeenInv /\ [CareNext]_vars => SeenInv'
  BY SeenStep
<1>3. CareTypeOK /\ SeenInv /\ [CareNext]_vars => [Kept]_vars
  BY StopStep
<1> HIDE DEF Kept
<1>4. CareSpec => [][Kept]_vars
  BY <1>1, <1>2, <1>3, TypeCorrect, PTL DEF CareSpec
<1> QED BY <1>4 DEF StopOnlyTightens, Kept

-----------------------------------------------------------------------------
(* One close, one review                                                   *)

\* A pass that read the open positions reviews only closes it has not reported.
LEMMA CloseObserved ==
  ASSUME CareTypeOK, CloseInv, ReviewedOnce, Observe(Open), UNCHANGED pos
  PROVE  CloseInv' /\ ReviewedOnce'
<1> DEFINE closed == known \ Open
<1>1. PICK done \in SUBSET closed, deal \in CloseDeals(closed) :
        /\ reviews' = [t \in Tickets |->
             IF t \in done THEN reviews[t] \cup {Stamp(t, deal[t])} ELSE reviews[t]]
        /\ trades' = [t \in Tickets |-> IF t \in done THEN ClosedLine(t) ELSE trades[t]]
        /\ tradesFile' \in Written(tradesFile,
             [t \in Tickets |-> IF t \in done THEN ClosedLine(t) ELSE tradesFile[t]])
  BY DEF Observe
<1>2. known' = Open
  BY DEF Observe
<1> SUFFICES ASSUME NEW t \in Tickets
             PROVE  /\ pos'[t].state \in {"none", "open"} => reviews'[t] = {}
                    /\ t \in known' => reviews'[t] = {} /\ pos'[t].state # "none"
                    /\ trades'[t].status = "CLOSED" \/ tradesFile'[t].status = "CLOSED" =>
                         pos'[t].state = "closed"
                    /\ Cardinality(reviews'[t]) <= 1
  BY DEF CloseInv, ReviewedOnce
<1>3. pos[t].state \in {"none", "open", "closed"} /\ (t \in Open <=> pos[t].state = "open")
  BY DEF CareTypeOK, Open
<1>4. CASE t \in done
  <2>1. t \in known /\ pos[t].state = "closed" /\ reviews[t] = {} /\ t \notin Open
    BY <1>3, <1>4 DEF CloseInv
  <2>2. reviews'[t] = {Stamp(t, deal[t])}
    BY <1>1, <1>4, <2>1
  <2>3. Cardinality(reviews'[t]) = 1
    BY <2>2, FS_Singleton
  <2> QED BY <1>2, <2>1, <2>3
<1>5. CASE t \notin done
  <2>1. reviews'[t] = reviews[t] /\ trades'[t] = trades[t]
    BY <1>1, <1>5
  <2>2. tradesFile'[t] = tradesFile[t]
    BY <1>1, <1>5 DEF Written
  <2> QED BY <1>2, <1>3, <2>1, <2>2 DEF CloseInv, ReviewedOnce
<1> QED BY <1>4, <1>5

LEMMA CloseStep ==
  ASSUME FlakyRead = FALSE, CareTypeOK, CloseInv, ReviewedOnce, [CareNext]_vars
  PROVE  CloseInv' /\ ReviewedOnce'
<1>a. pos \in [Tickets -> Positions]
  BY DEF CareTypeOK, Positions
<1>b. ASSUME UNCHANGED reviewVars,
             \A t \in Tickets : /\ pos[t].state = "closed" => pos'[t].state = "closed"
                                /\ pos'[t].state = "none" => pos[t].state = "none"
      PROVE  CloseInv' /\ ReviewedOnce'
  BY <1>a, <1>b DEF CloseInv, ReviewedOnce, reviewVars, Positions
<1>1. ASSUME NEW t \in Tickets, OpenSingle(t)
      PROVE  CloseInv' /\ ReviewedOnce'
  <2> DEFINE sl == InitialStop(pos[t].side)
  <2> HIDE DEF sl
  <2>1. /\ pos' = [pos EXCEPT ![t].state = "open", ![t].sl = sl] /\ pos[t].state = "none"
        /\ trades' = [trades EXCEPT ![t] = OpenLine(sl)]
        /\ tradesFile' \in {tradesFile, [tradesFile EXCEPT ![t] = OpenLine(sl)]}
        /\ reviews' = reviews /\ known' = known
    BY <1>1 DEF OpenSingle, FillAt, Written, sl
  <2>2. OpenLine(sl).status # "CLOSED"
    BY DEF OpenLine
  <2>3. \A u \in Tickets : pos'[u].state = IF u = t THEN "open" ELSE pos[u].state
    BY <1>a, <2>1 DEF Positions
  <2>4. \A u \in Tickets : /\ trades'[u].status = "CLOSED" => u # t /\ trades[u].status = "CLOSED"
                           /\ tradesFile'[u].status = "CLOSED" => tradesFile[u].status = "CLOSED"
    BY <2>1, <2>2 DEF CareTypeOK
  <2> QED BY <2>1, <2>3, <2>4 DEF CloseInv, ReviewedOnce
<1>2. ASSUME NEW t \in Tickets, OpenUnremembered(t)
      PROVE  CloseInv' /\ ReviewedOnce'
  <2>1. PICK sl : pos' = [pos EXCEPT ![t].state = "open", ![t].sl = sl]
    BY <1>2 DEF OpenUnremembered, FillAt
  <2>2. pos[t].state = "none" /\ UNCHANGED reviewVars
    BY <1>2 DEF OpenUnremembered, FillAt
  <2>3. \A u \in Tickets : pos'[u].state = IF u = t THEN "open" ELSE pos[u].state
    BY <1>a, <2>1 DEF Positions
  <2> QED BY <1>b, <2>2, <2>3
<1>3. ASSUME NEW t \in Tickets, CloseAtBroker(t)
      PROVE  CloseInv' /\ ReviewedOnce'
  BY <1>3, <1>a, <1>b DEF CloseAtBroker, Positions
<1>4. ASSUME NEW p \in Prices, MarketMoves(p)
      PROVE  CloseInv' /\ ReviewedOnce'
  BY <1>4, <1>a, <1>b DEF MarketMoves, Positions
<1>5. CASE \/ Operate \/ ReadPositions \/ (\E t \in Tickets : ApplyFails(t)) \/ UNCHANGED vars
  BY <1>5, <1>b DEF Operate, ReadPositions, ApplyFails, vars
<1>6. ASSUME NEW t \in Tickets, ManageTicket(t)
      PROVE  CloseInv' /\ ReviewedOnce'
  BY <1>6, <1>b, ManagedType DEF ManageTicket
<1>7. CASE MonitorPositions
  <2>1. Observe(Open) /\ UNCHANGED pos
    BY <1>7 DEF MonitorPositions, MonitorAllPositions, PositionsRead
  <2> QED BY <2>1, CloseObserved
<1>8. CASE RestartProcess
  BY <1>8 DEF RestartProcess, CloseInv, ReviewedOnce
<1> QED BY <1>1, <1>2, <1>3, <1>4, <1>5, <1>6, <1>7, <1>8 DEF CareNext, Manage

\* One close is reviewed once and no ledger line is closed early, restarts and
\* failed writes included, as long as the monitor's reads do not fail: a failed
\* read is an empty list, and every position on it would count as closed.
THEOREM ReviewedOnceHolds == ASSUME FlakyRead = FALSE PROVE CareSpec => []ReviewedOnce
<1>1. CareInit => CloseInv /\ ReviewedOnce
  BY FS_EmptySet DEF CareInit, NoTrade, CloseInv, ReviewedOnce
<1>2. CareTypeOK /\ CloseInv /\ ReviewedOnce /\ [CareNext]_vars => CloseInv' /\ ReviewedOnce'
  BY CloseStep
<1> QED BY <1>1, <1>2, TypeCorrect, PTL DEF CareSpec

=============================================================================
