------------------------------ MODULE MCEntry ------------------------------
(***************************************************************************)
(* From the market to an order: market data and its freshness, the zone    *)
(* gate's plans, and the chain that turns a proposal into a request.  The  *)
(* chain takes any zone and any context, so each behaviour explores one of *)
(* the three (focus) while the others rest.                                *)
(***************************************************************************)
EXTENDS EntryChain, ZoneEntry, MarketData

\* An account of 1200 with a price of 101, and every combination of what the
\* analysis may leave out or get wrong.
MCContexts ==
  [dir : Directions, entry : {0, 101}, sl : {0, 91, 112}, tp : {0, 65, 116},
   size : {40}, price : {0, 101}, atr : {0, 8}, spread : {0, 2, 13},
   commission : {Unknown, 1}, contract : BOOLEAN, equity : {0, 1200},
   others : {Unknown, 0, 290}, used : {0}, open : {0},
   zone : {[top |-> 98, bottom |-> 94]}, trigger : {TRUE}]
  \cup
  [dir : {"BUY"}, entry : {0}, sl : {0}, tp : {0}, size : {40}, price : {101},
   atr : {0, 8}, spread : {2}, commission : {1}, contract : {TRUE}, equity : {1200},
   others : {0}, used : {0, 300}, open : {4, 5},
   zone : {[top |-> 98, bottom |-> 94], [top |-> 80, bottom |-> 76]},
   trigger : BOOLEAN]

MCBroker == [min |-> 10, max |-> 80, step |-> 10]
MCFallback == [min |-> 1, max |-> 10000, step |-> 1]

Candle(o, h, l, c) == [o |-> o, h |-> h, l |-> l, c |-> c]
MCCandles ==
  {Candle(4, 5, 3, 3), Candle(3, 6, 3, 6), Candle(6, 7, 4, 5), Candle(5, 5, 2, 2),
   Candle(4, 6, 3, 5)}

\* The fast EMA above, on and below the slow one; three bars only, without times.
MCReadings ==
  {[n |-> 99, open |-> 100, high |-> 102, low |-> 99, close |-> 101, fast |-> 3, slow |-> 2,
    adx |-> 20, macd |-> 1, rsi |-> 75, stoch |-> 85, band |-> 100, width |-> 2, stamped |-> TRUE],
   [n |-> 99, open |-> 101, high |-> 104, low |-> 100, close |-> 103, fast |-> 2, slow |-> 2,
    adx |-> 25, macd |-> 0, rsi |-> 50, stoch |-> 50, band |-> 100, width |-> 2, stamped |-> TRUE],
   [n |-> 99, open |-> 101, high |-> 101, low |-> 95, close |-> 97, fast |-> 1, slow |-> 2,
    adx |-> 22, macd |-> -1, rsi |-> 25, stoch |-> 15, band |-> 100, width |-> 1, stamped |-> TRUE],
   [n |-> 3, open |-> 103, high |-> 104, low |-> 102, close |-> 103, fast |-> NoValue,
    slow |-> NoValue, adx |-> NoValue, macd |-> NoValue, rsi |-> NoValue, stoch |-> NoValue,
    band |-> NoValue, width |-> 0, stamped |-> FALSE]}

VARIABLE focus

entryVars == <<focus, chainVars, zoneVars, marketVars>>

EntryRunInit ==
  /\ focus \in {"chain", "zones", "market"}
  /\ EntryInit /\ ZoneInit /\ MarketInit
  /\ focus # "chain" => /\ knobs = CHOOSE k \in Knobs : TRUE
                        /\ maxRisk = CHOOSE m \in MaxRiskPcts : TRUE
  /\ focus # "zones" => forming = Candle(4, 5, 3, 3)
  /\ focus # "market" => \A s \in Markets : market[s].reading.fast = 3

EntryRunNext ==
  /\ \/ focus = "chain" /\ EntryNext /\ UNCHANGED <<zoneVars, marketVars>>
     \/ focus = "zones" /\ ZoneNext /\ UNCHANGED <<chainVars, marketVars>>
     \/ focus = "market" /\ MarketNext /\ UNCHANGED <<chainVars, zoneVars>>
  /\ UNCHANGED focus

EntryRunSpec == EntryRunInit /\ [][EntryRunNext]_entryVars
=============================================================================
