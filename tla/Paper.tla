------------------------------- MODULE Paper -------------------------------
(***************************************************************************)
(* Paper trading: the simulated execution engine (orders by idempotency    *)
(* key, fills worsened by spread and slippage) and the paper account it    *)
(* books into (paper/simulated_execution.py, paper/paper_account.py).      *)
(*                                                                         *)
(* The engine and the account are driven by one caller, but in separate    *)
(* calls: a fill is simulated by one and booked by another, a price moves  *)
(* a position and not yet the account.  Equity and peak equity are what    *)
(* the last update_equity made of them, in the middle of a call included.  *)
(***************************************************************************)
EXTENDS Integers, Sequences, SequencesExt

CONSTANTS
  PaperKeys,         \* idempotency keys
  PaperSymbols,
  PaperPrices,       \* mid prices
  HalfSpreads, Slippages,
  Lots,              \* volumes asked for
  MinLot, MaxLot,
  ContractSizes,     \* what resolve_contract_size may return
  InitialBalance,
  MaxPaperTrades     \* bound: lines of the account's history

ASSUME PaperAssumption ==
  /\ PaperPrices \subseteq Nat \ {0} /\ HalfSpreads \subseteq Nat
  /\ Slippages \subseteq Nat
  /\ Lots \subseteq Nat /\ ContractSizes \subseteq Nat \ {0}
  /\ InitialBalance \in Nat \ {0} /\ MaxPaperTrades \in Nat

VARIABLES
  completed,  \* _completed_orders: key -> fill
  result,     \* the ExecutionResult the caller holds
  holdings,   \* PaperAccount.positions
  history,    \* PaperAccount.history
  account     \* balance, equity, peak and daily P&L

paperVars == <<completed, result, holdings, history, account>>

NoFill == [symbol |-> "none", dir |-> 0, entry |-> 0, size |-> 0]
Directions == {1, -1}

-----------------------------------------------------------------------------
(* Prices                                                                  *)

\* apply_spread: half the symbol's spread, which may vary, against the trader.
Quoted(mid, dir, half) == mid + dir * half

\* apply_slippage: a random amount against the trader, none without volatility.
Slipped(price, dir, slip) == price + dir * slip

\* _update_pnl and the P&L of a close: the contract size is looked up each time
\* and is the default when the broker's spec cannot be read.
ProfitAt(p, price, contract) == (price - p.entry) * p.dir * p.size * contract

-----------------------------------------------------------------------------
(* The account                                                             *)

TotalPnl(rows) ==
  LET sum[n \in 0..Len(rows)] == IF n = 0 THEN 0 ELSE sum[n - 1] + rows[n].pnl
  IN  sum[Len(rows)]

\* get_total_pnl, and what the trades of the history brought.
Unrealised(positions) == TotalPnl(positions)
Realised(trades) == TotalPnl(trades)

\* update_equity: balance and open P&L; the peak never falls.
Revalued(a, positions) ==
  LET equity == a.balance + Unrealised(positions)
  IN  [a EXCEPT !.equity = equity, !.peak = IF equity > @ THEN equity ELSE @]

\* A realised amount, in the balance and in the day's P&L.
Booked(a, pnl) == [a EXCEPT !.balance = @ + pnl, !.daily = @ + pnl]

\* add_trade
Recorded(kind, pnl) == history' = Append(history, [kind |-> kind, pnl |-> pnl])

\* remove_position takes the first position of the symbol and side.
FirstOf(symbol, dir) ==
  SelectInSeq(holdings, LAMBDA p : p.symbol = symbol /\ p.dir = dir)

-----------------------------------------------------------------------------
(* Orders                                                                  *)

\* validate_order
Valid(lots) == lots > 0 /\ lots >= MinLot /\ lots <= MaxLot

\* simulate_order: a used key returns its fill, an order that is not valid fails
\* and leaves its key free, any other is filled and remembered.
SimulateOrder(key, symbol, dir, lots) ==
  /\ IF completed[key] # NoFill THEN result' = completed[key] /\ UNCHANGED completed
     ELSE IF ~Valid(lots) THEN result' = NoFill /\ UNCHANGED completed
     ELSE \E mid \in PaperPrices, half \in HalfSpreads, slip \in Slippages :
            /\ result' = [symbol |-> symbol, dir |-> dir, size |-> lots,
                          entry |-> Slipped(Quoted(mid, dir, half), dir, slip)]
            /\ completed' = [completed EXCEPT ![key] = result']
  /\ UNCHANGED <<holdings, history, account>>

\* update_account books the fill the caller holds, as often as it is asked to.
UpdateAccount ==
  /\ result # NoFill /\ Len(history) < MaxPaperTrades
  /\ holdings' = Append(holdings, [symbol |-> result.symbol, dir |-> result.dir,
                                   entry |-> result.entry, size |-> result.size, pnl |-> 0])
  /\ Recorded("open", 0)
  /\ account' = Revalued(account, holdings')
  /\ UNCHANGED <<completed, result>>

ClosePosition_EquityFirst(symbol, dir, price) ==
  LET i == FirstOf(symbol, dir)
      left == RemoveAt(holdings, i)
  IN  /\ i > 0 /\ Len(history) < MaxPaperTrades
      /\ holdings' = left
      /\ \E contract \in ContractSizes :
           LET pnl == ProfitAt(holdings[i], price, contract)
           IN  /\ Recorded("close", pnl)
               /\ account' = Booked(Revalued(account, left), pnl)
      /\ UNCHANGED <<completed, result>>

\* close_position: the position leaves the account, which is revalued without it
\* before its P&L is booked; then the P&L is booked and the account revalued.
ClosePosition(symbol, dir, price) ==
  LET i == FirstOf(symbol, dir)
      left == RemoveAt(holdings, i)
  IN  /\ i > 0 /\ Len(history) < MaxPaperTrades
      /\ holdings' = left
      /\ \E contract \in ContractSizes :
           LET pnl == ProfitAt(holdings[i], price, contract)
           IN  /\ Recorded("close", pnl)
               /\ account' = Revalued(Booked(Revalued(account, left), pnl), left)
      /\ UNCHANGED <<completed, result>>

\* PaperPosition.update_price: the position alone.
UpdatePrice(i, price) ==
  /\ \E contract \in ContractSizes :
       holdings' = [holdings EXCEPT ![i].pnl = ProfitAt(holdings[i], price, contract)]
  /\ UNCHANGED <<completed, result, history, account>>

\* update_equity and reset_daily_stats, called on their own.
UpdateEquity ==
  /\ account' = Revalued(account, holdings)
  /\ UNCHANGED <<completed, result, holdings, history>>

ResetDailyStats ==
  /\ account' = [account EXCEPT !.daily = 0]
  /\ UNCHANGED <<completed, result, holdings, history>>

-----------------------------------------------------------------------------
PaperInit ==
  /\ completed = [k \in PaperKeys |-> NoFill] /\ result = NoFill
  /\ holdings = <<>> /\ history = <<>>
  /\ account = [balance |-> InitialBalance, equity |-> InitialBalance,
                peak |-> InitialBalance, daily |-> 0]

PaperNext ==
  \/ \E k \in PaperKeys, s \in PaperSymbols, d \in Directions, l \in Lots :
       SimulateOrder(k, s, d, l)
  \/ UpdateAccount
  \/ \E s \in PaperSymbols, d \in Directions, p \in PaperPrices : ClosePosition(s, d, p)
  \/ \E i \in DOMAIN holdings, p \in PaperPrices : UpdatePrice(i, p)
  \/ UpdateEquity \/ ResetDailyStats

PaperSpec == PaperInit /\ [][PaperNext]_paperVars

-----------------------------------------------------------------------------
(* Properties                                                              *)

\* The account's money is what its history says, and whenever money is booked
\* the equity a drawdown is measured from follows it (close_position), however
\* prices, contract sizes and other positions moved in between and however
\* often a retried order was booked.
PaperBooksBalance ==
  [][account'.balance # account.balance =>
       /\ account'.balance = InitialBalance + Realised(history')
       /\ account'.equity = account'.balance + Unrealised(holdings')]_paperVars

=============================================================================
