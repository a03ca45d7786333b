-------------------------------- MODULE FanOut --------------------------------
(***************************************************************************)
(* One decision, many accounts: the terminal registry with its arm         *)
(* switches (mt5/terminals.py), the canonical fan-out with its ledger      *)
(* (execution/fanout.py), the engine's own fan-out and the pipeline's      *)
(* choice between them.                                                    *)
(*                                                                         *)
(* The MetaTrader5 binding is process-wide: every path moves it.  Handlers *)
(* and the pipeline run on the event loop's thread, so operator requests   *)
(* meet an idle fan-out only; terminals stop at any time.  The paths given *)
(* to an attach are kept as what they are: the executable, which attaches, *)
(* or the folder MetaTrader5 reports, which "fails".                       *)
(***************************************************************************)
EXTENDS Naturals, FiniteSets

CONSTANTS
  Terminals, Accounts,
  Signals,          \* canonical signals (signal_id)
  Volume, LotStep,  \* the signal's volume and the broker's lot step
  MaxFans           \* bound on the dispatches of one behaviour

None == "none"

ASSUME FanOutAssumption ==
  /\ Volume \in Nat /\ LotStep \in Nat \ {0} /\ MaxFans \in Nat
  /\ None \notin Terminals

Maybe == Terminals \cup {None}

\* AccountExecutionStatus; "" is an account the ledger does not have.
Executed == {"FILLED", "SUBMITTED", "RECONCILED", "CLOSED"}
Terminal == {"REJECTED", "FAILED", "FILLED", "RECONCILED", "CLOSED"}
AccountStatus == Executed \cup Terminal \cup {"PENDING", "APPROVED", "SUBMITTING"}
SignalStatus == {"CREATED", "VALIDATED", "PARTIALLY_EXECUTED", "EXECUTED_ALL", "REJECTED_ALL"}

VARIABLES
  login,       \* the account a terminal is on; two may share one
  running,     \* terminals whose process is up
  verified,    \* _account_cache: terminals with a known account
  armed,       \* _terminal_states[.]["armed"]
  selected,    \* _selected_id
  saved,       \* mt5_selected.json
  attached,    \* the terminal the process-wide binding is on
  coordinator, \* canonical fan-out wired at start-up
  fan,         \* the dispatch in progress
  fanLedger,   \* FanoutLedger: signal -> account -> status
  rollup,      \* FanoutLedger: signal -> signal_status
  keys,        \* (signal, account) keys in the durable order store
  orders,      \* history: orders the broker of a terminal got for a signal
  sent,        \* history: the same by account, over all its terminals
  outcome,     \* what the pipeline marks in the signal registry
  fans         \* history: dispatches started

terminalVars == <<login, running, verified, armed, selected, saved>>
ledgerVars == <<fanLedger, rollup>>
orderVars == <<orders, sent>>
fanVars == <<terminalVars, attached, coordinator, fan, ledgerVars, keys, orderVars, outcome, fans>>

Idle == [step |-> "idle", sig |-> None, todo |-> {}, cur |-> None, orig |-> None,
         vol |-> 0, approved |-> {}, done |-> 0]

NoLedger == [s \in Signals |-> [a \in Accounts |-> ""]]

FanInit ==
  /\ login \in [Terminals -> Accounts] /\ running \in SUBSET Terminals
  /\ verified = {} /\ armed = {}
  /\ selected = None /\ saved = None /\ attached = None
  /\ coordinator \in BOOLEAN
  /\ fan = Idle
  /\ fanLedger = NoLedger /\ rollup = [s \in Signals |-> ""]
  /\ keys = {}
  /\ orders = [s \in Signals |-> [t \in Terminals |-> 0]]
  /\ sent = [s \in Signals |-> [a \in Accounts |-> 0]]
  /\ outcome = [s \in Signals |-> "none"] /\ fans = 0

-----------------------------------------------------------------------------
(* Terminal registry                                                       *)

\* list_terminals reads the account of the attached terminal, if it can.
Views == IF attached = None THEN {verified} ELSE {verified, verified \cup {attached}}

Attaches_NoShutdown(t) ==
  {[ok |-> FALSE, at |-> None]}
    \cup (IF t \in running THEN {[ok |-> TRUE, at |-> IF attached = None THEN t ELSE attached]} ELSE {})

\* shutdown, then initialize(path = executable): may work if the terminal runs.
\* (Without the shutdown the binding would stay where it is.)
Attaches(t) ==
  {[ok |-> FALSE, at |-> None]}
    \cup (IF t \in running THEN {[ok |-> TRUE, at |-> t]} ELSE {})

TerminalStarts(t) ==
  /\ t \notin running
  /\ running' = running \cup {t}
  /\ UNCHANGED <<login, verified, armed, selected, saved, attached, coordinator, fan,
                 ledgerVars, keys, orderVars, outcome, fans>>

TerminalStops(t) ==
  /\ t \in running
  /\ running' = running \ {t}
  /\ attached' = IF attached = t THEN None ELSE attached
  /\ UNCHANGED <<login, verified, armed, selected, saved, coordinator, fan,
                 ledgerVars, keys, orderVars, outcome, fans>>

\* select_terminal: moves the binding, never an arm switch.
SelectTerminal(t) ==
  /\ fan.step = "idle" /\ t \in running
  /\ verified' \in Views
  /\ IF attached = t /\ selected = t
       THEN UNCHANGED <<attached, selected, saved>>
       ELSE \E r \in Attaches(t) :
              /\ attached' = r.at
              /\ selected' = IF r.ok THEN t ELSE selected
              /\ saved' = IF r.ok THEN t ELSE saved
  /\ UNCHANGED <<login, running, armed, coordinator, fan, ledgerVars, keys, orderVars, outcome, fans>>

\* arm_terminal(armed = True): running, and the account known.
ArmTerminal(t) ==
  /\ fan.step = "idle" /\ t \in running
  /\ verified' \in Views
  /\ t \in verified'
  /\ armed' = armed \cup {t}
  /\ UNCHANGED <<login, running, selected, saved, attached, coordinator, fan, ledgerVars,
                 keys, orderVars, outcome, fans>>

\* Disarming one terminal, or all of them when none is selected (arm_execution).
Disarm ==
  /\ fan.step = "idle"
  /\ \E t \in Terminals :
       armed' \in {armed \ {t}} \cup (IF selected = None THEN {{}} ELSE {})
  /\ UNCHANGED <<login, running, verified, selected, saved, attached, coordinator, fan,
                 ledgerVars, keys, orderVars, outcome, fans>>

\* What a probe can learn: the accounts it could read and recognise; a terminal
\* that does not attach, or has no account, leaves no entry.
Probed == SUBSET running

\* probe_accounts: refused while anything is armed; replaces the cache and puts
\* the binding back, on the selected terminal when there was none to put back.
ProbeAccounts ==
  /\ fan.step = "idle" /\ armed = {} /\ running # {}
  /\ verified' \in Probed
  /\ LET home == IF attached # None THEN attached ELSE selected
     IN  attached' \in (IF home = None THEN {None} ELSE {r.at : r \in Attaches(home)})
  /\ UNCHANGED <<login, running, armed, selected, saved, coordinator, fan, ledgerVars,
                 keys, orderVars, outcome, fans>>

\* load_config: the file is read again at every call, unreadable or malformed is
\* empty, and update_terminal_config may have written any fanout_target into it.
Configured == SUBSET Terminals

\* get_armed_terminals and get_fanout_targets, with the cache as just refreshed.
Armed(view) == armed \cap running \cap view
Targets(view) == {wanted \cap Armed(view) : wanted \in Configured}

\* execution_permitted: an armed, eligible terminal is the attached one.
Permitted(view) == attached \in Armed(view)

\* The service stops at any point and starts again: only the selection and the
\* order store survive, and another account is never attached in place of the
\* saved one.
Restart ==
  /\ armed' = {} /\ fan' = Idle
  /\ fanLedger' = NoLedger /\ rollup' = [s \in Signals |-> ""]
  /\ IF saved # None
       THEN attached' \in {None, saved} \cap (running \cup {None})
       ELSE attached' \in running \cup {None}
  /\ selected' = attached'
  /\ verified' = {}
  /\ UNCHANGED <<login, running, saved, coordinator, keys, orderVars, outcome, fans>>

-----------------------------------------------------------------------------
(* FanoutLedger                                                            *)

\* _rollup_status_locked over the accounts of one signal.
Rollup(accounts) ==
  LET known == {a \in Accounts : accounts[a] # ""}
      executed == {a \in known : accounts[a] \in Executed}
      refused == {a \in known : accounts[a] \in {"REJECTED", "FAILED"}}
  IN  CASE known # {} /\ executed = known -> "EXECUTED_ALL"
        [] executed # {} /\ executed # known -> "PARTIALLY_EXECUTED"
        [] executed = {} /\ refused # {} ->
             IF refused = known THEN "REJECTED_ALL" ELSE "PARTIALLY_EXECUTED"
        [] OTHER -> "VALIDATED"

\* The account a target stands for (_account_id_for): a fan-out target is
\* verified, so it is its login and never the terminal's own id.
AccountOf(t) == login[t]

\* register_signal: once per signal.
Register(s) == rollup' = IF rollup[s] = "" THEN [rollup EXCEPT ![s] = "CREATED"] ELSE rollup

\* upsert_account_dispatch.
Upsert(s, a, status) ==
  /\ fanLedger' = [fanLedger EXCEPT ![s][a] = status]
  /\ rollup' = [rollup EXCEPT ![s] = Rollup([fanLedger[s] EXCEPT ![a] = status])]

-----------------------------------------------------------------------------
(* Dispatch: _dispatch_canonical_fanout and _dispatch_execution            *)

\* fan_out or execute_order_fanout begins: targets as the registry lists them
\* now, and the folder of the attached terminal is remembered.  Only the
\* canonical path can be asked for a signal again.  Without a coordinator the
\* live setting fanout_enabled chooses between this and SingleOrder.
StartFan(s) ==
  /\ fan.step = "idle" /\ fans < MaxFans
  /\ coordinator \/ outcome[s] = "none"
  /\ verified' \in Views
  /\ \E targets \in Targets(verified') :
       fan' = [Idle EXCEPT !.step = "next", !.sig = s, !.todo = targets, !.orig = attached]
  /\ IF coordinator THEN Register(s) ELSE UNCHANGED rollup
  /\ fans' = fans + 1
  /\ UNCHANGED <<login, running, armed, selected, saved, attached, coordinator, fanLedger,
                 keys, orderVars, outcome>>

\* A target whose account already has a final status is skipped.
SkipDuplicate ==
  /\ fan.step = "next" /\ coordinator
  /\ \E t \in fan.todo :
       /\ fanLedger[fan.sig][AccountOf(t)] \in Terminal
       /\ fan' = [fan EXCEPT !.todo = @ \ {t}]
  /\ UNCHANGED <<terminalVars, attached, coordinator, ledgerVars, keys, orderVars, outcome, fans>>

\* The next account: PENDING, then the binding moves to its terminal; an attach
\* that fails is this account's verdict.
TakeTarget ==
  /\ fan.step = "next" /\ coordinator
  /\ \E t \in fan.todo : \E r \in Attaches(t) :
       /\ fanLedger[fan.sig][AccountOf(t)] \notin Terminal
       /\ attached' = r.at
       /\ Upsert(fan.sig, AccountOf(t), IF r.ok THEN "PENDING" ELSE "FAILED")
       /\ fan' = [fan EXCEPT !.todo = @ \ {t}, !.cur = t, !.step = IF r.ok THEN "process" ELSE "next"]
  /\ UNCHANGED <<terminalVars, coordinator, keys, orderVars, outcome, fans>>

\* OrderBuilder._normalise_to_spec: down to the lot step, if the spec is read.
Snap(v, spec) == IF spec THEN (v \div LotStep) * LotStep ELSE v

ProcessAccount_GateOnce ==
  /\ fan.step = "process"
  /\ \E spec1, spec2, gate \in BOOLEAN :
       LET asked == Snap(Volume, spec1)
           built == Snap(asked, spec2)
       IN  /\ asked > 0
           /\ Upsert(fan.sig, AccountOf(fan.cur), IF gate THEN "SUBMITTING" ELSE "REJECTED")
           /\ fan' = IF gate THEN [fan EXCEPT !.step = "intent", !.vol = built, !.approved = {asked}]
                             ELSE [fan EXCEPT !.step = "next"]
  /\ UNCHANGED <<terminalVars, attached, coordinator, keys, orderVars, outcome, fans>>

\* The broker takes an order of a signal at a terminal, for the account it is on.
Ordered(s, t) ==
  /\ orders' = [orders EXCEPT ![s][t] = @ + 1]
  /\ sent' = [sent EXCEPT ![s][AccountOf(t)] = @ + 1]

\* _process_account up to the send: normalise, gate, build the request, gate it
\* again if it differs from what was approved.
ProcessAccount ==
  /\ fan.step = "process"
  /\ \E spec1, spec2 \in BOOLEAN : \E passed \in SUBSET {Snap(Volume, spec1), Snap(Snap(Volume, spec1), spec2)} :
       LET asked == Snap(Volume, spec1)
           built == Snap(asked, spec2)
           ok == {asked, built} \subseteq passed
       IN  /\ asked > 0
           /\ Upsert(fan.sig, AccountOf(fan.cur), IF ok THEN "SUBMITTING" ELSE "REJECTED")
           /\ fan' = IF ok THEN [fan EXCEPT !.step = "intent", !.vol = built, !.approved = passed]
                           ELSE [fan EXCEPT !.step = "next"]
  /\ UNCHANGED <<terminalVars, attached, coordinator, keys, orderVars, outcome, fans>>

\* The request cannot be built (a volume of zero, or anything that raises):
\* FAILED, and the other accounts go on.
ProcessFails ==
  /\ fan.step = "process"
  /\ Upsert(fan.sig, AccountOf(fan.cur), "FAILED")
  /\ fan' = [fan EXCEPT !.step = "next"]
  /\ UNCHANGED <<terminalVars, attached, coordinator, keys, orderVars, outcome, fans>>

FreshKey_NotDurable(s, a) == TRUE

\* _is_duplicate on the key signal_id:account_id.
FreshKey(s, a) == <<s, a>> \notin keys

\* execute_order up to the send: a fresh key is stored; a used one, or a volume
\* that is not valid, ends in a failure.
PersistKey ==
  /\ fan.step = "intent"
  /\ LET s == fan.sig
         a == AccountOf(fan.cur)
     IN  IF FreshKey(s, a) /\ fan.vol > 0
           THEN /\ keys' = keys \cup {<<s, a>>}
                /\ fan' = [fan EXCEPT !.step = "send"]
                /\ UNCHANGED ledgerVars
           ELSE /\ Upsert(s, a, "FAILED")
                /\ fan' = [fan EXCEPT !.step = "next"]
                /\ UNCHANGED keys
  /\ UNCHANGED <<terminalVars, attached, coordinator, orderVars, outcome, fans>>

\* The send, if an armed terminal is attached: the broker may refuse, or fill,
\* and the reply to a fill may be lost.
SendAccount ==
  /\ fan.step = "send"
  /\ verified' \in Views
  /\ \E lands, reply \in BOOLEAN :
       /\ lands => Permitted(verified')
       /\ reply => lands
       /\ IF lands THEN Ordered(fan.sig, attached) ELSE UNCHANGED orderVars
       /\ Upsert(fan.sig, AccountOf(fan.cur), IF reply THEN "FILLED" ELSE "FAILED")
       /\ fan' = [fan EXCEPT !.step = "next", !.done = @ + (IF reply THEN 1 ELSE 0)]
  /\ UNCHANGED <<login, running, armed, selected, saved, attached, coordinator, keys, outcome, fans>>

\* _dispatch_to_terminal of the engine's own fan-out: attach, size, send; no
\* ledger, no key, no second look at the arm switch.
DispatchToTerminal ==
  /\ fan.step = "next" /\ ~coordinator
  /\ \E t \in fan.todo : \E r \in Attaches(t) : \E lands, reply \in BOOLEAN :
       /\ attached' = r.at
       /\ lands => r.ok
       /\ reply => lands
       /\ IF lands THEN Ordered(fan.sig, r.at) ELSE UNCHANGED orderVars
       /\ fan' = [fan EXCEPT !.cur = t, !.todo = @ \ {t}, !.done = @ + (IF reply THEN 1 ELSE 0)]
  /\ UNCHANGED <<terminalVars, coordinator, ledgerVars, keys, outcome, fans>>

\* What an attach by the path terminal_info() reports does: that is the folder,
\* and "a folder path fails".
AttachFolder(t) == None

\* The finally clause: shutdown and attach again by the remembered folder; then
\* the pipeline marks the signal by whether any account executed.
EndFan ==
  /\ fan.step = "next" /\ fan.todo = {}
  /\ attached' = IF fan.orig = None THEN None ELSE AttachFolder(fan.orig)
  /\ outcome' = [outcome EXCEPT ![fan.sig] = IF fan.done > 0 THEN "open" ELSE "failed"]
  /\ fan' = Idle
  /\ UNCHANGED <<terminalVars, coordinator, ledgerVars, keys, orderVars, fans>>

\* The single-terminal path: refused when more than one terminal is armed.  The
\* order itself is OrderExecution's subject.
SingleOrder(s) ==
  /\ fan.step = "idle" /\ fans < MaxFans /\ ~coordinator /\ outcome[s] = "none"
  /\ verified' \in Views
  /\ \E lands, reply \in BOOLEAN :
       /\ lands => Permitted(verified') /\ Cardinality(Armed(verified')) = 1
       /\ reply => lands
       /\ IF lands THEN Ordered(s, attached) ELSE UNCHANGED orderVars
       /\ outcome' = [outcome EXCEPT ![s] = IF reply THEN "open" ELSE "failed"]
  /\ fans' = fans + 1
  /\ UNCHANGED <<login, running, armed, selected, saved, attached, coordinator, fan, ledgerVars, keys>>

-----------------------------------------------------------------------------
FanStep ==
  SkipDuplicate \/ TakeTarget \/ ProcessAccount \/ ProcessFails \/ PersistKey \/ SendAccount
    \/ DispatchToTerminal \/ EndFan

FanNext ==
  \/ \E t \in Terminals :
       TerminalStarts(t) \/ TerminalStops(t) \/ SelectTerminal(t) \/ ArmTerminal(t)
  \/ Disarm \/ ProbeAccounts \/ Restart
  \/ \E s \in Signals : StartFan(s) \/ SingleOrder(s)
  \/ FanStep

FanSpec == FanInit /\ [][FanNext]_fanVars

-----------------------------------------------------------------------------
(* Properties                                                              *)

FanTypeOK ==
  /\ login \in [Terminals -> Accounts]
  /\ running \subseteq Terminals /\ verified \subseteq Terminals
  /\ armed \subseteq Terminals
  /\ selected \in Maybe /\ saved \in Maybe /\ attached \in Maybe
  /\ coordinator \in BOOLEAN
  /\ fan \in [step : {"idle", "next", "process", "intent", "send"},
              sig : Signals \cup {None}, todo : SUBSET Terminals, cur : Maybe,
              orig : Maybe, vol : Nat, approved : SUBSET Nat, done : Nat]
  /\ fanLedger \in [Signals -> [Accounts -> AccountStatus \cup {""}]]
  /\ rollup \in [Signals -> SignalStatus \cup {""}]
  /\ keys \subseteq Signals \X Accounts
  /\ orders \in [Signals -> [Terminals -> Nat]]
  /\ sent \in [Signals -> [Accounts -> Nat]]
  /\ outcome \in [Signals -> {"none", "open", "failed"}] /\ fans \in 0..MaxFans

\* The canonical fan-out implements the engine's promise with (signal, account)
\* as the key: one order per account whatever is repeated, also on two terminals
\* with the same login and after a restart that loses the ledger.
PerAccount == INSTANCE AtMostOnceDispatch WITH
  Keys <- Signals \X Accounts,
  reserved <- keys,
  dispatched <- [k \in Signals \X Accounts |-> IF coordinator THEN sent[k[1]][k[2]] ELSE 0]
OncePerAccount == PerAccount!AbsSpec

\* "final order sent is the final order approved": the volume about to be sent
\* passed the gate, whichever reads of the broker's lot step failed.
SentIsApproved == fan.step \in {"intent", "send"} => fan.vol \in fan.approved

\* An order appears only on a terminal whose switch is on and whose account is
\* known, and in a fan-out only on the terminal of the target being served.
OrdersWhereMeant ==
  [][\A s \in Signals, t \in Terminals : orders'[s][t] # orders[s][t] =>
       /\ t \in armed /\ t \in verified'
       /\ fan.step # "idle" => fan'.cur = t]_fanVars

=============================================================================
