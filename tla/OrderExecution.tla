--------------------------- MODULE OrderExecution ---------------------------
(***************************************************************************)
(* ExecutionEngine.execute_order (execution/engine.py) over the order      *)
(* ledger: the module-level dict of execution/state_machine.py, the        *)
(* OrderStateStore cache and its append-only file                          *)
(* (persistence/order_state_store.py).                                     *)
(*                                                                         *)
(* A thread runs one call at a time; every ledger write, the duplicate     *)
(* check and the broker round trip are separate steps, so calls interleave *)
(* and the process may crash between any two of them.                      *)
(***************************************************************************)
EXTENDS Integers, FiniteSets

CONSTANTS
  Threads,          \* callers of execute_order
  Keys,             \* idempotency keys
  KeysOf,           \* the keys a thread may submit
  Shape,            \* symbol/volume/magic of a key's order, what the locator compares
  NoTicket,         \* "no broker ticket"
  MaxRetries,       \* ExecutionEngine.max_retries
  RequireDurable,   \* ExecutionEngine.require_durable_state
  RequireApproval,  \* ExecutionEngine.require_approval
  HasLocator,       \* an order_locator that can read the broker's positions is injected
  NativeMT5,        \* the MetaTrader5 module imports; otherwise fills are simulated
  MaxCalls,         \* bound: calls of execute_order
  MaxCrashes        \* bound: process restarts

Tickets == Keys \X Nat

ASSUME ExecutionAssumption ==
  /\ Keys # {} /\ KeysOf \in [Threads -> SUBSET Keys]
  /\ Shape \in [Keys -> Keys]
  /\ NoTicket \notin Tickets
  /\ MaxRetries \in Nat /\ MaxCalls \in Nat /\ MaxCrashes \in Nat
  /\ RequireDurable \in BOOLEAN /\ RequireApproval \in BOOLEAN
  /\ HasLocator \in BOOLEAN /\ NativeMT5 \in BOOLEAN

(***************************************************************************)
(* Order states; "ABSENT" stands for a key with no record.  The engine     *)
(* never writes PARTIALLY_FILLED.                                          *)
(***************************************************************************)
OrderState == {"INTENT_CREATED", "RISK_APPROVED", "SUBMITTING", "SUBMITTED",
               "ACKNOWLEDGED", "PARTIALLY_FILLED", "FILLED",
               "POSITION_CONFIRMED", "CLOSED", "UNKNOWN"}

NextAllowed(st) ==
  CASE st = "INTENT_CREATED"     -> {"RISK_APPROVED"}
    [] st = "RISK_APPROVED"      -> {"SUBMITTING"}
    [] st = "SUBMITTING"         -> {"SUBMITTED", "UNKNOWN"}
    [] st = "SUBMITTED"          -> {"ACKNOWLEDGED", "UNKNOWN"}
    [] st = "ACKNOWLEDGED"       -> {"PARTIALLY_FILLED", "FILLED", "UNKNOWN"}
    [] st = "PARTIALLY_FILLED"   -> {"FILLED", "UNKNOWN"}
    [] st = "FILLED"             -> {"POSITION_CONFIRMED", "CLOSED", "UNKNOWN"}
    [] st = "POSITION_CONFIRMED" -> {"CLOSED", "UNKNOWN"}
    [] OTHER                     -> {}

Records == [st : OrderState \cup {"ABSENT"}, tk : Tickets \cup {NoTicket}]
NoRecord == [st |-> "ABSENT", tk |-> NoTicket]

\* Steps of a call, named for what the thread does next.
Steps == {"idle", "duplicate", "intent", "validate", "approve", "submit",
          "pending", "send", "submitted", "acknowledged", "confirm", "filled",
          "confirmed", "finish", "failed", "retry"}

\* What a send came back with, as _parse_send_result tells replies apart:
\*   done       retcode 10009, with a ticket
\*   timeout    10012 or 10031, or a message about timeout, connection, network
\*   exception  order_send raised (code -1)
\*   requote    a refusal in TRANSIENT_RETCODES that is not a timeout
\*   rejected   any other refusal, "execution not armed" included
\*   null       order_send returned None: error code 0, empty message
Replies == {"none", "done", "timeout", "exception", "requote", "rejected", "null"}

IsAmbiguousExecution_ExceptionsOnly(r) == r = "exception"

IsAmbiguousExecution(r) == r \in {"timeout", "exception"}

IsTransientError(r) == r \in {"requote", "timeout"}

\* Replies that leave open whether the broker took the order.
MayHaveLanded(r) == r \in {"done", "timeout", "exception", "null"}

VARIABLES
  pc, cur, attempt, reply, ticket,   \* per thread: step, key, attempt, last reply
  pending, completed,                \* _pending_orders, _completed_orders
  ledger,                            \* state_machine._order_store
  cache, file, healthy, corrupt,     \* OrderStateStore: _orders, its file, _healthy
  landed, positions,                 \* the broker: orders accepted, open positions
  calls, crashes

AnyKey == CHOOSE k \in Keys : TRUE   \* the key of an idle thread, never read

callVars == <<pc, cur, attempt, reply, ticket>>
registryVars == <<pending, completed>>
storeVars == <<ledger, cache, file, healthy, corrupt>>
brokerVars == <<landed, positions>>
vars == <<callVars, registryVars, storeVars, brokerVars, calls, crashes>>

TypeOK ==
  /\ pc \in [Threads -> Steps]
  /\ cur \in [Threads -> Keys]
  /\ attempt \in [Threads -> 0..MaxRetries]
  /\ reply \in [Threads -> Replies]
  /\ ticket \in [Threads -> Tickets \cup {NoTicket}]
  /\ pending \in SUBSET Keys
  /\ completed \in [Keys -> {"none", "success", "failure"}]
  /\ ledger \in [Keys -> Records]
  /\ cache \in [Keys -> Records]
  /\ file \in [Keys -> Records]
  /\ healthy \in BOOLEAN /\ corrupt \in BOOLEAN
  /\ landed \in [Keys -> Nat]
  /\ positions \in SUBSET Tickets
  /\ calls \in 0..MaxCalls /\ crashes \in 0..MaxCrashes

Init ==
  /\ pc = [t \in Threads |-> "idle"]
  /\ cur = [t \in Threads |-> AnyKey]
  /\ attempt = [t \in Threads |-> 0]
  /\ reply = [t \in Threads |-> "none"]
  /\ ticket = [t \in Threads |-> NoTicket]
  /\ pending = {} /\ completed = [k \in Keys |-> "none"]
  /\ ledger = [k \in Keys |-> NoRecord]
  /\ cache = [k \in Keys |-> NoRecord]
  /\ file = [k \in Keys |-> NoRecord]
  /\ healthy = TRUE /\ corrupt = FALSE
  /\ landed = [k \in Keys |-> 0] /\ positions = {}
  /\ calls = 0 /\ crashes = 0

-----------------------------------------------------------------------------
(* The ledger and its store                                                *)

\* An append is written, fails cleanly, or fails leaving half a line.
AppendOutcomes == IF healthy THEN {"written", "refused", "torn"} ELSE {"refused"}

\* dict.update: the state always, the ticket when the caller gives one.
Updated(rec, st, tk) ==
  [st |-> st, tk |-> IF tk = NoTicket THEN rec.tk ELSE tk]

\* OrderStateStore._append_line: once unhealthy, nothing is written any more.
AppendLine(k, outcome) ==
  /\ outcome \in AppendOutcomes
  /\ file' = IF outcome = "written" THEN [file EXCEPT ![k] = cache'[k]] ELSE file
  /\ healthy' = (outcome = "written")
  /\ corrupt' = (corrupt \/ outcome = "torn")

\* state_machine.set_order: both in-memory copies first, then the append;
\* the caller sees outcome = "written" as True.
SetOrder(k, st, tk, outcome) ==
  /\ ledger' = [ledger EXCEPT ![k] = Updated(@, st, tk)]
  /\ cache' = [cache EXCEPT ![k] = Updated(@, st, tk)]
  /\ AppendLine(k, outcome)

\* A record past the fresh intent marker (_is_duplicate).
Burned(rec) == rec.st \notin {"ABSENT", "INTENT_CREATED"}

IsDuplicate_MemoryOnly(k) == k \in pending \/ completed[k] # "none"

IsDuplicate(k) ==
  k \in pending \/ completed[k] # "none" \/ Burned(cache[k]) \/ Burned(ledger[k])

-----------------------------------------------------------------------------
(* execute_order                                                           *)

At(t, step) == pc[t] = step
Goto(t, step) == pc' = [pc EXCEPT ![t] = step]

\* The call returns; its locals are gone.
Return(t) ==
  /\ Goto(t, "idle")
  /\ attempt' = [attempt EXCEPT ![t] = 0]
  /\ reply' = [reply EXCEPT ![t] = "none"]
  /\ ticket' = [ticket EXCEPT ![t] = NoTicket]
  /\ cur' = [cur EXCEPT ![t] = AnyKey]

\* Next step of the call, its locals unchanged.
Proceed(t, step) ==
  /\ Goto(t, step)
  /\ UNCHANGED <<cur, attempt, reply, ticket>>

\* The first two early returns: an unusable store refuses the call (503); an
\* order without an approval token is refused (403) after its record is
\* overwritten with UNKNOWN, before any duplicate check.
Call(t, k, approved) ==
  /\ At(t, "idle") /\ k \in KeysOf[t] /\ calls < MaxCalls
  /\ calls' = calls + 1
  /\ \/ /\ RequireDurable /\ ~healthy
        /\ UNCHANGED <<callVars, storeVars>>
     \/ /\ ~(RequireDurable /\ ~healthy)
        /\ RequireApproval /\ ~approved
        /\ \E outcome \in AppendOutcomes : SetOrder(k, "UNKNOWN", NoTicket, outcome)
        /\ UNCHANGED callVars
     \/ /\ ~(RequireDurable /\ ~healthy)
        /\ ~(RequireApproval /\ ~approved)
        /\ Goto(t, "duplicate")
        /\ cur' = [cur EXCEPT ![t] = k]
        /\ UNCHANGED <<attempt, reply, ticket, storeVars>>
  /\ UNCHANGED <<registryVars, brokerVars, crashes>>

\* _is_duplicate holds the registry lock for this step only.
CheckDuplicate(t) ==
  /\ At(t, "duplicate")
  /\ IF IsDuplicate(cur[t]) THEN Return(t) ELSE Proceed(t, "intent")
  /\ UNCHANGED <<registryVars, storeVars, brokerVars, calls, crashes>>

PersistIntent(t) ==
  /\ At(t, "intent")
  /\ \E outcome \in AppendOutcomes :
       /\ SetOrder(cur[t], "INTENT_CREATED", NoTicket, outcome)
       /\ IF RequireDurable /\ outcome # "written"
            THEN Return(t)
            ELSE Proceed(t, "validate")
  /\ UNCHANGED <<registryVars, brokerVars, calls, crashes>>

\* A request that fails validate_order is recorded UNKNOWN and refused (400).
ValidateOrder(t) ==
  /\ At(t, "validate")
  /\ \/ Proceed(t, "approve") /\ UNCHANGED storeVars
     \/ /\ \E outcome \in AppendOutcomes : SetOrder(cur[t], "UNKNOWN", NoTicket, outcome)
        /\ Return(t)
  /\ UNCHANGED <<registryVars, brokerVars, calls, crashes>>

\* The result of this write is ignored.
PersistApproved(t) ==
  /\ At(t, "approve")
  /\ \E outcome \in AppendOutcomes : SetOrder(cur[t], "RISK_APPROVED", NoTicket, outcome)
  /\ Proceed(t, "submit")
  /\ UNCHANGED <<registryVars, brokerVars, calls, crashes>>

PersistSubmitting_IgnoresResult(t) ==
  /\ At(t, "submit")
  /\ \E outcome \in AppendOutcomes : SetOrder(cur[t], "SUBMITTING", NoTicket, outcome)
  /\ Proceed(t, "pending")
  /\ UNCHANGED <<registryVars, brokerVars, calls, crashes>>

PersistSubmitting(t) ==
  /\ At(t, "submit")
  /\ \E outcome \in AppendOutcomes :
       /\ SetOrder(cur[t], "SUBMITTING", NoTicket, outcome)
       /\ IF RequireDurable /\ outcome # "written"
            THEN Return(t)
            ELSE Proceed(t, "pending")
  /\ UNCHANGED <<registryVars, brokerVars, calls, crashes>>

RecordPending(t) ==
  /\ At(t, "pending")
  /\ pending' = pending \cup {cur[t]}
  /\ Proceed(t, "send")
  /\ UNCHANGED <<completed, storeVars, brokerVars, calls, crashes>>

\* The broker round trip; without the native module the fill is simulated and
\* leaves no position at the broker.
SendToMt5(t) ==
  LET k  == cur[t]
      tk == <<k, landed[k] + 1>>
  IN
  /\ At(t, "send")
  /\ \E r \in IF NativeMT5 THEN Replies \ {"none"} ELSE {"done"} :
     \E lands \in BOOLEAN :
       /\ r = "done" => lands
       /\ lands => MayHaveLanded(r)
       /\ reply' = [reply EXCEPT ![t] = r]
       /\ ticket' = [ticket EXCEPT ![t] = IF r = "done" THEN tk ELSE NoTicket]
       /\ landed' = IF lands THEN [landed EXCEPT ![k] = @ + 1] ELSE landed
       /\ positions' = IF lands /\ NativeMT5 THEN positions \cup {tk} ELSE positions
       /\ Goto(t, IF r = "done" THEN "submitted" ELSE "failed")
  /\ UNCHANGED <<cur, attempt, registryVars, storeVars, calls, crashes>>

PersistSubmitted(t) ==
  /\ At(t, "submitted")
  /\ \E outcome \in AppendOutcomes : SetOrder(cur[t], "SUBMITTED", ticket[t], outcome)
  /\ Proceed(t, "acknowledged")
  /\ UNCHANGED <<registryVars, brokerVars, calls, crashes>>

PersistAcknowledged(t) ==
  /\ At(t, "acknowledged")
  /\ \E outcome \in AppendOutcomes : SetOrder(cur[t], "ACKNOWLEDGED", ticket[t], outcome)
  /\ Proceed(t, "confirm")
  /\ UNCHANGED <<registryVars, brokerVars, calls, crashes>>

\* A failed positions read looks like "not confirmed".
ConfirmExecution(t) ==
  /\ At(t, "confirm")
  /\ \/ ticket[t] \in positions /\ Proceed(t, "filled")
     \/ Proceed(t, "finish")
  /\ UNCHANGED <<registryVars, storeVars, brokerVars, calls, crashes>>

PersistFilled(t) ==
  /\ At(t, "filled")
  /\ \E outcome \in AppendOutcomes : SetOrder(cur[t], "FILLED", NoTicket, outcome)
  /\ Proceed(t, "confirmed")
  /\ UNCHANGED <<registryVars, brokerVars, calls, crashes>>

PersistConfirmed(t) ==
  /\ At(t, "confirmed")
  /\ \E outcome \in AppendOutcomes :
       SetOrder(cur[t], "POSITION_CONFIRMED", ticket[t], outcome)
  /\ Proceed(t, "finish")
  /\ UNCHANGED <<registryVars, brokerVars, calls, crashes>>

\* sync_position, then the success result; an exception here is caught by the
\* send's own handler and takes the ambiguous path with error code -1.
FinishSuccess(t) ==
  /\ At(t, "finish")
  /\ \/ /\ pending' = pending \ {cur[t]}
        /\ completed' = [completed EXCEPT ![cur[t]] = "success"]
        /\ Return(t)
     \/ /\ Goto(t, "failed")
        /\ reply' = [reply EXCEPT ![t] = "exception"]
        /\ UNCHANGED <<cur, attempt, ticket, registryVars>>
  /\ UNCHANGED <<storeVars, brokerVars, calls, crashes>>

Located_AnyPosition(k) == IF HasLocator THEN positions ELSE {}

\* The locator's first position with the request's symbol, volume and magic. A
\* lookup can also come back empty although there is one: an exception inside
\* the locator, and a failed read of the positions, count as nothing found.
Located(k) ==
  IF HasLocator THEN {p \in positions : Shape[p[1]] = Shape[k]} ELSE {}

\* An ambiguous reply is never retried, even when it is also transient.
Retries(t) ==
  /\ ~IsAmbiguousExecution(reply[t])
  /\ IsTransientError(reply[t]) /\ attempt[t] < MaxRetries

\* The locator is asked after an ambiguous reply and before a retry; a position
\* it finds is recorded as this order's fill.
AdoptLostResponse(t) ==
  /\ At(t, "failed") /\ (IsAmbiguousExecution(reply[t]) \/ Retries(t))
  /\ \E p \in Located(cur[t]) : \E outcome \in AppendOutcomes :
       SetOrder(cur[t], "POSITION_CONFIRMED", p, outcome)
  /\ pending' = pending \ {cur[t]}
  /\ completed' = [completed EXCEPT ![cur[t]] = "success"]
  /\ Return(t)
  /\ UNCHANGED <<brokerVars, calls, crashes>>

\* An ambiguous reply for which the lookup returned nothing is never retried.
MarkUnknown(t) ==
  /\ At(t, "failed") /\ IsAmbiguousExecution(reply[t])
  /\ \E outcome \in AppendOutcomes : SetOrder(cur[t], "UNKNOWN", NoTicket, outcome)
  /\ pending' = pending \ {cur[t]}
  /\ completed' = [completed EXCEPT ![cur[t]] = "failure"]
  /\ Return(t)
  /\ UNCHANGED <<brokerVars, calls, crashes>>

BackOff_NotCounted(t) ==
  /\ At(t, "failed") /\ Retries(t)
  /\ reply' = [reply EXCEPT ![t] = "none"]
  /\ Goto(t, "retry")
  /\ UNCHANGED <<attempt, cur, ticket, registryVars, storeVars, brokerVars, calls, crashes>>

\* A transient refusal goes round the loop again.
BackOff(t) ==
  /\ At(t, "failed") /\ Retries(t)
  /\ attempt' = [attempt EXCEPT ![t] = @ + 1]
  /\ reply' = [reply EXCEPT ![t] = "none"]
  /\ Goto(t, IF RequireDurable THEN "retry" ELSE "send")
  /\ UNCHANGED <<cur, ticket, registryVars, storeVars, brokerVars, calls, crashes>>

\* No resend unless the retry is on disk (503 otherwise).
PersistRetry(t) ==
  /\ At(t, "retry")
  /\ \E outcome \in AppendOutcomes :
       /\ SetOrder(cur[t], "SUBMITTING", NoTicket, outcome)
       /\ IF outcome = "written"
            THEN Proceed(t, "send") /\ UNCHANGED pending
            ELSE Return(t) /\ pending' = pending \ {cur[t]}
  /\ UNCHANGED <<completed, brokerVars, calls, crashes>>

\* A permanent error, or retries exhausted; the ledger stays SUBMITTING.
GiveUp(t) ==
  /\ At(t, "failed")
  /\ ~IsAmbiguousExecution(reply[t]) /\ ~Retries(t)
  /\ pending' = pending \ {cur[t]}
  /\ completed' = [completed EXCEPT ![cur[t]] = "failure"]
  /\ Return(t)
  /\ UNCHANGED <<storeVars, brokerVars, calls, crashes>>

-----------------------------------------------------------------------------
(* The rest of the process and its environment                             *)

\* The broker closes a position (stop, target or by hand).
BrokerClose ==
  /\ \E p \in positions : positions' = positions \ {p}
  /\ UNCHANGED <<callVars, registryVars, storeVars, landed, calls, crashes>>

\* OrderStateStore.mark_closed, on a tracked ticket that is gone: the cache
\* and the file only, and only along an allowed transition.
MarkClosed(k) ==
  /\ cache[k].tk # NoTicket /\ cache[k].tk \notin positions
  /\ "CLOSED" \in NextAllowed(cache[k].st)
  /\ cache' = [cache EXCEPT ![k] = [st |-> "CLOSED", tk |-> @.tk]]
  /\ \E outcome \in AppendOutcomes : AppendLine(k, outcome)
  /\ UNCHANGED <<callVars, registryVars, ledger, brokerVars, calls, crashes>>

WriteSteps == {"intent", "validate", "approve", "submit", "submitted",
               "acknowledged", "filled", "confirmed", "failed", "retry"}

\* The process dies, perhaps in the middle of an append, and restarts: the
\* store reloads its file (a torn line leaves it unhealthy) and set_store
\* copies the result into the in-memory ledger.
Crash ==
  /\ crashes < MaxCrashes
  /\ crashes' = crashes + 1
  /\ \E torn \in BOOLEAN :
       /\ torn => healthy /\ \E t \in Threads : pc[t] \in WriteSteps
       /\ corrupt' = (corrupt \/ torn)
       /\ healthy' = ~(corrupt \/ torn)
  /\ pc' = [t \in Threads |-> "idle"]
  /\ cur' = [t \in Threads |-> AnyKey]
  /\ attempt' = [t \in Threads |-> 0]
  /\ reply' = [t \in Threads |-> "none"]
  /\ ticket' = [t \in Threads |-> NoTicket]
  /\ pending' = {} /\ completed' = [k \in Keys |-> "none"]
  /\ ledger' = file /\ cache' = file
  /\ UNCHANGED <<file, brokerVars, calls>>

-----------------------------------------------------------------------------
Step(t) ==
  \/ CheckDuplicate(t) \/ PersistIntent(t) \/ ValidateOrder(t)
  \/ PersistApproved(t) \/ PersistSubmitting(t) \/ RecordPending(t)
  \/ SendToMt5(t) \/ PersistSubmitted(t) \/ PersistAcknowledged(t)
  \/ ConfirmExecution(t) \/ PersistFilled(t) \/ PersistConfirmed(t)
  \/ FinishSuccess(t) \/ AdoptLostResponse(t) \/ MarkUnknown(t)
  \/ BackOff(t) \/ PersistRetry(t) \/ GiveUp(t)

Next ==
  \/ \E t \in Threads : Step(t)
  \/ \E t \in Threads, k \in Keys, approved \in BOOLEAN : Call(t, k, approved)
  \/ BrokerClose
  \/ \E k \in Keys : MarkClosed(k)
  \/ Crash

Spec == Init /\ [][Next]_vars

\* The interpreter keeps running a call that has started.
FairSpec == Spec /\ \A t \in Threads : WF_vars(Step(t))

-----------------------------------------------------------------------------
(* Properties                                                              *)

\* The broker never accepts two orders for one idempotency key, across
\* retries, lost replies, I/O faults and restarts (_is_duplicate, the
\* ambiguous-reply rule and the persist-before-send rule together).
AtMostOnce == \A k \in Keys : landed[k] <= 1

\* What reconciliation and run_execution_recovery need of a durable record.
Traceable(rec) == rec.st \in {"SUBMITTING", "UNKNOWN"} \/ rec.tk # NoTicket

\* No order is lost: whenever the broker holds an order of ours, the file a
\* restart would load either flags its key for recovery (SUBMITTING or
\* UNKNOWN) or carries its ticket.
NoLostOrder == \A k \in Keys : landed[k] > 0 => Traceable(file[k])

\* A call only reports success for an order the broker accepted (no
\* fabricated fill), and the ledger then names a ticket issued for that key.
SuccessIsReal ==
  \A k \in Keys : completed[k] = "success" =>
    landed[k] > 0 /\ ledger[k].tk \in {<<k, n>> : n \in 1..landed[k]}

\* The keys a restarted process would refuse, and the broker's count.
Intent == INSTANCE AtMostOnceDispatch
            WITH reserved <- {k \in Keys : Burned(file[k])}, dispatched <- landed

\* The engine implements the at-most-once promise: the durable ledger reserves
\* a key before its order is sent, never forgets it, and each key is
\* dispatched at most once.
ImplementsAtMostOnce == Intent!AbsSpec

\* Every call of execute_order returns: retries are bounded.
EveryCallReturns == \A t \in Threads : pc[t] # "idle" ~> pc[t] = "idle"
=============================================================================
