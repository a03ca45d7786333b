------------------------ MODULE OrderExecutionProofs ------------------------
(***************************************************************************)
(* Proofs about OrderExecution: type correctness for every instance; and,  *)
(* when durable state is required and no key has two submitters, that each *)
(* key is dispatched at most once, that no dispatched order is lost by a   *)
(* restart, and that the engine implements AtMostOnceDispatch.             *)
(***************************************************************************)
EXTENDS OrderExecution, TLAPS

\* The pipeline builds every order with a fresh key.
DisjointKeys ==
  \A a, b \in Threads : a # b => KeysOf[a] \cap KeysOf[b] = {}

\* The production configuration the safety theorems are about.
Production == RequireDurable /\ DisjointKeys

\* Steps before the broker can have seen the order.
Unsent == {"intent", "validate", "approve", "submit", "pending", "send", "retry"}

\* Steps after the ticket has reached the store's cache.
Ticketed == {"acknowledged", "confirm", "filled", "confirmed", "finish"}

\* What a running call knows about its own key.
CallInv(t) ==
  /\ pc[t] # "idle" => cur[t] \in KeysOf[t]
  /\ pc[t] \in Unsent => landed[cur[t]] = 0
  /\ pc[t] = "intent" => ~Burned(cache[cur[t]]) /\ ~Burned(file[cur[t]])
  /\ pc[t] \in {"pending", "send"} =>
       cache[cur[t]].st = "SUBMITTING" /\ file[cur[t]].st = "SUBMITTING"
  /\ pc[t] = "failed" /\ ~MayHaveLanded(reply[t]) => landed[cur[t]] = 0
  /\ pc[t] \in Ticketed \cup {"submitted"} => ticket[t] # NoTicket
  /\ pc[t] \in Ticketed => cache[cur[t]].tk # NoTicket

\* What holds of a key whoever is using it.
KeyInv(k) ==
  /\ Burned(file[k]) => Burned(cache[k])
  /\ landed[k] <= 1
  /\ landed[k] > 0 => Burned(file[k]) /\ Traceable(file[k])

IInv == (\A t \in Threads : CallInv(t)) /\ (\A k \in Keys : KeyInv(k))

-----------------------------------------------------------------------------
\* A write to the ledger changes one key, in memory always, on disk or not at
\* all (set_order and OrderStateStore._append_line).
LEMMA SetOrderEffect ==
  ASSUME TypeOK, NEW k \in Keys, NEW st \in OrderState,
         NEW tk \in Tickets \cup {NoTicket}, NEW outcome \in AppendOutcomes,
         SetOrder(k, st, tk, outcome)
  PROVE  /\ ledger' \in [Keys -> Records]
         /\ cache' \in [Keys -> Records]
         /\ file' \in [Keys -> Records]
         /\ healthy' \in BOOLEAN /\ corrupt' \in BOOLEAN
         /\ cache'[k].st = st
         /\ cache'[k].tk = IF tk = NoTicket THEN cache[k].tk ELSE tk
         /\ file'[k] = cache'[k] \/ file'[k] = file[k]
         /\ outcome = "written" => file'[k] = cache'[k]
         /\ \A j \in Keys \ {k} : cache'[j] = cache[j] /\ file'[j] = file[j]
<1> USE DEF TypeOK, SetOrder
<1>1. /\ ledger' \in [Keys -> Records] /\ cache' \in [Keys -> Records]
      /\ cache'[k] = Updated(cache[k], st, tk)
      /\ \A j \in Keys \ {k} : cache'[j] = cache[j]
  BY DEF Updated, Records
<1>2. file' = IF outcome = "written" THEN [file EXCEPT ![k] = cache'[k]] ELSE file
  BY DEF AppendLine
<1>3. /\ file' \in [Keys -> Records]
      /\ file'[k] = cache'[k] \/ file'[k] = file[k]
      /\ outcome = "written" => file'[k] = cache'[k]
      /\ \A j \in Keys \ {k} : file'[j] = file[j]
  BY <1>1, <1>2
<1>4. healthy' \in BOOLEAN /\ corrupt' \in BOOLEAN
  BY Zenon DEF AppendLine
<1> QED BY <1>1, <1>3, <1>4 DEF Updated

\* Leaving a call, or moving it to its next step, keeps its locals typed.
LEMMA ReturnType ==
  ASSUME TypeOK, NEW t \in Threads, Return(t)
  PROVE  /\ pc' \in [Threads -> Steps] /\ cur' \in [Threads -> Keys]
         /\ attempt' \in [Threads -> 0..MaxRetries]
         /\ reply' \in [Threads -> Replies]
         /\ ticket' \in [Threads -> Tickets \cup {NoTicket}]
  BY ExecutionAssumption DEF TypeOK, Return, Goto, AnyKey, Steps, Replies

LEMMA ProceedType ==
  ASSUME TypeOK, NEW t \in Threads, NEW step \in Steps, Proceed(t, step)
  PROVE  /\ pc' \in [Threads -> Steps] /\ cur' \in [Threads -> Keys]
         /\ attempt' \in [Threads -> 0..MaxRetries]
         /\ reply' \in [Threads -> Replies]
         /\ ticket' \in [Threads -> Tickets \cup {NoTicket}]
  BY DEF TypeOK, Proceed, Goto

-----------------------------------------------------------------------------
\* Every step of a call keeps the state typed; in particular the attempt
\* counter stays within max_retries.
LEMMA StepType == ASSUME TypeOK, NEW t \in Threads, Step(t) PROVE TypeOK'
<1> USE DEF brokerVars, registryVars, storeVars
<1>k. cur[t] \in Keys BY DEF TypeOK
<1>n. ticket[t] \in Tickets \cup {NoTicket} /\ NoTicket \in Tickets \cup {NoTicket}
  BY DEF TypeOK
<1>1. CASE CheckDuplicate(t)
  BY <1>1, ReturnType, ProceedType DEF CheckDuplicate, TypeOK, Steps
<1>2. CASE PersistIntent(t)
  <2>1. PICK outcome \in AppendOutcomes :
          /\ SetOrder(cur[t], "INTENT_CREATED", NoTicket, outcome)
          /\ Return(t) \/ Proceed(t, "validate")
    BY <1>2 DEF PersistIntent
  <2> QED BY <1>2, <1>k, <1>n, <2>1, SetOrderEffect, ReturnType, ProceedType
          DEF PersistIntent, TypeOK, Steps, OrderState
<1>3. CASE ValidateOrder(t)
  <2>1. CASE Proceed(t, "approve") /\ UNCHANGED storeVars
    BY <1>3, <2>1, ProceedType DEF ValidateOrder, TypeOK, Steps
  <2>2. ASSUME NEW outcome \in AppendOutcomes, Return(t),
               SetOrder(cur[t], "UNKNOWN", NoTicket, outcome)
        PROVE  TypeOK'
    BY <1>3, <1>k, <1>n, <2>2, SetOrderEffect, ReturnType
       DEF ValidateOrder, TypeOK, OrderState
  <2> QED BY <1>3, <2>1, <2>2 DEF ValidateOrder
<1>4. CASE PersistApproved(t)
  BY <1>4, <1>k, <1>n, SetOrderEffect, ProceedType
     DEF PersistApproved, TypeOK, Steps, OrderState
<1>5. CASE PersistSubmitting(t)
  <2>1. PICK outcome \in AppendOutcomes :
          /\ SetOrder(cur[t], "SUBMITTING", NoTicket, outcome)
          /\ Return(t) \/ Proceed(t, "pending")
    BY <1>5 DEF PersistSubmitting
  <2> QED BY <1>5, <1>k, <1>n, <2>1, SetOrderEffect, ReturnType, ProceedType
          DEF PersistSubmitting, TypeOK, Steps, OrderState
<1>6. CASE RecordPending(t)
  BY <1>6, ProceedType DEF RecordPending, TypeOK, Steps
<1>7. CASE SendToMt5(t)
  <2> DEFINE tk == <<cur[t], landed[cur[t]] + 1>>
  <2>1. tk \in Tickets BY <1>k DEF TypeOK, Tickets
  <2>2. PICK r \in Replies, lands \in BOOLEAN :
          /\ reply' = [reply EXCEPT ![t] = r]
          /\ ticket' = [ticket EXCEPT ![t] = IF r = "done" THEN tk ELSE NoTicket]
          /\ landed' = IF lands THEN [landed EXCEPT ![cur[t]] = @ + 1] ELSE landed
          /\ positions' = IF lands /\ NativeMT5 THEN positions \cup {tk} ELSE positions
          /\ Goto(t, IF r = "done" THEN "submitted" ELSE "failed")
    BY <1>7 DEF SendToMt5, Replies
  <2> HIDE DEF tk
  <2> QED BY <1>7, <1>k, <2>1, <2>2 DEF SendToMt5, TypeOK, Goto, Steps
<1>8. CASE PersistSubmitted(t)
  BY <1>8, <1>k, <1>n, SetOrderEffect, ProceedType
     DEF PersistSubmitted, TypeOK, Steps, OrderState
<1>9. CASE PersistAcknowledged(t)
  BY <1>9, <1>k, <1>n, SetOrderEffect, ProceedType
     DEF PersistAcknowledged, TypeOK, Steps, OrderState
<1>10. CASE ConfirmExecution(t)
  BY <1>10, ProceedType DEF ConfirmExecution, TypeOK, Steps
<1>11. CASE PersistFilled(t)
  BY <1>11, <1>k, <1>n, SetOrderEffect, ProceedType
     DEF PersistFilled, TypeOK, Steps, OrderState
<1>12. CASE PersistConfirmed(t)
  BY <1>12, <1>k, <1>n, SetOrderEffect, ProceedType
     DEF PersistConfirmed, TypeOK, Steps, OrderState
<1>13. CASE FinishSuccess(t)
  <2>1. CASE Return(t)
    BY <1>13, <2>1, ReturnType DEF FinishSuccess, TypeOK
  <2>2. CASE Goto(t, "failed") /\ reply' = [reply EXCEPT ![t] = "exception"]
    BY <1>13, <2>2 DEF FinishSuccess, TypeOK, Goto, Return, Steps, Replies
  <2> QED BY <1>13, <2>1, <2>2 DEF FinishSuccess
<1>14. CASE AdoptLostResponse(t)
  <2>1. PICK p \in Located(cur[t]), outcome \in AppendOutcomes :
          SetOrder(cur[t], "POSITION_CONFIRMED", p, outcome)
    BY <1>14 DEF AdoptLostResponse
  <2>2. p \in Tickets BY <2>1 DEF Located, TypeOK
  <2> QED BY <1>14, <1>k, <2>1, <2>2, SetOrderEffect, ReturnType
          DEF AdoptLostResponse, TypeOK, OrderState
<1>15. CASE MarkUnknown(t)
  BY <1>15, <1>k, <1>n, SetOrderEffect, ReturnType
     DEF MarkUnknown, TypeOK, OrderState
<1>16. CASE BackOff(t)
  BY <1>16, ExecutionAssumption DEF BackOff, Retries, Goto, TypeOK, Steps, Replies
<1>17. CASE PersistRetry(t)
  <2>1. PICK outcome \in AppendOutcomes :
          /\ SetOrder(cur[t], "SUBMITTING", NoTicket, outcome)
          /\ \/ Proceed(t, "send") /\ UNCHANGED pending
             \/ Return(t) /\ pending' = pending \ {cur[t]}
    BY <1>17 DEF PersistRetry
  <2> QED BY <1>17, <1>k, <1>n, <2>1, SetOrderEffect, ReturnType, ProceedType
          DEF PersistRetry, TypeOK, Steps, OrderState
<1>18. CASE GiveUp(t)
  BY <1>18, ReturnType DEF GiveUp, TypeOK
<1> QED
  BY <1>1, <1>2, <1>3, <1>4, <1>5, <1>6, <1>7, <1>8, <1>9, <1>10, <1>11, <1>12,
     <1>13, <1>14, <1>15, <1>16, <1>17, <1>18 DEF Step

\* A record names one of the order states and a ticket, in memory and on disk.
LEMMA NextType == ASSUME TypeOK, [Next]_vars PROVE TypeOK'
<1> USE DEF callVars, brokerVars, registryVars, storeVars
<1>1. ASSUME NEW t \in Threads, Step(t) PROVE TypeOK'
  BY <1>1, StepType
<1>2. ASSUME NEW t \in Threads, NEW k \in Keys, NEW approved \in BOOLEAN,
             Call(t, k, approved)
      PROVE  TypeOK'
  <2>1. calls' \in 0..MaxCalls BY <1>2, ExecutionAssumption DEF Call, TypeOK
  <2>2. CASE UNCHANGED <<callVars, storeVars>>
    BY <1>2, <2>1, <2>2 DEF Call, TypeOK
  <2>3. ASSUME NEW outcome \in AppendOutcomes, UNCHANGED callVars,
               SetOrder(k, "UNKNOWN", NoTicket, outcome)
        PROVE  TypeOK'
    BY <1>2, <2>1, <2>3, SetOrderEffect DEF Call, TypeOK, OrderState
  <2>4. CASE /\ Goto(t, "duplicate") /\ cur' = [cur EXCEPT ![t] = k]
             /\ UNCHANGED <<attempt, reply, ticket, storeVars>>
    BY <1>2, <2>1, <2>4 DEF Call, TypeOK, Goto, Steps
  <2> QED BY <1>2, <2>2, <2>3, <2>4 DEF Call
<1>3. CASE BrokerClose
  BY <1>3 DEF BrokerClose, TypeOK
<1>4. ASSUME NEW k \in Keys, MarkClosed(k) PROVE TypeOK'
  <2>1. cache' \in [Keys -> Records]
    BY <1>4 DEF MarkClosed, TypeOK, Records, OrderState
  <2>2. PICK outcome \in AppendOutcomes : AppendLine(k, outcome)
    BY <1>4 DEF MarkClosed
  <2>3. file' \in [Keys -> Records]
    BY <2>1, <2>2 DEF AppendLine, TypeOK
  <2>4. healthy' \in BOOLEAN /\ corrupt' \in BOOLEAN
    BY <2>2, Zenon DEF AppendLine, TypeOK
  <2> QED BY <1>4, <2>1, <2>3, <2>4 DEF MarkClosed, TypeOK
<1>5. CASE Crash
  <2>1. healthy' \in BOOLEAN /\ corrupt' \in BOOLEAN
    BY <1>5, Zenon DEF Crash, TypeOK
  <2> QED BY <1>5, <2>1, ExecutionAssumption
          DEF Crash, TypeOK, Steps, Replies, AnyKey
<1>6. CASE UNCHANGED vars
  BY <1>6 DEF vars, TypeOK
<1> QED BY <1>1, <1>2, <1>3, <1>4, <1>5, <1>6 DEF Next

LEMMA InitType == Init => TypeOK
<1> SUFFICES ASSUME Init PROVE TypeOK OBVIOUS
<1>1. AnyKey \in Keys BY ExecutionAssumption DEF AnyKey
<1>2. healthy \in BOOLEAN /\ corrupt \in BOOLEAN BY Zenon DEF Init
<1>3. NoRecord \in Records BY DEF NoRecord, Records
<1> QED BY <1>1, <1>2, <1>3, ExecutionAssumption DEF Init, TypeOK, Steps, Replies

\* Type correctness of every behaviour, for any threads, keys and settings.
THEOREM TypeCorrect == Spec => []TypeOK
<1>1. Init => TypeOK
  BY InitType
<1>2. TypeOK /\ [Next]_vars => TypeOK'
  BY NextType
<1> QED BY <1>1, <1>2, PTL DEF Spec

-----------------------------------------------------------------------------
\* A call is not disturbed by a step that leaves its locals and its own key
\* alone.
LEMMA Undisturbed ==
  ASSUME NEW u \in Threads, CallInv(u),
         pc'[u] = pc[u], cur'[u] = cur[u], reply'[u] = reply[u], ticket'[u] = ticket[u],
         pc[u] # "idle" => /\ landed'[cur[u]] = landed[cur[u]]
                           /\ cache'[cur[u]] = cache[cur[u]]
                           /\ file'[cur[u]] = file[cur[u]]
  PROVE  CallInv(u)'
  BY DEF CallInv, Unsent, Ticketed, Burned

\* Running calls of different threads work on different keys.
LEMMA KeysApart ==
  ASSUME Production, NEW t \in Threads, NEW u \in Threads, u # t,
         NEW k \in KeysOf[t], CallInv(u), pc[u] # "idle"
  PROVE  cur[u] # k
  BY DEF Production, DisjointKeys, CallInv

\* A step of thread t that touches only the key of its call, or of the call it
\* refuses, preserves the invariant if it does so for t and for that key.
LEMMA LocalStep ==
  ASSUME Production, TypeOK, IInv, NEW t \in Threads, NEW k \in KeysOf[t] \cap Keys,
         \A u \in Threads \ {t} : /\ pc'[u] = pc[u] /\ cur'[u] = cur[u]
                                 /\ reply'[u] = reply[u] /\ ticket'[u] = ticket[u],
         \A j \in Keys \ {k} : /\ landed'[j] = landed[j]
                              /\ cache'[j] = cache[j] /\ file'[j] = file[j],
         CallInv(t)', KeyInv(k)'
  PROVE  IInv'
<1>1. ASSUME NEW u \in Threads \ {t} PROVE CallInv(u)'
  <2>1. CallInv(u) BY DEF IInv
  <2>2. pc[u] # "idle" => cur[u] \in Keys \ {k}
    BY <2>1, KeysApart DEF TypeOK
  <2> QED BY <2>1, <2>2, Undisturbed
<1>2. ASSUME NEW j \in Keys \ {k} PROVE KeyInv(j)'
  BY DEF IInv, KeyInv, Burned, Traceable
<1> QED BY <1>1, <1>2 DEF IInv

\* A returned call owes nothing.
LEMMA IdleCall == ASSUME NEW t \in Threads, TypeOK, Return(t) PROVE CallInv(t)'
  BY DEF CallInv, Return, Goto, TypeOK, Unsent, Ticketed

\* Only the locals of the moving thread change.
LEMMA OthersStill ==
  ASSUME TypeOK, NEW t \in Threads, NEW u \in Threads \ {t},
         Return(t) \/ \E step \in Steps : Proceed(t, step)
  PROVE  /\ pc'[u] = pc[u] /\ cur'[u] = cur[u]
         /\ reply'[u] = reply[u] /\ ticket'[u] = ticket[u]
  BY DEF TypeOK, Return, Proceed, Goto

\* A ledger write by a call that then returns: all that is left to show is the
\* invariant of its key.
LEMMA WriteAndReturn ==
  ASSUME Production, TypeOK, IInv, NEW t \in Threads, pc[t] # "idle", Return(t),
         NEW k \in Keys, k = cur[t],
         NEW st \in OrderState, NEW tk \in Tickets \cup {NoTicket},
         NEW outcome \in AppendOutcomes, SetOrder(k, st, tk, outcome),
         landed' = landed, KeyInv(k)'
  PROVE  IInv'
<1>1. k \in KeysOf[t] BY DEF IInv, CallInv
<1>2. CallInv(t)' BY IdleCall
<1>3. \A u \in Threads \ {t} : /\ pc'[u] = pc[u] /\ cur'[u] = cur[u]
                              /\ reply'[u] = reply[u] /\ ticket'[u] = ticket[u]
  BY OthersStill
<1>4. \A j \in Keys \ {k} : cache'[j] = cache[j] /\ file'[j] = file[j]
  BY SetOrderEffect
<1> QED BY <1>1, <1>2, <1>3, <1>4, LocalStep

\* The same for a call that goes on.
LEMMA WriteAndProceed ==
  ASSUME Production, TypeOK, IInv, NEW t \in Threads, pc[t] # "idle",
         NEW step \in Steps, Proceed(t, step), NEW k \in Keys, k = cur[t],
         NEW st \in OrderState, NEW tk \in Tickets \cup {NoTicket},
         NEW outcome \in AppendOutcomes, SetOrder(k, st, tk, outcome),
         landed' = landed, KeyInv(k)', CallInv(t)'
  PROVE  IInv'
<1>1. k \in KeysOf[t] BY DEF IInv, CallInv
<1>2. \A u \in Threads \ {t} : /\ pc'[u] = pc[u] /\ cur'[u] = cur[u]
                              /\ reply'[u] = reply[u] /\ ticket'[u] = ticket[u]
  BY OthersStill
<1>3. \A j \in Keys \ {k} : cache'[j] = cache[j] /\ file'[j] = file[j]
  BY SetOrderEffect
<1> QED BY <1>1, <1>2, <1>3, LocalStep

\* And for a step that leaves store and broker alone.
LEMMA QuietStep ==
  ASSUME Production, TypeOK, IInv, NEW t \in Threads, pc[t] # "idle",
         CallInv(t)', UNCHANGED <<storeVars, brokerVars>>,
         \A u \in Threads \ {t} : /\ pc'[u] = pc[u] /\ cur'[u] = cur[u]
                                 /\ reply'[u] = reply[u] /\ ticket'[u] = ticket[u]
  PROVE  IInv'
<1> PICK k \in Keys : k = cur[t] BY DEF TypeOK
<1>1. k \in KeysOf[t] BY DEF IInv, CallInv
<1>2. KeyInv(k)' BY DEF IInv, KeyInv, Burned, Traceable, storeVars, brokerVars
<1> QED BY <1>1, <1>2, LocalStep DEF storeVars, brokerVars

\* Every record but a fresh intent, written to a key in any state, keeps the
\* key's invariant provided it is traceable or the key is not dispatched yet.
LEMMA WriteKeepsKey ==
  ASSUME TypeOK, IInv, NEW k \in Keys, NEW st \in OrderState \ {"INTENT_CREATED"},
         NEW tk \in Tickets \cup {NoTicket}, NEW outcome \in AppendOutcomes,
         SetOrder(k, st, tk, outcome), landed' = landed,
         \/ landed[k] = 0
         \/ st \in {"SUBMITTING", "UNKNOWN"}
         \/ tk # NoTicket
         \/ cache[k].tk # NoTicket
  PROVE  KeyInv(k)'
<1>1. /\ cache'[k].st = st
      /\ cache'[k].tk = IF tk = NoTicket THEN cache[k].tk ELSE tk
      /\ file'[k] = cache'[k] \/ file'[k] = file[k]
  BY SetOrderEffect
<1>2. st \notin {"ABSENT", "INTENT_CREATED"} BY DEF OrderState
<1>3. KeyInv(k) BY DEF IInv
<1>4. landed[k] \in Nat BY DEF TypeOK
<1> QED BY <1>1, <1>2, <1>3, <1>4 DEF KeyInv, Burned, Traceable

-----------------------------------------------------------------------------
\* Every step of a call preserves the invariant.
LEMMA StepInv ==
  ASSUME Production, TypeOK, IInv, NEW t \in Threads, Step(t)
  PROVE  IInv'
<1> USE DEF brokerVars, registryVars, storeVars, At
<1> PICK k \in Keys : k = cur[t] BY DEF TypeOK
<1>k. CallInv(t) /\ KeyInv(k) BY DEF TypeOK, IInv
<1>n. /\ ticket[t] \in Tickets \cup {NoTicket} /\ NoTicket \in Tickets \cup {NoTicket}
      /\ landed[k] \in Nat
  BY <1>k DEF TypeOK
<1>o. pc[t] # "idle" => k \in KeysOf[t] BY <1>k DEF CallInv
<1>1. CASE CheckDuplicate(t)
  <2>1. CASE IsDuplicate(k)
    BY <1>1, <2>1, IdleCall, OthersStill, QuietStep DEF CheckDuplicate
  <2>2. CASE ~IsDuplicate(k)
    <3>1. Proceed(t, "intent") /\ UNCHANGED <<storeVars, brokerVars>>
      BY <1>1, <2>2 DEF CheckDuplicate
    <3>2. ~Burned(cache[k]) /\ ~Burned(file[k]) /\ landed[k] = 0
      BY <1>k, <1>n, <2>2 DEF IsDuplicate, KeyInv
    <3>3. CallInv(t)'
      BY <1>1, <1>o, <3>1, <3>2
         DEF CheckDuplicate, CallInv, Proceed, Goto, TypeOK, Unsent, Ticketed, Burned
    <3> QED BY <1>1, <3>1, <3>3, OthersStill, QuietStep DEF CheckDuplicate, Steps
  <2> QED BY <2>1, <2>2
<1>2. CASE PersistIntent(t)
  <2>1. PICK outcome \in AppendOutcomes :
          /\ SetOrder(k, "INTENT_CREATED", NoTicket, outcome)
          /\ Return(t) \/ Proceed(t, "validate")
    BY <1>2 DEF PersistIntent
  <2>2. landed' = landed /\ landed[k] = 0 /\ ~Burned(file[k])
    BY <1>2, <1>k DEF PersistIntent, CallInv, Unsent
  <2>3. KeyInv(k)'
    BY <1>k, <1>n, <2>1, <2>2, SetOrderEffect DEF KeyInv, Burned, OrderState
  <2>4. ASSUME Proceed(t, "validate") PROVE CallInv(t)'
    BY <1>2, <1>o, <2>2, <2>4
       DEF PersistIntent, CallInv, Proceed, Goto, TypeOK, Unsent, Ticketed
  <2> QED BY <1>2, <1>k, <1>n, <2>1, <2>2, <2>3, <2>4, WriteAndReturn, WriteAndProceed
          DEF PersistIntent, Steps, OrderState
<1>3. CASE ValidateOrder(t)
  <2>1. landed' = landed /\ landed[k] = 0 /\ pc[t] # "idle"
    BY <1>3, <1>k DEF ValidateOrder, CallInv, Unsent
  <2>2. CASE Proceed(t, "approve") /\ UNCHANGED storeVars
    <3>1. CallInv(t)'
      BY <1>3, <1>o, <2>1, <2>2
         DEF ValidateOrder, CallInv, Proceed, Goto, TypeOK, Unsent, Ticketed
    <3> QED BY <1>3, <2>1, <2>2, <3>1, OthersStill, QuietStep DEF ValidateOrder, Steps
  <2>3. ASSUME NEW outcome \in AppendOutcomes, Return(t),
               SetOrder(k, "UNKNOWN", NoTicket, outcome)
        PROVE  IInv'
    BY <1>k, <1>n, <2>1, <2>3, WriteKeepsKey, WriteAndReturn DEF OrderState
  <2> QED BY <1>3, <2>2, <2>3 DEF ValidateOrder
<1>4. CASE PersistApproved(t)
  <2>1. /\ landed' = landed /\ landed[k] = 0 /\ pc[t] # "idle"
        /\ Proceed(t, "submit")
    BY <1>4, <1>k DEF PersistApproved, CallInv, Unsent
  <2>2. CallInv(t)'
    BY <1>4, <1>o, <2>1
       DEF PersistApproved, CallInv, Proceed, Goto, TypeOK, Unsent, Ticketed
  <2>3. PICK outcome \in AppendOutcomes :
          SetOrder(k, "RISK_APPROVED", NoTicket, outcome)
    BY <1>4 DEF PersistApproved
  <2> QED BY <1>k, <1>n, <2>1, <2>2, <2>3, WriteKeepsKey, WriteAndProceed
          DEF OrderState, Steps
<1>5. CASE PersistSubmitting(t)
  <2>1. PICK outcome \in AppendOutcomes :
          /\ SetOrder(k, "SUBMITTING", NoTicket, outcome)
          /\ Return(t) \/ (outcome = "written" /\ Proceed(t, "pending"))
    BY <1>5 DEF PersistSubmitting, Production
  <2>2. landed' = landed /\ landed[k] = 0 /\ pc[t] # "idle"
    BY <1>5, <1>k DEF PersistSubmitting, CallInv, Unsent
  <2>3. cache'[k].st = "SUBMITTING"
        /\ (outcome = "written" => file'[k].st = "SUBMITTING")
    BY <1>k, <1>n, <2>1, SetOrderEffect DEF OrderState
  <2>4. ASSUME outcome = "written", Proceed(t, "pending") PROVE CallInv(t)'
    BY <1>5, <1>o, <2>2, <2>3, <2>4
       DEF PersistSubmitting, CallInv, Proceed, Goto, TypeOK, Unsent, Ticketed
  <2> QED BY <1>k, <1>n, <2>1, <2>2, <2>4, WriteKeepsKey, WriteAndReturn, WriteAndProceed
          DEF OrderState, Steps
<1>6. CASE RecordPending(t)
  <2>1. /\ Proceed(t, "send") /\ UNCHANGED <<storeVars, brokerVars>> /\ pc[t] # "idle"
    BY <1>6 DEF RecordPending
  <2>2. CallInv(t)'
    BY <1>6, <1>k, <2>1
       DEF RecordPending, CallInv, Proceed, Goto, TypeOK, Unsent, Ticketed
  <2> QED BY <2>1, <2>2, OthersStill, QuietStep DEF Steps
<1>7. CASE SendToMt5(t)
  <2>1. PICK r \in Replies, lands \in BOOLEAN :
          /\ lands => MayHaveLanded(r)
          /\ reply' = [reply EXCEPT ![t] = r]
          /\ ticket' = [ticket EXCEPT ![t] =
                          IF r = "done" THEN <<k, landed[k] + 1>> ELSE NoTicket]
          /\ landed' = IF lands THEN [landed EXCEPT ![k] = @ + 1] ELSE landed
          /\ Goto(t, IF r = "done" THEN "submitted" ELSE "failed")
    BY <1>7 DEF SendToMt5, Replies
  <2>2. /\ pc[t] = "send" /\ landed[k] = 0 /\ file[k].st = "SUBMITTING"
        /\ UNCHANGED <<cur, storeVars>>
    BY <1>7, <1>k DEF SendToMt5, CallInv, Unsent
  <2>3. <<k, landed[k] + 1>> # NoTicket
    BY <1>k, <1>n, ExecutionAssumption DEF Tickets
  <2>4. landed'[k] \in {0, 1} /\ (~lands => landed'[k] = 0)
    BY <1>k, <1>n, <2>1, <2>2 DEF TypeOK
  <2>5. KeyInv(k)'
    BY <1>k, <2>2, <2>4 DEF KeyInv, Burned, Traceable
  <2>6. CallInv(t)'
    BY <1>o, <2>1, <2>2, <2>3, <2>4
       DEF CallInv, Goto, TypeOK, Unsent, Ticketed, MayHaveLanded
  <2>7. ASSUME NEW u \in Threads \ {t}
        PROVE  pc'[u] = pc[u] /\ cur'[u] = cur[u] /\ reply'[u] = reply[u]
               /\ ticket'[u] = ticket[u]
    BY <2>1, <2>2 DEF Goto, TypeOK
  <2>8. ASSUME NEW j \in Keys \ {k}
        PROVE  landed'[j] = landed[j] /\ cache'[j] = cache[j] /\ file'[j] = file[j]
    BY <1>k, <2>1, <2>2 DEF TypeOK
  <2> QED BY <1>o, <2>2, <2>5, <2>6, <2>7, <2>8, LocalStep
<1>8. CASE PersistSubmitted(t)
  <2>1. /\ landed' = landed /\ pc[t] # "idle" /\ ticket[t] # NoTicket
        /\ Proceed(t, "acknowledged")
    BY <1>8, <1>k DEF PersistSubmitted, CallInv
  <2>2. PICK outcome \in AppendOutcomes : SetOrder(k, "SUBMITTED", ticket[t], outcome)
    BY <1>8 DEF PersistSubmitted
  <2>3. cache'[k].tk # NoTicket
    BY <1>k, <1>n, <2>1, <2>2, SetOrderEffect DEF OrderState
  <2>4. CallInv(t)'
    BY <1>8, <1>o, <2>1, <2>3
       DEF PersistSubmitted, CallInv, Proceed, Goto, TypeOK, Unsent, Ticketed
  <2> QED BY <1>k, <1>n, <2>1, <2>2, <2>4, WriteKeepsKey, WriteAndProceed
          DEF OrderState, Steps
<1>9. CASE PersistAcknowledged(t)
  <2>1. /\ landed' = landed /\ pc[t] # "idle" /\ ticket[t] # NoTicket
        /\ Proceed(t, "confirm")
    BY <1>9, <1>k DEF PersistAcknowledged, CallInv, Ticketed
  <2>2. PICK outcome \in AppendOutcomes :
          SetOrder(k, "ACKNOWLEDGED", ticket[t], outcome)
    BY <1>9 DEF PersistAcknowledged
  <2>3. cache'[k].tk # NoTicket
    BY <1>k, <1>n, <2>1, <2>2, SetOrderEffect DEF OrderState
  <2>4. CallInv(t)'
    BY <1>9, <1>o, <2>1, <2>3
       DEF PersistAcknowledged, CallInv, Proceed, Goto, TypeOK, Unsent, Ticketed
  <2> QED BY <1>k, <1>n, <2>1, <2>2, <2>4, WriteKeepsKey, WriteAndProceed
          DEF OrderState, Steps
<1>10. CASE ConfirmExecution(t)
  <2>1. /\ Proceed(t, "filled") \/ Proceed(t, "finish")
        /\ UNCHANGED <<storeVars, brokerVars>> /\ pc[t] = "confirm"
    BY <1>10 DEF ConfirmExecution
  <2>2. CallInv(t)'
    BY <1>k, <2>1 DEF CallInv, Proceed, Goto, TypeOK, Unsent, Ticketed
  <2> QED BY <2>1, <2>2, OthersStill, QuietStep DEF Steps
<1>11. CASE PersistFilled(t)
  <2>1. /\ landed' = landed /\ pc[t] # "idle" /\ ticket[t] # NoTicket
        /\ cache[k].tk # NoTicket /\ Proceed(t, "confirmed")
    BY <1>11, <1>k DEF PersistFilled, CallInv, Ticketed
  <2>2. PICK outcome \in AppendOutcomes : SetOrder(k, "FILLED", NoTicket, outcome)
    BY <1>11 DEF PersistFilled
  <2>3. cache'[k].tk # NoTicket
    BY <1>k, <1>n, <2>1, <2>2, SetOrderEffect DEF OrderState
  <2>4. CallInv(t)'
    BY <1>11, <1>o, <2>1, <2>3
       DEF PersistFilled, CallInv, Proceed, Goto, TypeOK, Unsent, Ticketed
  <2> QED BY <1>k, <1>n, <2>1, <2>2, <2>4, WriteKeepsKey, WriteAndProceed
          DEF OrderState, Steps
<1>12. CASE PersistConfirmed(t)
  <2>1. /\ landed' = landed /\ pc[t] # "idle" /\ ticket[t] # NoTicket
        /\ Proceed(t, "finish")
    BY <1>12, <1>k DEF PersistConfirmed, CallInv, Ticketed
  <2>2. PICK outcome \in AppendOutcomes :
          SetOrder(k, "POSITION_CONFIRMED", ticket[t], outcome)
    BY <1>12 DEF PersistConfirmed
  <2>3. cache'[k].tk # NoTicket
    BY <1>k, <1>n, <2>1, <2>2, SetOrderEffect DEF OrderState
  <2>4. CallInv(t)'
    BY <1>12, <1>o, <2>1, <2>3
       DEF PersistConfirmed, CallInv, Proceed, Goto, TypeOK, Unsent, Ticketed
  <2> QED BY <1>k, <1>n, <2>1, <2>2, <2>4, WriteKeepsKey, WriteAndProceed
          DEF OrderState, Steps
<1>13. CASE FinishSuccess(t)
  <2>1. UNCHANGED <<storeVars, brokerVars>> /\ pc[t] = "finish"
    BY <1>13 DEF FinishSuccess
  <2>3. CASE Return(t)
    BY <2>1, <2>3, IdleCall, OthersStill, QuietStep
  <2>4. CASE /\ Goto(t, "failed") /\ reply' = [reply EXCEPT ![t] = "exception"]
             /\ UNCHANGED <<cur, ticket>>
    <3>1. CallInv(t)'
      BY <1>o, <2>1, <2>4 DEF CallInv, Goto, TypeOK, Unsent, Ticketed, MayHaveLanded
    <3>2. ASSUME NEW u \in Threads \ {t}
          PROVE  pc'[u] = pc[u] /\ cur'[u] = cur[u] /\ reply'[u] = reply[u]
                 /\ ticket'[u] = ticket[u]
      BY <2>4 DEF Goto, TypeOK
    <3> QED BY <2>1, <3>1, <3>2, QuietStep
  <2> QED BY <1>13, <2>3, <2>4 DEF FinishSuccess
<1>14. CASE AdoptLostResponse(t)
  <2>1. PICK p \in Located(k), outcome \in AppendOutcomes :
          SetOrder(k, "POSITION_CONFIRMED", p, outcome)
    BY <1>14 DEF AdoptLostResponse
  <2>2. p \in Tickets /\ p # NoTicket
    BY <2>1, ExecutionAssumption DEF Located, TypeOK
  <2>3. landed' = landed /\ pc[t] # "idle" /\ Return(t)
    BY <1>14 DEF AdoptLostResponse
  <2> QED BY <1>k, <2>1, <2>2, <2>3, WriteKeepsKey, WriteAndReturn DEF OrderState
<1>15. CASE MarkUnknown(t)
  <2>1. PICK outcome \in AppendOutcomes : SetOrder(k, "UNKNOWN", NoTicket, outcome)
    BY <1>15 DEF MarkUnknown
  <2>2. landed' = landed /\ pc[t] # "idle" /\ Return(t)
    BY <1>15 DEF MarkUnknown
  <2> QED BY <1>k, <1>n, <2>1, <2>2, WriteKeepsKey, WriteAndReturn DEF OrderState
<1>16. CASE BackOff(t)
  <2>1. /\ Goto(t, "retry") /\ reply' = [reply EXCEPT ![t] = "none"]
        /\ UNCHANGED <<cur, ticket, storeVars, brokerVars>>
        /\ pc[t] = "failed" /\ landed[k] = 0
    BY <1>16, <1>k
       DEF BackOff, CallInv, Production, Retries, IsTransientError,
           IsAmbiguousExecution, MayHaveLanded
  <2>2. CallInv(t)'
    BY <1>o, <2>1 DEF CallInv, Goto, TypeOK, Unsent, Ticketed
  <2>3. ASSUME NEW u \in Threads \ {t}
        PROVE  pc'[u] = pc[u] /\ cur'[u] = cur[u] /\ reply'[u] = reply[u]
               /\ ticket'[u] = ticket[u]
    BY <2>1 DEF Goto, TypeOK
  <2> QED BY <2>1, <2>2, <2>3, QuietStep
<1>17. CASE PersistRetry(t)
  <2>1. PICK outcome \in AppendOutcomes :
          /\ SetOrder(k, "SUBMITTING", NoTicket, outcome)
          /\ Return(t) \/ (outcome = "written" /\ Proceed(t, "send"))
    BY <1>17 DEF PersistRetry
  <2>2. landed' = landed /\ landed[k] = 0 /\ pc[t] = "retry"
    BY <1>17, <1>k DEF PersistRetry, CallInv, Unsent
  <2>3. cache'[k].st = "SUBMITTING"
        /\ (outcome = "written" => file'[k].st = "SUBMITTING")
    BY <1>k, <1>n, <2>1, SetOrderEffect DEF OrderState
  <2>4. ASSUME outcome = "written", Proceed(t, "send") PROVE CallInv(t)'
    BY <1>o, <2>2, <2>3, <2>4 DEF CallInv, Proceed, Goto, TypeOK, Unsent, Ticketed
  <2> QED BY <1>k, <1>n, <2>1, <2>2, <2>4, WriteKeepsKey, WriteAndReturn, WriteAndProceed
          DEF OrderState, Steps
<1>18. CASE GiveUp(t)
  <2>1. UNCHANGED <<storeVars, brokerVars>> /\ pc[t] = "failed" /\ Return(t)
    BY <1>18 DEF GiveUp
  <2> QED BY <2>1, IdleCall, OthersStill, QuietStep
<1> QED
  BY <1>1, <1>2, <1>3, <1>4, <1>5, <1>6, <1>7, <1>8, <1>9, <1>10, <1>11, <1>12,
     <1>13, <1>14, <1>15, <1>16, <1>17, <1>18 DEF Step

\* The invariant is inductive.
LEMMA NextInv ==
  ASSUME Production, TypeOK, IInv, [Next]_vars
  PROVE  IInv'
<1> USE DEF callVars, brokerVars, registryVars, storeVars
<1>1. ASSUME NEW t \in Threads, Step(t) PROVE IInv'
  BY <1>1, StepInv
<1>2. ASSUME NEW t \in Threads, NEW k \in Keys, NEW approved \in BOOLEAN,
             Call(t, k, approved)
      PROVE  IInv'
  <2>1. pc[t] = "idle" /\ k \in KeysOf[t] /\ landed' = landed
    BY <1>2 DEF Call, At
  <2>2. CASE UNCHANGED <<callVars, storeVars>>
    BY <2>1, <2>2
       DEF IInv, CallInv, KeyInv, Burned, Traceable, Unsent, Ticketed
  <2>3. ASSUME NEW outcome \in AppendOutcomes, UNCHANGED callVars,
               SetOrder(k, "UNKNOWN", NoTicket, outcome)
        PROVE  IInv'
    <3>1. KeyInv(k)' BY <2>1, <2>3, WriteKeepsKey DEF OrderState
    <3>2. CallInv(t)' BY <2>1, <2>3 DEF CallInv, Unsent, Ticketed
    <3>3. \A j \in Keys \ {k} : cache'[j] = cache[j] /\ file'[j] = file[j]
      BY <2>3, SetOrderEffect DEF OrderState
    <3> QED BY <2>1, <2>3, <3>1, <3>2, <3>3, LocalStep
  <2>4. CASE /\ Goto(t, "duplicate") /\ cur' = [cur EXCEPT ![t] = k]
             /\ UNCHANGED <<attempt, reply, ticket, storeVars>>
    <3>1. CallInv(t)'
      BY <2>1, <2>4 DEF CallInv, Goto, TypeOK, Unsent, Ticketed
    <3>2. KeyInv(k)'
      BY <2>1, <2>4 DEF IInv, KeyInv, Burned, Traceable
    <3>3. \A u \in Threads \ {t} : pc'[u] = pc[u] /\ cur'[u] = cur[u]
      BY <2>4 DEF Goto, TypeOK
    <3> QED BY <2>1, <2>4, <3>1, <3>2, <3>3, LocalStep
  <2> QED BY <1>2, <2>2, <2>3, <2>4 DEF Call
<1>3. CASE BrokerClose
  BY <1>3 DEF BrokerClose, IInv, CallInv, KeyInv, Burned, Traceable, Unsent, Ticketed
<1>4. ASSUME NEW k \in Keys, MarkClosed(k) PROVE IInv'
  <2>1. /\ cache[k].st \in {"FILLED", "POSITION_CONFIRMED"} /\ cache[k].tk # NoTicket
        /\ landed' = landed
    BY <1>4 DEF MarkClosed, NextAllowed
  <2>2. /\ cache'[k] = [st |-> "CLOSED", tk |-> cache[k].tk]
        /\ \A j \in Keys \ {k} : cache'[j] = cache[j]
    BY <1>4 DEF MarkClosed, TypeOK
  <2>3. /\ file'[k] = cache'[k] \/ file'[k] = file[k]
        /\ \A j \in Keys \ {k} : file'[j] = file[j]
    BY <1>4 DEF MarkClosed, AppendLine, TypeOK
  <2>4. ASSUME NEW j \in Keys PROVE KeyInv(j)'
    BY <2>1, <2>2, <2>3 DEF IInv, KeyInv, Burned, Traceable
  <2>5. ASSUME NEW u \in Threads PROVE CallInv(u)'
    <3>1. CallInv(u) /\ cur[u] \in Keys /\ UNCHANGED callVars
      BY <1>4 DEF IInv, TypeOK, MarkClosed
    <3>2. CASE cur[u] # k
      BY <2>1, <2>2, <2>3, <3>1, <3>2, Undisturbed
    <3>3. CASE cur[u] = k
      BY <2>1, <2>2, <3>1, <3>3 DEF CallInv, Burned, Unsent, Ticketed
    <3> QED BY <3>2, <3>3
  <2> QED BY <2>4, <2>5 DEF IInv
<1>5. CASE Crash
  BY <1>5 DEF Crash, IInv, CallInv, KeyInv, Burned, Traceable, Unsent, Ticketed
<1>6. CASE UNCHANGED vars
  BY <1>6 DEF vars, IInv, CallInv, KeyInv, Burned, Traceable, Unsent, Ticketed
<1> QED BY <1>1, <1>2, <1>3, <1>4, <1>5, <1>6 DEF Next

LEMMA InitInv == Init => IInv
  BY DEF Init, NoRecord, IInv, CallInv, KeyInv, Burned, Traceable, Unsent, Ticketed

THEOREM Invariance == ASSUME Production PROVE Spec => [](TypeOK /\ IInv)
<1>1. Init => TypeOK /\ IInv BY InitType, InitInv
<1>2. TypeOK /\ IInv /\ [Next]_vars => TypeOK' /\ IInv'
  BY NextType, NextInv
<1> QED BY <1>1, <1>2, PTL DEF Spec

\* No idempotency key is ever dispatched twice, whatever replies are lost,
\* writes fail or restarts happen.
THEOREM AtMostOnceHolds == ASSUME Production PROVE Spec => []AtMostOnce
<1>1. IInv => AtMostOnce BY DEF IInv, KeyInv, AtMostOnce
<1> QED BY <1>1, Invariance, PTL

\* Whatever a restart loads names every order the broker accepted.
THEOREM NoLostOrderHolds == ASSUME Production PROVE Spec => []NoLostOrder
<1>1. IInv => NoLostOrder BY DEF IInv, KeyInv, NoLostOrder
<1> QED BY <1>1, Invariance, PTL

-----------------------------------------------------------------------------
\* A step that changes the durable record of at most one key, and never
\* un-burns it, reserves that key or leaves the abstract state alone.
LEMMA ReserveStep ==
  ASSUME NEW k \in Keys, landed' = landed,
         \A j \in Keys \ {k} : file'[j] = file[j],
         Burned(file[k]) => Burned(file[k])'
  PROVE  [Intent!AbsNext]_(Intent!absVars)
<1> DEFINE R == {j \in Keys : Burned(file[j])}
<1>1. CASE Burned(file[k])'
  <2>1. R' = R \cup {k} BY <1>1 DEF Burned
  <2>2. Intent!Reserve(k) BY <2>1 DEF Intent!Reserve
  <2> QED BY <2>2 DEF Intent!AbsNext
<1>2. CASE ~Burned(file[k])'
  <2>1. R' = R BY <1>2 DEF Burned
  <2> QED BY <2>1 DEF Intent!absVars
<1> QED BY <1>1, <1>2

\* A ledger write is such a step, unless it writes a fresh intent over a
\* burned record.
LEMMA WriteRefines ==
  ASSUME TypeOK, NEW k \in Keys, NEW st \in OrderState, landed' = landed,
         NEW tk \in Tickets \cup {NoTicket}, NEW outcome \in AppendOutcomes,
         SetOrder(k, st, tk, outcome),
         st # "INTENT_CREATED" \/ ~Burned(file[k])
  PROVE  [Intent!AbsNext]_(Intent!absVars)
<1>1. /\ cache'[k].st = st /\ (file'[k] = cache'[k] \/ file'[k] = file[k])
      /\ \A j \in Keys \ {k} : file'[j] = file[j]
  BY SetOrderEffect
<1>2. Burned(file[k]) => Burned(file[k])' BY <1>1 DEF Burned, OrderState
<1> QED BY <1>1, <1>2, ReserveStep

LEMMA QuietRefines ==
  ASSUME UNCHANGED <<file, landed>>
  PROVE  [Intent!AbsNext]_(Intent!absVars)
<1> DEFINE R == {j \in Keys : Burned(file[j])}
<1>1. R' = R BY DEF Burned
<1> QED BY <1>1 DEF Intent!absVars

\* Every step of a call maps to a reservation, a dispatch or a stutter.
LEMMA StepRefines ==
  ASSUME Production, TypeOK, IInv, NEW t \in Threads, Step(t)
  PROVE  [Intent!AbsNext]_(Intent!absVars)
<1> USE DEF brokerVars, storeVars, At
<1> PICK k \in Keys : k = cur[t] BY DEF TypeOK
<1>k. CallInv(t) /\ landed[k] \in Nat BY DEF IInv, TypeOK
<1>n. ticket[t] \in Tickets \cup {NoTicket} /\ NoTicket \in Tickets \cup {NoTicket}
  BY DEF TypeOK
<1>1. CASE \/ CheckDuplicate(t) \/ RecordPending(t) \/ ConfirmExecution(t)
           \/ FinishSuccess(t) \/ BackOff(t) \/ GiveUp(t)
  BY <1>1, QuietRefines
     DEF CheckDuplicate, RecordPending, ConfirmExecution, FinishSuccess, BackOff, GiveUp
<1>2. CASE PersistIntent(t)
  <2>1. ~Burned(file[k]) /\ landed' = landed
    BY <1>2, <1>k DEF PersistIntent, CallInv
  <2> QED BY <1>2, <1>n, <2>1, WriteRefines DEF PersistIntent, OrderState
<1>3. CASE ValidateOrder(t)
  BY <1>3, <1>n, WriteRefines, QuietRefines DEF ValidateOrder, OrderState
<1>4. CASE PersistApproved(t)
  BY <1>4, <1>n, WriteRefines DEF PersistApproved, OrderState
<1>5. CASE PersistSubmitting(t)
  BY <1>5, <1>n, WriteRefines DEF PersistSubmitting, OrderState
<1>6. CASE SendToMt5(t)
  <2>1. landed[k] = 0 /\ Burned(file[k]) /\ file' = file
    BY <1>6, <1>k DEF SendToMt5, CallInv, Unsent, Burned
  <2>2. landed' = landed \/ landed' = [landed EXCEPT ![k] = @ + 1]
    BY <1>6 DEF SendToMt5
  <2>3. CASE landed' = landed BY <2>1, <2>3, QuietRefines
  <2>4. CASE landed' = [landed EXCEPT ![k] = @ + 1]
    <3> DEFINE R == {j \in Keys : Burned(file[j])}
    <3>1. landed' = [landed EXCEPT ![k] = 1] BY <2>1, <2>4 DEF TypeOK
    <3>2. k \in R /\ R' = R BY <2>1 DEF Burned
    <3>3. Intent!Dispatch(k) BY <2>1, <3>1, <3>2 DEF Intent!Dispatch
    <3> QED BY <3>3 DEF Intent!AbsNext
  <2> QED BY <2>2, <2>3, <2>4
<1>7. CASE PersistSubmitted(t)
  BY <1>7, <1>n, WriteRefines DEF PersistSubmitted, OrderState
<1>8. CASE PersistAcknowledged(t)
  BY <1>8, <1>n, WriteRefines DEF PersistAcknowledged, OrderState
<1>9. CASE PersistFilled(t)
  BY <1>9, <1>n, WriteRefines DEF PersistFilled, OrderState
<1>10. CASE PersistConfirmed(t)
  BY <1>10, <1>n, WriteRefines DEF PersistConfirmed, OrderState
<1>11. CASE AdoptLostResponse(t)
  <2>1. PICK p \in Located(cur[t]), outcome \in AppendOutcomes :
          SetOrder(k, "POSITION_CONFIRMED", p, outcome)
    BY <1>11 DEF AdoptLostResponse
  <2>2. p \in Tickets /\ landed' = landed
    BY <1>11, <2>1 DEF AdoptLostResponse, Located, TypeOK
  <2> QED BY <2>1, <2>2, WriteRefines DEF OrderState
<1>12. CASE MarkUnknown(t)
  BY <1>12, <1>n, WriteRefines DEF MarkUnknown, OrderState
<1>13. CASE PersistRetry(t)
  BY <1>13, <1>n, WriteRefines DEF PersistRetry, OrderState
<1> QED
  BY <1>1, <1>2, <1>3, <1>4, <1>5, <1>6, <1>7, <1>8, <1>9, <1>10, <1>11, <1>12,
     <1>13 DEF Step

LEMMA NextRefines ==
  ASSUME Production, TypeOK, IInv, [Next]_vars
  PROVE  [Intent!AbsNext]_(Intent!absVars)
<1> USE DEF brokerVars, storeVars
<1>1. ASSUME NEW t \in Threads, Step(t)
      PROVE  [Intent!AbsNext]_(Intent!absVars)
  BY <1>1, StepRefines
<1>2. ASSUME NEW t \in Threads, NEW k \in Keys, NEW approved \in BOOLEAN,
             Call(t, k, approved)
      PROVE  [Intent!AbsNext]_(Intent!absVars)
  BY <1>2, WriteRefines, QuietRefines DEF Call, OrderState
<1>3. CASE BrokerClose BY <1>3, QuietRefines DEF BrokerClose
<1>4. ASSUME NEW k \in Keys, MarkClosed(k)
      PROVE  [Intent!AbsNext]_(Intent!absVars)
  <2>1. /\ cache'[k].st = "CLOSED" /\ landed' = landed
        /\ file'[k] = cache'[k] \/ file'[k] = file[k]
        /\ \A j \in Keys \ {k} : file'[j] = file[j]
    BY <1>4 DEF MarkClosed, AppendLine, TypeOK
  <2>2. Burned(file[k]) => Burned(file[k])' BY <2>1 DEF Burned
  <2> QED BY <2>1, <2>2, ReserveStep
<1>5. CASE Crash BY <1>5, QuietRefines DEF Crash
<1>6. CASE UNCHANGED vars BY <1>6, QuietRefines DEF vars
<1> QED BY <1>1, <1>2, <1>3, <1>4, <1>5, <1>6 DEF Next

\* execute_order over the durable ledger implements the at-most-once promise.
THEOREM Refinement == ASSUME Production PROVE Spec => ImplementsAtMostOnce
<1>1. Init => Intent!AbsInit
  <2> SUFFICES ASSUME Init PROVE Intent!AbsInit OBVIOUS
  <2>1. {k \in Keys : Burned(file[k])} = {} BY DEF Init, NoRecord, Burned
  <2> QED BY <2>1 DEF Init, Intent!AbsInit
<1>2. TypeOK /\ IInv /\ [Next]_vars => [Intent!AbsNext]_(Intent!absVars)
  BY NextRefines
<1> QED BY <1>1, <1>2, Invariance, PTL DEF Spec, ImplementsAtMostOnce, Intent!AbsSpec

-----------------------------------------------------------------------------
(* A reported success is a real one.  Nothing here needs Production: the   *)
(* argument follows the tickets, and holds for keys with many submitters   *)
(* and for stores that need not be durable.                                *)

\* A lookup by symbol, volume and magic finds nobody else's position, if it is
\* asked at all.
LocatorExact == HasLocator => \A j, k \in Keys : Shape[j] = Shape[k] => j = k

\* The tickets the broker has issued for a key, and the values a field that
\* holds one may have.
Issued(k) == {<<k, n>> : n \in 1..landed[k]}
MaybeIssued(k) == Issued(k) \cup {NoTicket}

\* A call's ticket was issued for its key; once it has been written, the
\* ledger names a ticket too.
CallReal(t) ==
  /\ ticket[t] \in MaybeIssued(cur[t])
  /\ pc[t] = "idle" => ticket[t] = NoTicket
  /\ pc[t] \in Ticketed \cup {"submitted"} => ticket[t] # NoTicket
  /\ pc[t] \in Ticketed => ledger[cur[t]].tk # NoTicket

\* Every copy of a key's record names a ticket issued for it or none, and a
\* success leaves one in the ledger.
KeyReal(k) ==
  /\ ledger[k].tk \in MaybeIssued(k)
  /\ cache[k].tk \in MaybeIssued(k)
  /\ file[k].tk \in MaybeIssued(k)
  /\ completed[k] = "success" => ledger[k].tk # NoTicket

RealInv ==
  /\ \A t \in Threads : CallReal(t)
  /\ \A k \in Keys : KeyReal(k)
  /\ \A p \in positions : p \in Issued(p[1])

\* What a step may do to the ledger and the broker without disturbing a call
\* that does not move: issue tickets, and fill in the ticket of a record.
Grows ==
  /\ \A k \in Keys : Issued(k) \subseteq Issued(k)'
  /\ \A k \in Keys : ledger[k].tk # NoTicket => ledger'[k].tk # NoTicket

LEMMA StillReal ==
  ASSUME TypeOK, NEW u \in Threads, CallReal(u), Grows,
         pc'[u] = pc[u], cur'[u] = cur[u], ticket'[u] = ticket[u]
  PROVE  CallReal(u)'
<1>1. cur[u] \in Keys BY DEF TypeOK
<1> QED BY <1>1 DEF CallReal, Grows, MaybeIssued

\* A write to the ledger with a ticket of the key, or with none, keeps every
\* record real; a ticket that is there stays, one that is given arrives.
LEMMA WriteReal ==
  ASSUME TypeOK, RealInv, NEW k \in Keys, NEW st \in OrderState,
         NEW tk \in MaybeIssued(k), tk \in Tickets \cup {NoTicket},
         NEW outcome \in AppendOutcomes,
         SetOrder(k, st, tk, outcome), landed' = landed,
         \A j \in Keys : completed'[j] = "success" =>
           completed[j] = "success" \/ (j = k /\ (ledger[k].tk # NoTicket \/ tk # NoTicket))
  PROVE  /\ Grows
         /\ \A j \in Keys : KeyReal(j)'
         /\ ledger[k].tk # NoTicket \/ tk # NoTicket => ledger'[k].tk # NoTicket
<1>1. /\ ledger'[k].tk = IF tk = NoTicket THEN ledger[k].tk ELSE tk
      /\ cache'[k].tk = IF tk = NoTicket THEN cache[k].tk ELSE tk
      /\ \A j \in Keys \ {k} : ledger'[j] = ledger[j] /\ cache'[j] = cache[j]
  BY DEF SetOrder, Updated, TypeOK
<1>2. /\ file'[k] = cache'[k] \/ file'[k] = file[k]
      /\ \A j \in Keys \ {k} : file'[j] = file[j]
  BY SetOrderEffect
<1>3. \A j \in Keys : MaybeIssued(j)' = MaybeIssued(j) /\ Issued(j)' = Issued(j)
  BY DEF MaybeIssued, Issued
<1>4. Grows BY <1>1, <1>3 DEF Grows
<1>5. KeyReal(k)'
  <2>1. KeyReal(k) BY DEF RealInv
  <2> QED BY <1>1, <1>2, <1>3, <2>1 DEF KeyReal
<1>6. ASSUME NEW j \in Keys \ {k} PROVE KeyReal(j)'
  <2>1. KeyReal(j) BY DEF RealInv
  <2> QED BY <1>1, <1>2, <1>3, <2>1 DEF KeyReal
<1> QED BY <1>1, <1>4, <1>5, <1>6

\* A step of thread t is checked at t, at the records and at the book.
LEMMA RealStep ==
  ASSUME TypeOK, RealInv, NEW t \in Threads, Grows,
         \A u \in Threads \ {t} :
           pc'[u] = pc[u] /\ cur'[u] = cur[u] /\ ticket'[u] = ticket[u],
         CallReal(t)', \A k \in Keys : KeyReal(k)',
         positions' = positions
  PROVE  RealInv'
<1>1. ASSUME NEW u \in Threads \ {t} PROVE CallReal(u)'
  BY <1>1, StillReal DEF RealInv
<1>2. ASSUME NEW p \in positions PROVE p \in Issued(p[1])'
  <2>1. p[1] \in Keys BY DEF TypeOK, Tickets
  <2> QED BY <2>1 DEF RealInv, Grows
<1> QED BY <1>1, <1>2 DEF RealInv

\* The locals after a return, and after a step that keeps them.
LEMMA ReturnReal == ASSUME TypeOK, NEW t \in Threads, Return(t) PROVE CallReal(t)'
  BY DEF CallReal, Return, Goto, TypeOK, Ticketed, MaybeIssued

LEMMA ProceedReal ==
  ASSUME TypeOK, NEW t \in Threads, CallReal(t), Grows,
         NEW step \in Steps, Proceed(t, step), step # "idle",
         step \in Ticketed \cup {"submitted"} => ticket[t] # NoTicket,
         step \in Ticketed => ledger'[cur[t]].tk # NoTicket
  PROVE  CallReal(t)'
<1>1. cur[t] \in Keys /\ pc'[t] = step /\ cur'[t] = cur[t] /\ ticket'[t] = ticket[t]
  BY DEF TypeOK, Proceed, Goto
<1> QED BY <1>1 DEF CallReal, Grows, MaybeIssued

LEMMA QuietReal ==
  ASSUME TypeOK, RealInv, UNCHANGED <<storeVars, landed>>,
         \A j \in Keys : completed'[j] = "success" =>
           completed[j] = "success" \/ ledger[j].tk # NoTicket
  PROVE  Grows /\ \A k \in Keys : KeyReal(k)'
<1>1. \A j \in Keys : MaybeIssued(j)' = MaybeIssued(j) /\ Issued(j)' = Issued(j)
  BY DEF MaybeIssued, Issued
<1>2. UNCHANGED <<ledger, cache, file>> BY DEF storeVars
<1>3. Grows BY <1>1, <1>2 DEF Grows
<1>4. ASSUME NEW k \in Keys PROVE KeyReal(k)'
  <2>1. KeyReal(k) BY DEF RealInv
  <2> QED BY <1>1, <1>2, <2>1 DEF KeyReal
<1> QED BY <1>3, <1>4

\* The broker issues the next ticket of a key.
LEMMA SendReal ==
  ASSUME TypeOK, RealInv, NEW t \in Threads, SendToMt5(t)
  PROVE  RealInv'
<1> USE DEF storeVars, registryVars
<1> PICK k \in Keys : k = cur[t] BY DEF TypeOK
<1> DEFINE tk == <<k, landed[k] + 1>>
<1>1. PICK r \in Replies, lands \in BOOLEAN :
        /\ r = "done" => lands
        /\ ticket' = [ticket EXCEPT ![t] = IF r = "done" THEN tk ELSE NoTicket]
        /\ landed' = IF lands THEN [landed EXCEPT ![k] = @ + 1] ELSE landed
        /\ positions' = IF lands /\ NativeMT5 THEN positions \cup {tk} ELSE positions
        /\ Goto(t, IF r = "done" THEN "submitted" ELSE "failed")
  BY DEF SendToMt5, Replies
<1>2. UNCHANGED <<cur, completed, ledger, cache, file>> BY DEF SendToMt5
<1>3. \A j \in Keys : landed[j] \in Nat /\ landed'[j] \in Nat /\ landed[j] <= landed'[j]
  BY <1>1 DEF TypeOK
<1>4. \A j \in Keys : Issued(j) \subseteq Issued(j)' /\ MaybeIssued(j) \subseteq MaybeIssued(j)'
  BY <1>3 DEF Issued, MaybeIssued
<1>5. Grows BY <1>2, <1>4 DEF Grows
<1>6. lands => tk \in Issued(k)'
  <2>1. lands => landed'[k] = landed[k] + 1 BY <1>1 DEF TypeOK
  <2> QED BY <1>3, <2>1 DEF Issued
<1>7. tk # NoTicket BY <1>3, ExecutionAssumption DEF Tickets
<1>8. ASSUME NEW u \in Threads \ {t} PROVE CallReal(u)'
  <2>1. pc'[u] = pc[u] /\ cur'[u] = cur[u] /\ ticket'[u] = ticket[u]
    BY <1>1, <1>2 DEF Goto, TypeOK
  <2> QED BY <1>5, <2>1, StillReal DEF RealInv
<1>9. CallReal(t)'
  <2>1. /\ pc'[t] = IF r = "done" THEN "submitted" ELSE "failed"
        /\ ticket'[t] = IF r = "done" THEN tk ELSE NoTicket
        /\ cur'[t] = k
    BY <1>1, <1>2 DEF Goto, TypeOK
  <2> HIDE DEF tk
  <2>2. ticket'[t] \in MaybeIssued(k)' BY <1>1, <1>6, <2>1 DEF MaybeIssued
  <2> QED BY <1>7, <2>1, <2>2 DEF CallReal, Ticketed
<1>10. ASSUME NEW j \in Keys PROVE KeyReal(j)'
  <2>1. KeyReal(j) BY DEF RealInv
  <2> QED BY <1>2, <1>4, <2>1 DEF KeyReal
<1>11. ASSUME NEW p \in positions' PROVE p \in Issued(p[1])'
  <2>1. CASE p \in positions
    <3>1. p[1] \in Keys BY <2>1 DEF TypeOK, Tickets
    <3> QED BY <1>4, <2>1, <3>1 DEF RealInv
  <2>2. CASE lands /\ p = tk
    <3>1. p[1] = k BY <2>2
    <3> HIDE DEF tk
    <3> QED BY <1>6, <2>2, <3>1
  <2> QED BY <1>1, <2>1, <2>2
<1> QED BY <1>8, <1>9, <1>10, <1>11 DEF RealInv

\* Every step of a call keeps the tickets real.
LEMMA StepReal ==
  ASSUME LocatorExact, TypeOK, RealInv, NEW t \in Threads, Step(t)
  PROVE  RealInv'
<1> USE DEF brokerVars, registryVars, At
<1> PICK k \in Keys : k = cur[t] BY DEF TypeOK
<1>k. CallReal(t) /\ KeyReal(k) BY DEF RealInv
<1>n. /\ ticket[t] \in Tickets \cup {NoTicket} /\ NoTicket \in Tickets \cup {NoTicket}
      /\ ticket[t] \in MaybeIssued(k) /\ NoTicket \in MaybeIssued(k)
  BY <1>k DEF TypeOK, CallReal, MaybeIssued
<1>1. CASE CheckDuplicate(t) \/ RecordPending(t) \/ ConfirmExecution(t)
  <2>1. UNCHANGED <<storeVars, landed, positions, completed>>
    BY <1>1 DEF CheckDuplicate, RecordPending, ConfirmExecution
  <2>2. Grows /\ \A j \in Keys : KeyReal(j)' BY <2>1, QuietReal
  <2>3. \/ Return(t) \/ Proceed(t, "intent") \/ Proceed(t, "send")
        \/ pc[t] = "confirm" /\ (Proceed(t, "filled") \/ Proceed(t, "finish"))
    BY <1>1 DEF CheckDuplicate, RecordPending, ConfirmExecution
  <2>4. pc[t] = "confirm" => ticket[t] # NoTicket /\ ledger'[k].tk # NoTicket
    BY <1>k, <2>1 DEF CallReal, Ticketed, storeVars
  <2>5. CallReal(t)'
    BY <1>k, <2>2, <2>3, <2>4, ReturnReal, ProceedReal DEF Steps, Ticketed
  <2> QED BY <2>1, <2>2, <2>3, <2>5, OthersStill, RealStep DEF Steps
<1>2. CASE PersistIntent(t)
  <2>1. PICK outcome \in AppendOutcomes :
          SetOrder(k, "INTENT_CREATED", NoTicket, outcome)
    BY <1>2 DEF PersistIntent
  <2>2. UNCHANGED <<landed, positions, completed>> /\ (Return(t) \/ Proceed(t, "validate"))
    BY <1>2 DEF PersistIntent
  <2>3. Grows /\ \A j \in Keys : KeyReal(j)'
    BY <1>n, <2>1, <2>2, WriteReal DEF OrderState
  <2>4. CallReal(t)' BY <1>k, <2>2, <2>3, ReturnReal, ProceedReal DEF Steps, Ticketed
  <2> QED BY <2>2, <2>3, <2>4, OthersStill, RealStep DEF Steps
<1>3. CASE ValidateOrder(t)
  <2>1. UNCHANGED <<landed, positions, completed>> BY <1>3 DEF ValidateOrder
  <2>2. CASE Proceed(t, "approve") /\ UNCHANGED storeVars
    <3>1. Grows /\ \A j \in Keys : KeyReal(j)' BY <2>1, <2>2, QuietReal
    <3>2. CallReal(t)' BY <1>k, <2>2, <3>1, ProceedReal DEF Steps, Ticketed
    <3> QED BY <2>1, <2>2, <3>1, <3>2, OthersStill, RealStep DEF Steps
  <2>3. ASSUME NEW outcome \in AppendOutcomes, Return(t),
               SetOrder(k, "UNKNOWN", NoTicket, outcome)
        PROVE  RealInv'
    <3>1. Grows /\ \A j \in Keys : KeyReal(j)'
      BY <1>n, <2>1, <2>3, WriteReal DEF OrderState
    <3> QED BY <2>1, <2>3, <3>1, ReturnReal, OthersStill, RealStep
  <2> QED BY <1>3, <2>2, <2>3 DEF ValidateOrder
<1>4. CASE PersistApproved(t) \/ PersistSubmitting(t)
  <2>1. PICK st \in {"RISK_APPROVED", "SUBMITTING"}, outcome \in AppendOutcomes :
          SetOrder(k, st, NoTicket, outcome)
    BY <1>4 DEF PersistApproved, PersistSubmitting
  <2>2. /\ UNCHANGED <<landed, positions, completed>>
        /\ Return(t) \/ Proceed(t, "submit") \/ Proceed(t, "pending")
    BY <1>4 DEF PersistApproved, PersistSubmitting
  <2>3. Grows /\ \A j \in Keys : KeyReal(j)'
    BY <1>n, <2>1, <2>2, WriteReal DEF OrderState
  <2>4. CallReal(t)' BY <1>k, <2>2, <2>3, ReturnReal, ProceedReal DEF Steps, Ticketed
  <2> QED BY <2>2, <2>3, <2>4, OthersStill, RealStep DEF Steps
<1>5. CASE SendToMt5(t)
  BY <1>5, SendReal
<1>6. CASE \/ PersistSubmitted(t) \/ PersistAcknowledged(t)
           \/ PersistFilled(t) \/ PersistConfirmed(t)
  <2>1. PICK st \in {"SUBMITTED", "ACKNOWLEDGED", "FILLED", "POSITION_CONFIRMED"},
             tk \in {ticket[t], NoTicket}, outcome \in AppendOutcomes :
          /\ SetOrder(k, st, tk, outcome)
          /\ pc[t] = "submitted" => tk = ticket[t]
    BY <1>6 DEF PersistSubmitted, PersistAcknowledged, PersistFilled, PersistConfirmed
  <2>2. /\ UNCHANGED <<landed, positions, completed>>
        /\ pc[t] \in Ticketed \cup {"submitted"}
    BY <1>6 DEF PersistSubmitted, PersistAcknowledged, PersistFilled, PersistConfirmed,
                Ticketed
  <2>3. PICK step \in Ticketed : Proceed(t, step)
    BY <1>6 DEF PersistSubmitted, PersistAcknowledged, PersistFilled, PersistConfirmed,
                Ticketed
  <2>4. ticket[t] # NoTicket /\ (ledger[k].tk # NoTicket \/ tk # NoTicket)
    BY <1>k, <2>1, <2>2 DEF CallReal
  <2>5. /\ Grows /\ \A j \in Keys : KeyReal(j)'
        /\ ledger'[k].tk # NoTicket
    BY <1>n, <2>1, <2>2, <2>4, WriteReal DEF OrderState
  <2>6. step \in Steps /\ step # "idle" BY DEF Ticketed, Steps
  <2>7. CallReal(t)' BY <1>k, <2>3, <2>4, <2>5, <2>6, ProceedReal
  <2> QED BY <2>2, <2>3, <2>5, <2>6, <2>7, OthersStill, RealStep
<1>7. CASE FinishSuccess(t)
  <2>1. /\ UNCHANGED <<storeVars, landed, positions>> /\ ledger[k].tk # NoTicket
        /\ ticket[t] # NoTicket
    BY <1>7, <1>k DEF FinishSuccess, CallReal, Ticketed
  <2>2. \A j \in Keys : completed'[j] = "success" => completed[j] = "success" \/ j = k
    BY <1>7 DEF FinishSuccess, TypeOK
  <2>3. Grows /\ \A j \in Keys : KeyReal(j)' BY <2>1, <2>2, QuietReal
  <2>4. CASE Return(t)
    BY <2>1, <2>3, <2>4, ReturnReal, OthersStill, RealStep
  <2>5. CASE Goto(t, "failed") /\ UNCHANGED <<cur, ticket>>
    <3>1. CallReal(t)'
      BY <1>k, <2>1, <2>3, <2>5 DEF CallReal, Goto, TypeOK, Ticketed, Grows, MaybeIssued
    <3>2. \A u \in Threads \ {t} :
            pc'[u] = pc[u] /\ cur'[u] = cur[u] /\ ticket'[u] = ticket[u]
      BY <2>5 DEF Goto, TypeOK
    <3> QED BY <2>1, <2>3, <3>1, <3>2, RealStep
  <2> QED BY <1>7, <2>4, <2>5 DEF FinishSuccess
<1>8. CASE AdoptLostResponse(t)
  <2>1. PICK p \in Located(k), outcome \in AppendOutcomes :
          SetOrder(k, "POSITION_CONFIRMED", p, outcome)
    BY <1>8 DEF AdoptLostResponse
  <2>2. p \in Tickets /\ p # NoTicket /\ p \in positions /\ p[1] = k
    BY <2>1, ExecutionAssumption DEF Located, TypeOK, LocatorExact, Tickets
  <2>3. p \in MaybeIssued(k) BY <2>2 DEF RealInv, MaybeIssued
  <2>4. /\ UNCHANGED <<landed, positions>> /\ Return(t)
        /\ \A j \in Keys : completed'[j] = "success" => completed[j] = "success" \/ j = k
    BY <1>8 DEF AdoptLostResponse, TypeOK
  <2>5. Grows /\ \A j \in Keys : KeyReal(j)'
    BY <2>1, <2>2, <2>3, <2>4, WriteReal DEF OrderState
  <2> QED BY <2>4, <2>5, ReturnReal, OthersStill, RealStep
<1>9. CASE MarkUnknown(t)
  <2>1. PICK outcome \in AppendOutcomes : SetOrder(k, "UNKNOWN", NoTicket, outcome)
    BY <1>9 DEF MarkUnknown
  <2>2. /\ UNCHANGED <<landed, positions>> /\ Return(t)
        /\ \A j \in Keys : completed'[j] = "success" => completed[j] = "success"
    BY <1>9 DEF MarkUnknown, TypeOK
  <2>3. Grows /\ \A j \in Keys : KeyReal(j)'
    BY <1>n, <2>1, <2>2, WriteReal DEF OrderState
  <2> QED BY <2>2, <2>3, ReturnReal, OthersStill, RealStep
<1>10. CASE BackOff(t)
  <2>1. /\ UNCHANGED <<storeVars, landed, positions, completed, cur, ticket>>
        /\ \E step \in {"retry", "send"} : Goto(t, step)
    BY <1>10 DEF BackOff
  <2>2. Grows /\ \A j \in Keys : KeyReal(j)' BY <2>1, QuietReal
  <2>3. CallReal(t)'
    BY <1>k, <2>1, <2>2 DEF CallReal, Goto, TypeOK, Ticketed, Grows, MaybeIssued
  <2>4. \A u \in Threads \ {t} :
          pc'[u] = pc[u] /\ cur'[u] = cur[u] /\ ticket'[u] = ticket[u]
    BY <2>1 DEF Goto, TypeOK
  <2> QED BY <2>1, <2>2, <2>3, <2>4, RealStep
<1>11. CASE PersistRetry(t)
  <2>1. PICK outcome \in AppendOutcomes : SetOrder(k, "SUBMITTING", NoTicket, outcome)
    BY <1>11 DEF PersistRetry
  <2>2. UNCHANGED <<landed, positions, completed>> /\ (Return(t) \/ Proceed(t, "send"))
    BY <1>11 DEF PersistRetry
  <2>3. Grows /\ \A j \in Keys : KeyReal(j)'
    BY <1>n, <2>1, <2>2, WriteReal DEF OrderState
  <2>4. CallReal(t)' BY <1>k, <2>2, <2>3, ReturnReal, ProceedReal DEF Steps, Ticketed
  <2> QED BY <2>2, <2>3, <2>4, OthersStill, RealStep DEF Steps
<1>12. CASE GiveUp(t)
  <2>1. /\ UNCHANGED <<storeVars, landed, positions>> /\ Return(t)
        /\ \A j \in Keys : completed'[j] = "success" => completed[j] = "success"
    BY <1>12 DEF GiveUp, TypeOK
  <2>2. Grows /\ \A j \in Keys : KeyReal(j)' BY <2>1, QuietReal
  <2> QED BY <2>1, <2>2, ReturnReal, OthersStill, RealStep
<1> QED
  BY <1>1, <1>2, <1>3, <1>4, <1>5, <1>6, <1>7, <1>8, <1>9, <1>10, <1>11, <1>12 DEF Step

LEMMA NextReal ==
  ASSUME LocatorExact, TypeOK, RealInv, [Next]_vars
  PROVE  RealInv'
<1> USE DEF callVars, brokerVars, registryVars
<1>1. ASSUME NEW t \in Threads, Step(t) PROVE RealInv'
  BY <1>1, StepReal
<1>2. ASSUME NEW t \in Threads, NEW k \in Keys, NEW approved \in BOOLEAN,
             Call(t, k, approved)
      PROVE  RealInv'
  <2>1. /\ UNCHANGED <<landed, positions, completed, reply, ticket>>
        /\ pc[t] = "idle" /\ CallReal(t)
    BY <1>2 DEF Call, At, RealInv
  <2>2. CASE UNCHANGED <<callVars, storeVars>>
    <3>1. Grows /\ \A j \in Keys : KeyReal(j)' BY <2>1, <2>2, QuietReal
    <3>2. CallReal(t)' BY <2>2, <3>1, StillReal, <2>1
    <3> QED BY <2>1, <2>2, <3>1, <3>2, RealStep
  <2>3. ASSUME NEW outcome \in AppendOutcomes, UNCHANGED callVars,
               SetOrder(k, "UNKNOWN", NoTicket, outcome)
        PROVE  RealInv'
    <3>1. NoTicket \in MaybeIssued(k) /\ NoTicket \in Tickets \cup {NoTicket}
      BY DEF MaybeIssued
    <3>2. Grows /\ \A j \in Keys : KeyReal(j)'
      BY <2>1, <2>3, <3>1, WriteReal DEF OrderState
    <3>3. CallReal(t)' BY <2>1, <2>3, <3>2, StillReal
    <3> QED BY <2>1, <2>3, <3>2, <3>3, RealStep
  <2>4. CASE /\ Goto(t, "duplicate") /\ cur' = [cur EXCEPT ![t] = k]
             /\ UNCHANGED storeVars
    <3>1. Grows /\ \A j \in Keys : KeyReal(j)' BY <2>1, <2>4, QuietReal
    <3>2. CallReal(t)'
      BY <2>1, <2>4 DEF CallReal, Goto, TypeOK, Ticketed, MaybeIssued
    <3>3. \A u \in Threads \ {t} :
            pc'[u] = pc[u] /\ cur'[u] = cur[u] /\ ticket'[u] = ticket[u]
      BY <2>1, <2>4 DEF Goto, TypeOK
    <3> QED BY <2>1, <3>1, <3>2, <3>3, RealStep
  <2> QED BY <1>2, <2>2, <2>3, <2>4 DEF Call
<1>3. CASE BrokerClose
  <2>1. /\ UNCHANGED <<callVars, storeVars, landed, completed>>
        /\ positions' \subseteq positions
    BY <1>3 DEF BrokerClose
  <2>2. Grows /\ \A k \in Keys : KeyReal(k)' BY <2>1, QuietReal
  <2>3. \A u \in Threads : CallReal(u)' BY <2>1, <2>2, StillReal DEF RealInv
  <2>4. \A p \in positions' : p \in Issued(p[1])'
    BY <2>1 DEF RealInv, Issued
  <2> QED BY <2>2, <2>3, <2>4 DEF RealInv
<1>4. ASSUME NEW k \in Keys, MarkClosed(k) PROVE RealInv'
  <2>1. UNCHANGED <<callVars, completed, ledger, landed, positions>>
    BY <1>4 DEF MarkClosed
  <2>2. /\ cache'[k].tk = cache[k].tk
        /\ \A j \in Keys \ {k} : cache'[j] = cache[j]
        /\ file'[k] = cache'[k] \/ file'[k] = file[k]
        /\ \A j \in Keys \ {k} : file'[j] = file[j]
    BY <1>4 DEF MarkClosed, AppendLine, TypeOK
  <2>3. \A j \in Keys : MaybeIssued(j)' = MaybeIssued(j) /\ Issued(j)' = Issued(j)
    BY <2>1 DEF MaybeIssued, Issued
  <2>4. ASSUME NEW j \in Keys PROVE KeyReal(j)'
    BY <2>1, <2>2, <2>3 DEF RealInv, KeyReal
  <2>5. Grows BY <2>1, <2>3 DEF Grows
  <2>6. \A u \in Threads : CallReal(u)' BY <2>1, <2>5, StillReal DEF RealInv
  <2>7. \A p \in positions' : p \in Issued(p[1])'
    BY <2>1 DEF RealInv, Issued
  <2> QED BY <2>4, <2>6, <2>7 DEF RealInv
<1>5. CASE Crash
  <2>1. /\ UNCHANGED <<landed, positions, file>> /\ ledger' = file /\ cache' = file
        /\ completed' = [k \in Keys |-> "none"]
        /\ pc' = [t \in Threads |-> "idle"] /\ ticket' = [t \in Threads |-> NoTicket]
    BY <1>5 DEF Crash
  <2>2. \A t \in Threads : CallReal(t)' BY <2>1 DEF CallReal, MaybeIssued, Ticketed
  <2>3. \A k \in Keys : KeyReal(k)'
    BY <2>1 DEF RealInv, KeyReal, MaybeIssued, Issued
  <2>4. \A p \in positions' : p \in Issued(p[1])' BY <2>1 DEF RealInv, Issued
  <2> QED BY <2>2, <2>3, <2>4 DEF RealInv
<1>6. CASE UNCHANGED vars
  BY <1>6 DEF vars, storeVars, RealInv, CallReal, KeyReal, MaybeIssued, Issued
<1> QED BY <1>1, <1>2, <1>3, <1>4, <1>5, <1>6 DEF Next

\* A success the engine reports names an order the broker accepted for that
\* key, for any number of submitters of a key, durable or not.
THEOREM SuccessIsRealHolds == ASSUME LocatorExact PROVE Spec => []SuccessIsReal
<1>1. Init => RealInv
  BY DEF Init, RealInv, CallReal, KeyReal, MaybeIssued, Issued, NoRecord, Ticketed
<1>2. TypeOK /\ RealInv /\ [Next]_vars => RealInv'
  BY NextReal
<1>3. TypeOK /\ RealInv => SuccessIsReal
  <2> SUFFICES ASSUME TypeOK, RealInv, NEW k \in Keys, completed[k] = "success"
               PROVE  landed[k] > 0 /\ ledger[k].tk \in {<<k, n>> : n \in 1..landed[k]}
    BY DEF SuccessIsReal
  <2>1. ledger[k].tk \in Issued(k) BY DEF RealInv, KeyReal, MaybeIssued
  <2>2. landed[k] \in Nat BY DEF TypeOK
  <2> QED BY <2>1, <2>2 DEF Issued
<1> QED BY <1>1, <1>2, <1>3, TypeCorrect, PTL DEF Spec
=============================================================================
