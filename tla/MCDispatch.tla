----------------------------- MODULE MCDispatch -----------------------------
(***************************************************************************)
(* The two ways an order leaves: through the engine with its ledger, and   *)
(* through the fan-out of a signal to the armed accounts.  Each behaviour  *)
(* explores one (focus) while the other rests.                             *)
(***************************************************************************)
EXTENDS OrderExecution, FanOut, TLC

CONSTANTS t1, t2, k1, k2

\* Every cycle builds its order with a fresh key: no key has two submitters.
OwnKeys == (t1 :> {k1}) @@ (t2 :> {k2})

DistinctShapes == [k \in Keys |-> k]

VARIABLE focus

dispatchVars == <<focus, vars, fanVars>>

DispatchInit ==
  /\ focus \in {"engine", "fanout"}
  /\ Init /\ FanInit
  /\ focus # "fanout" => /\ coordinator /\ running = {}
                         /\ login = [t \in Terminals |-> CHOOSE a \in Accounts : TRUE]

DispatchNext ==
  /\ \/ focus = "engine" /\ Next /\ UNCHANGED fanVars
     \/ focus = "fanout" /\ FanNext /\ UNCHANGED vars
  /\ UNCHANGED focus

\* The engine's threads, in the behaviours that explore it.
ThreadFairness == \A t \in Threads : WF_vars(focus = "engine" /\ Step(t))

DispatchSpec == DispatchInit /\ [][DispatchNext]_dispatchVars /\ ThreadFairness
=============================================================================
