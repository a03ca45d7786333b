------------------------------ MODULE MCGates ------------------------------
(***************************************************************************)
(* The three gates an order has to pass before the engine sees it: the     *)
(* circuit breaker and kill switch, the readiness that reconciliation      *)
(* keeps, and the signal registry with the pipeline's policies.  They read *)
(* different state, so each behaviour explores one of them (focus) while   *)
(* the others rest.                                                        *)
(***************************************************************************)
EXTENDS ExecutionGuard, Reconciliation, SignalGate

CONSTANTS t1, t2

MCTickets == {t1, t2}
MCPlain == {t1}
FailingReads == {"recovery", "reconcile", "periodic", "monitor"}

VARIABLE focus

gatesVars == <<focus, guardVars, recVars, gateVars>>

GatesInit ==
  /\ focus \in {"guard", "reconciliation", "signals"}
  /\ GuardInit /\ RecInit /\ SignalInit

GuardStep == focus = "guard" /\ GuardNext /\ UNCHANGED <<focus, recVars, gateVars>>
RecStep == focus = "reconciliation" /\ RecNext /\ UNCHANGED <<focus, guardVars, gateVars>>
SignalStep == focus = "signals" /\ SignalNext /\ UNCHANGED <<focus, guardVars, recVars>>

\* The fairness of each component, for the behaviours that explore it.
GatesFairness ==
  /\ WF_guardVars(focus = "guard" /\ CooldownElapses)
  /\ WF_guardVars(focus = "guard" /\ Admit)
  /\ WF_guardVars(focus = "guard" /\ Finish)
  /\ WF_recVars(focus = "reconciliation" /\ ReadOpenPositions)
  /\ WF_recVars(focus = "reconciliation" /\ Reconcile)
  /\ WF_recVars(focus = "reconciliation" /\ Tick)
  /\ SF_recVars(focus = "reconciliation" /\ DueRunReads)
  /\ WF_recVars(focus = "reconciliation" /\ DetectPositionChanges)
  /\ WF_gateVars(focus = "signals" /\ RunCycle)

GatesSpec == GatesInit /\ [][GuardStep \/ RecStep \/ SignalStep]_gatesVars /\ GatesFairness
=============================================================================
