------------------------ MODULE AtMostOnceDispatch ------------------------
(***************************************************************************)
(* What ExecutionEngine promises about an idempotency key: a key is        *)
(* reserved durably before its order goes out, a reservation is never      *)
(* undone, and at most one order per key ever reaches the broker.          *)
(***************************************************************************)
EXTENDS Naturals

CONSTANT Keys

VARIABLES reserved, dispatched
absVars == <<reserved, dispatched>>

AbsInit == reserved = {} /\ dispatched = [k \in Keys |-> 0]

Reserve(k) ==
  /\ reserved' = reserved \cup {k}
  /\ UNCHANGED dispatched

Dispatch(k) ==
  /\ k \in reserved /\ dispatched[k] = 0
  /\ dispatched' = [dispatched EXCEPT ![k] = 1]
  /\ UNCHANGED reserved

AbsNext == \E k \in Keys : Reserve(k) \/ Dispatch(k)

AbsSpec == AbsInit /\ [][AbsNext]_absVars
=============================================================================
