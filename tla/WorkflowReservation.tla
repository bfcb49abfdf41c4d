------------------------- MODULE WorkflowReservation ------------------------
(***************************************************************************)
(* What the hub workflow certification store promises for each scoped      *)
(* idempotency key: one reservation whose intent, route and operator       *)
(* assignment are fixed when it is made, external work on it only inside   *)
(* its validity, and reconciliation as its end.                            *)
(***************************************************************************)
EXTENDS Naturals

CONSTANTS
  Scopes,  \* tenant|hub|partner|idempotencyKey
  Times,   \* the times a mutation may be recorded at
  Pins     \* what a reservation fixes: [digest, route, assignment, expires]

VARIABLES
  phase,   \* [Scopes -> "none", "reserved", "possible" or "reconcile"]
  pins,    \* [Scopes -> the pinned fields, or {} before the reservation]
  first    \* [Scopes -> time of the first possible external mutation, 0 before]

reservationVars == <<phase, pins, first>>

Init ==
  /\ phase = [s \in Scopes |-> "none"]
  /\ pins = [s \in Scopes |-> {}]
  /\ first = [s \in Scopes |-> 0]

Reserve(s) ==
  /\ phase[s] = "none"
  /\ phase' = [phase EXCEPT ![s] = "reserved"]
  /\ \E p \in Pins : pins' = [pins EXCEPT ![s] = {p}]
  /\ UNCHANGED first

\* The first possible mutation, within the validity of the intent.
Mark(s) ==
  /\ phase[s] = "reserved"
  /\ phase' = [phase EXCEPT ![s] = "possible"]
  /\ \E at \in Times :
       /\ first' = [first EXCEPT ![s] = at]
       /\ \A p \in pins[s] : at <= p.expires
  /\ UNCHANGED pins

Reconcile(s) ==
  /\ phase[s] = "possible"
  /\ phase' = [phase EXCEPT ![s] = "reconcile"]
  /\ UNCHANGED <<pins, first>>

Next == \E s \in Scopes : Reserve(s) \/ Mark(s) \/ Reconcile(s)

Spec == Init /\ [][Next]_reservationVars
=============================================================================
