---------------------------- MODULE PayoutLifecycle ----------------------------
(***************************************************************************)
(* What the payments service promises to commission about each originator  *)
(* id, however often and however concurrently it is asked: one payout that *)
(* moves along its table; one transfer handed to Daraja, for a payout that *)
(* was saved before; a final state that agrees with what Daraja did; and   *)
(* a ledger entry only for money that left.                                *)
(***************************************************************************)
EXTENDS PayoutState

CONSTANT Keys

VARIABLES
  state,     \* the state of the payout of each originator id
  transfer,  \* what Daraja did for it
  booked     \* whether payout_disbursed is in the ledger

Init ==
  /\ state = [k \in Keys |-> "absent"]
  /\ transfer = [k \in Keys |-> "none"]
  /\ booked = [k \in Keys |-> FALSE]

Open(k) ==
  /\ state[k] = "absent"
  /\ state' = [state EXCEPT ![k] = "pending"]
  /\ UNCHANGED <<transfer, booked>>

HandOver(k) ==
  /\ state[k] = "pending"
  /\ transfer[k] = "none"
  /\ transfer' = [transfer EXCEPT ![k] = "accepted"]
  /\ UNCHANGED <<state, booked>>

Disburse(k) ==
  /\ transfer[k] = "accepted"
  /\ \E outcome \in {"done", "refused"} : transfer' = [transfer EXCEPT ![k] = outcome]
  /\ UNCHANGED <<state, booked>>

\* A final state has the outcome behind it.
Advance(k) ==
  /\ \E t \in PayoutTransitions(state[k]) :
       /\ t = "completed" => transfer[k] = "done"
       /\ t = "failed" => transfer[k] = "refused"
       /\ state' = [state EXCEPT ![k] = t]
  /\ UNCHANGED <<transfer, booked>>

Book(k) ==
  /\ state[k] = "completed"
  /\ ~booked[k]
  /\ booked' = [booked EXCEPT ![k] = TRUE]
  /\ UNCHANGED <<state, transfer>>

Next == \E k \in Keys : Open(k) \/ HandOver(k) \/ Disburse(k) \/ Advance(k) \/ Book(k)

Spec == Init /\ [][Next]_<<state, transfer, booked>>
===============================================================================
