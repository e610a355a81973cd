--------------------------- MODULE PaymentLifecycle ---------------------------
(***************************************************************************)
(* What the payments service promises about each payment, whoever handles  *)
(* it and however often: the row moves only along the transition table     *)
(* (so "paid" is final), and one charge_confirmed ledger line is written   *)
(* for a payment, only once it is paid.                                    *)
(***************************************************************************)
EXTENDS PaymentState, Naturals

CONSTANT Payments

VARIABLES
  state,   \* the state of each payment row, "absent" before it is saved
  lines    \* the number of charge_confirmed ledger lines of each payment

TypeOK ==
  /\ state \in [Payments -> RowStates]
  /\ lines \in [Payments -> {0, 1}]

Init ==
  /\ state = [p \in Payments |-> "absent"]
  /\ lines = [p \in Payments |-> 0]

Open(p) ==
  /\ state[p] = "absent"
  /\ state' = [state EXCEPT ![p] = "pending"]
  /\ UNCHANGED lines

Advance(p) ==
  /\ state[p] # "absent"
  /\ \E t \in PaymentTransitions(state[p]) : state' = [state EXCEPT ![p] = t]
  /\ UNCHANGED lines

Book(p) ==
  /\ state[p] = "paid"
  /\ lines[p] = 0
  /\ lines' = [lines EXCEPT ![p] = 1]
  /\ UNCHANGED state

Next == \E p \in Payments : Open(p) \/ Advance(p) \/ Book(p)

Spec == Init /\ [][Next]_<<state, lines>>
===============================================================================
