---------------------------- MODULE SaleLifecycle ----------------------------
(***************************************************************************)
(* What POS promises about each sale, whoever asks and however often: it   *)
(* moves only along the transition table, a terminal sale never moves      *)
(* again, it awaits payment only after payments was asked to collect, and  *)
(* it is paid only when the customer was charged.                          *)
(***************************************************************************)
EXTENDS SaleState

CONSTANT Sales

VARIABLES
  status,    \* the status of each sale, "absent" before it is created
  handed,    \* sales payments was asked to collect for
  charged    \* sales whose customer was charged

vars == <<status, handed, charged>>

Init ==
  /\ status = [s \in Sales |-> "absent"]
  /\ handed = {}
  /\ charged = {}

Open(s) ==
  /\ status[s] = "absent"
  /\ status' = [status EXCEPT ![s] = "pending"]
  /\ UNCHANGED <<handed, charged>>

Cancel(s) ==
  /\ status[s] = "pending"
  /\ status' = [status EXCEPT ![s] = "cancelled"]
  /\ UNCHANGED <<handed, charged>>

\* Payments may hear of a sale POS still shows as pending, or shows as pending
\* again, or has cancelled since.
HandOff(s) ==
  /\ status[s] # "absent"
  /\ handed' = handed \union {s}
  /\ UNCHANGED <<status, charged>>

Await(s) ==
  /\ status[s] = "pending"
  /\ s \in handed
  /\ status' = [status EXCEPT ![s] = "awaiting_payment"]
  /\ UNCHANGED <<handed, charged>>

Charge(s) ==
  /\ s \in handed
  /\ charged' = charged \union {s}
  /\ UNCHANGED <<status, handed>>

\* A result settles a pending sale too: it walks through "awaiting_payment".
Settle(s, result) ==
  /\ status[s] \in {"pending", "awaiting_payment"}
  /\ s \in handed
  /\ result \in SaleTransitions("awaiting_payment")
  /\ result = "paid" => s \in charged
  /\ status' = [status EXCEPT ![s] = result]
  /\ UNCHANGED <<handed, charged>>

Next ==
  \E s \in Sales :
    \/ Open(s) \/ Cancel(s) \/ HandOff(s) \/ Await(s) \/ Charge(s)
    \/ \E result \in {"paid", "failed"} : Settle(s, result)

Spec == Init /\ [][Next]_vars
===============================================================================
