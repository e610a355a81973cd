----------------------------- MODULE PaymentState -----------------------------
(***************************************************************************)
(* The states of one M-Pesa collection attempt and the transition table    *)
(* assert_payment_transition consults.  "absent" stands for "no row".      *)
(***************************************************************************)

PaymentStates ==
  {"pending", "stk_sent", "paid", "failed", "pending_reconciliation"}

RowStates == PaymentStates \union {"absent"}

\* The states reachable in one step.  "failed" may still become "paid": a
\* late success after an out-of-order failure callback wins.
PaymentTransitions(s) ==
  CASE s = "pending"                -> {"stk_sent", "pending_reconciliation"}
    [] s = "stk_sent"               -> {"paid", "failed", "pending_reconciliation"}
    [] s = "pending_reconciliation" -> {"paid", "failed"}
    [] s = "failed"                 -> {"paid"}
    [] OTHER                        -> {}

\* is_payment_terminal
PaymentTerminal == {"paid", "failed"}
===============================================================================
