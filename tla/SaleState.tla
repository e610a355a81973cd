------------------------------ MODULE SaleState ------------------------------
(***************************************************************************)
(* The states of a sale and the transition table assert_sale_transition    *)
(* consults.  "absent" stands for "no row".                                *)
(***************************************************************************)

SaleStatuses == {"pending", "awaiting_payment", "paid", "failed", "cancelled"}

SaleTransitions(s) ==
  CASE s = "pending"          -> {"awaiting_payment", "cancelled"}
    [] s = "awaiting_payment" -> {"paid", "failed"}
    [] OTHER                  -> {}

\* is_sale_terminal
SaleTerminal == {s \in SaleStatuses : SaleTransitions(s) = {}}
===============================================================================
