------------------------------ MODULE PayoutState ------------------------------
(***************************************************************************)
(* The states of one B2C disbursement and the transition table             *)
(* assert_payout_transition consults.  "absent" stands for "no row".       *)
(***************************************************************************)

PayoutStates == {"pending", "submitted", "completed", "failed"}

RowStates == PayoutStates \union {"absent"}

\* The states reachable in one step.
PayoutTransitions(s) ==
  CASE s = "pending"   -> {"submitted"}
    [] s = "submitted" -> {"completed", "failed"}
    [] OTHER           -> {}

\* is_payout_terminal
PayoutTerminal == {"completed", "failed"}
===============================================================================
