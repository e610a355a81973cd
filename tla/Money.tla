--------------------------------- MODULE Money ---------------------------------
(***************************************************************************)
(* Integer money: minor units (1 KES = 100), the whole shillings M-Pesa    *)
(* takes, and commission in basis points.  The web front end computes      *)
(* commission with the same formula as the commission worker.              *)
(***************************************************************************)
EXTENDS Integers

\* Mutant: round up, so that nobody is paid too little.
ToWholeKesUp(minor) == (minor + 99) \div 100

ToWholeKes(minor) == (minor + 50) \div 100

FromWholeKes(whole) == whole * 100

CommissionMinor(amount, bps) == (amount * bps) \div 10000

================================================================================
