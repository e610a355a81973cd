----------------------------- MODULE MCB2CPayouts -----------------------------
(* B2CPayouts on small sets.  No symmetry: its runs check liveness.        *)
EXTENDS B2CPayouts
===============================================================================
