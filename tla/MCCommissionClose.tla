--------------------------- MODULE MCCommissionClose ---------------------------
(* CommissionClose on small sets.                                          *)
EXTENDS CommissionClose, TLC

CONSTANTS s1, s2, s3, a1, a2

\* Two sales of one attendant, one of another.
MCSeller == [s \in Sales |-> IF s = s3 THEN a2 ELSE a1]

\* Sound for the run that checks safety only.
MCSymmetry == Permutations(Closers) \union Permutations(Handlers)
===============================================================================
