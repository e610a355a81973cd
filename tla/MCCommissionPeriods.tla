------------------------- MODULE MCCommissionPeriods -------------------------
EXTENDS CommissionPages, TLC

CONSTANTS s1, s2, a1

MCSeller == [s \in Sales |-> a1]
MCSymmetry == Permutations(Sales)
================================================================================
