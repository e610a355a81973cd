-------------------------- MODULE MCCommissionSchedule --------------------------
EXTENDS CommissionSchedule

CONSTANTS s1, a1

MCSeller == [s \in Sales |-> a1]
================================================================================
