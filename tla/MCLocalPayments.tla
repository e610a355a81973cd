---------------------------- MODULE MCLocalPayments ----------------------------
EXTENDS LocalPayments, TLC

CONSTANTS p1, p2, p3, k1, k2, k3, h1, h2, h3

MCSymmetry == Permutations(Payments) \union Permutations(Keys) \union Permutations(Handlers)
================================================================================
