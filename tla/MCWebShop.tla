------------------------------- MODULE MCWebShop -------------------------------
EXTENDS WebShop, TLC

CONSTANTS f1, f2, f3

MCSymmetry == Permutations(Ids)
================================================================================
