------------------------------ MODULE MCPosSales ------------------------------
EXTENDS PosSales, Naturals, TLC

\* Model values of one kind are interchangeable; only safety runs use it.
Symmetry == Permutations(Sales) \union Permutations(Keys) \union Permutations(Handlers)
===============================================================================
