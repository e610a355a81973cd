--------------------------- MODULE MCStkCollection ---------------------------
EXTENDS StkCollection, TLC

\* Model values of one kind are interchangeable; only safety runs use it.
Symmetry ==
  Permutations(Requests) \union Permutations(Sales) \union Permutations(Keys)

HandlerSymmetry == Permutations(Handlers)
===============================================================================
