----------------------------- MODULE MCLRUCache -----------------------------
EXTENDS LRUCache, TLC

Symmetry == Permutations(Keys)
=============================================================================
