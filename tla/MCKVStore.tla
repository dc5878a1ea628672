----------------------------- MODULE MCKVStore -----------------------------
EXTENDS KVStore, TLC

CONSTANTS t1, t2, k1, k2, k3, k4, v1, v2, h1, h2

\* k1, k2 and k3 collide, k4 has a chain of its own.
MCHashOf == [k \in Keys |-> IF k = k4 THEN h2 ELSE h1]

Symmetry ==
  Permutations(Threads) \cup Permutations(Values) \cup Permutations(Keys \ {k4})
=============================================================================
