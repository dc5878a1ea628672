----------------------------- MODULE MCKVServer -----------------------------
EXTENDS KVServer, TLC

CONSTANTS t1, t2, k1, k2, k3, k4, v1, v2, h1, h2, h3, s1, s2

\* k1 and k2 collide; k3 shares their cache set s1; k4 is too long.
MCHashOf == (k1 :> h1 @@ k2 :> h1 @@ k3 :> h2 @@ k4 :> h3)
MCSetOf == h1 :> s1 @@ h2 :> s1 @@ h3 :> s2

HashOfKeys == [k \in Keys |-> MCHashOf[k]]

AnyValue == [k \in Keys |-> Values]
\* k1 and k2, which collide, never have a value in common.
OwnValues == k1 :> {v1} @@ k2 :> {v2} @@ k3 :> {v1, v2} @@ k4 :> {v1}

\* Bound: overlapping requests are followed as long as there is no trace of k3.
Bound ==
  \/ apart
  \/ /\ \A t \in Threads : sop[t].key # k3
     /\ \A f \in files : f.key # k3
     /\ ~Holds(cache[s1].entries, k3)

Symmetry == Permutations(Threads)
=============================================================================
