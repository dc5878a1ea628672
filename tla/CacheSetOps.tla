---------------------------- MODULE CacheSetOps ----------------------------
(***************************************************************************)
(* The data of a cache set (kvstore/src/server/kvcacheset.c) and the       *)
(* effect of its operations: a list of entries, oldest first, each with    *)
(* its reference bit, and the counter num_entries.                         *)
(***************************************************************************)
EXTENDS Naturals, Sequences

Entry(k, v, r) == [key |-> k, val |-> v, ref |-> r]

EmptySet == [num |-> 0, entries |-> <<>>]

\* HASH_FIND_STR: the position of k in the list, 0 if it is not there.
IndexOf(es, k) ==
  IF \E i \in 1..Len(es) : es[i].key = k
  THEN CHOOSE i \in 1..Len(es) : es[i].key = k
  ELSE 0

Holds(es, k) == IndexOf(es, k) # 0

\* DL_DELETE of the entry at position i.
Without(es, i) == SubSeq(es, 1, i - 1) \o SubSeq(es, i + 1, Len(es))

Cleared(es) == [i \in 1..Len(es) |-> [es[i] EXCEPT !.ref = FALSE]]

\* What the eviction loop of kvcacheset_put leaves: the entries in front of
\* the first unreferenced one lose their reference bit and go to the back.
\* If all are referenced, the first is evicted on the second visit, except
\* that a list of one entry is visited only once.
SecondChance(es) ==
  LET n == Len(es)
      Unref == {i \in 1..n : ~es[i].ref}
      first == CHOOSE i \in Unref : \A j \in Unref : i <= j
  IN  IF Unref # {}
      THEN SubSeq(es, first + 1, n) \o Cleared(SubSeq(es, 1, first - 1))
      ELSE IF n <= 1 THEN Cleared(es) ELSE Cleared(Tail(es))

\* kvcacheset_get marks the entry it finds.
Touch(s, k) ==
  IF Holds(s.entries, k)
  THEN [s EXCEPT !.entries[IndexOf(s.entries, k)].ref = TRUE]
  ELSE s

\* kvcacheset_put on a set that may hold cap entries.
PutIn(s, k, v, cap) ==
  IF Holds(s.entries, k)
  THEN [s EXCEPT !.entries[IndexOf(s.entries, k)] = Entry(k, v, TRUE)]
  ELSE IF s.num < cap
       THEN [num |-> s.num + 1,
             entries |-> Append(s.entries, Entry(k, v, FALSE))]
       ELSE [s EXCEPT !.entries =
               Append(SecondChance(s.entries), Entry(k, v, FALSE))]

\* kvcacheset_del does not touch num_entries.
DelFrom(s, k) ==
  IF Holds(s.entries, k)
  THEN [s EXCEPT !.entries = Without(s.entries, IndexOf(s.entries, k))]
  ELSE s
=============================================================================
