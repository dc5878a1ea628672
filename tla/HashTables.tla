----------------------------- MODULE HashTables -----------------------------
(***************************************************************************)
(* The kernel's hash table (lib/kernel/hash.c).  Buckets are lists, taken  *)
(* as sequences; an element is [key, id], equal to another one when the    *)
(* keys are equal and hashed by its key.  The table grows and shrinks      *)
(* after every change, and goes on with its old buckets when there is no   *)
(* memory for new ones.  MIN_BUCKETS is the code's 4.                      *)
(***************************************************************************)
EXTENDS Integers, Sequences, FiniteSets, SequencesExt

CONSTANTS HashKeys, Ids, MIN_BUCKETS, BEST_ELEMS_PER_BUCKET

ASSUME HashAssumption ==
  /\ HashKeys \subseteq Nat /\ MIN_BUCKETS \in Nat \ {0}
  /\ BEST_ELEMS_PER_BUCKET \in Nat \ {0}

NoElem == [key |-> -1, id |-> -1]
HashElem == [key : HashKeys, id : Ids]

VARIABLES table,     \* [elem_cnt, bucket_cnt, buckets]
          contents,  \* history: key -> the element in the table, or NoElem
          answer     \* history: [given, due] of the last call

hashVars == <<table, contents, answer>>

-----------------------------------------------------------------------------
(* hash.c *)

Empty(n) == [elem_cnt |-> 0, bucket_cnt |-> n, buckets |-> [i \in 0..n - 1 |-> << >>]]
hash_init == Empty(MIN_BUCKETS)
hash_clear(h) == Empty(h.bucket_cnt)

find_bucket(h, e) == e.key % h.bucket_cnt
find_elem(h, b, e) ==
  LET hits == SelectSeq(h.buckets[b], LAMBDA x : x.key = e.key)
  IN IF hits = << >> THEN NoElem ELSE hits[1]
hash_find(h, e) == find_elem(h, find_bucket(h, e), e)

insert_elem(h, b, e) == [h EXCEPT !.elem_cnt = @ + 1, !.buckets[b] = <<e>> \o @]
remove_elem(h, e) ==
  [h EXCEPT !.elem_cnt = @ - 1,
            !.buckets = [b \in DOMAIN @ |-> SelectSeq(@[b], LAMBDA x : x # e)]]

\* The highest power of 2 not above x, reached by clearing low bits.
is_power_of_2(x) == \E k \in 0..x : x = 2 ^ k
RECURSIVE turned_off(_)
turned_off(x) == IF is_power_of_2(x) THEN x
                 ELSE turned_off(x - (CHOOSE b \in {2 ^ k : k \in 0..x} : (x \div b) % 2 = 1 /\ x % b = 0))

new_bucket_cnt(h) ==
  LET best == h.elem_cnt \div BEST_ELEMS_PER_BUCKET
  IN turned_off(IF best < MIN_BUCKETS THEN MIN_BUCKETS ELSE best)

\* Elements in the order rehash meets them.
InOrder(h) == FlattenSeq([i \in 1..h.bucket_cnt |-> h.buckets[i - 1]])

\* The elements go to the buckets of the old count.
rehash_before_install(h) ==
  LET new == [Empty(new_bucket_cnt(h)) EXCEPT !.elem_cnt = h.elem_cnt]
      move(g, e) == [g EXCEPT !.buckets[(e.key % h.bucket_cnt) % g.bucket_cnt] = <<e>> \o @]
  IN IF new.bucket_cnt = h.bucket_cnt THEN h ELSE FoldLeft(move, new, InOrder(h))

rehash(h) ==
  LET new == [Empty(new_bucket_cnt(h)) EXCEPT !.elem_cnt = h.elem_cnt]
      move(g, e) == [g EXCEPT !.buckets[find_bucket(g, e)] = <<e>> \o @]
  IN IF new.bucket_cnt = h.bucket_cnt THEN h ELSE FoldLeft(move, new, InOrder(h))

hash_insert(h, e) == IF hash_find(h, e) = NoElem THEN insert_elem(h, find_bucket(h, e), e) ELSE h
hash_replace(h, e) ==
  LET old == hash_find(h, e)
  IN insert_elem(IF old = NoElem THEN h ELSE remove_elem(h, old), find_bucket(h, e), e)
hash_delete(h, e) == IF hash_find(h, e) = NoElem THEN h ELSE remove_elem(h, hash_find(h, e))

\* An iterator is a place [bucket, pos]; hash_next skips empty buckets.
hash_first == [bucket |-> 0, pos |-> 0]
RECURSIVE hash_next(_, _)
hash_next(h, i) ==
  IF i.pos < Len(h.buckets[i.bucket]) THEN [i EXCEPT !.pos = @ + 1]
  ELSE IF i.bucket + 1 >= h.bucket_cnt THEN [bucket |-> -1, pos |-> 0]
  ELSE hash_next(h, [bucket |-> i.bucket + 1, pos |-> 0])
RECURSIVE IteratedFrom(_, _)
IteratedFrom(h, i) ==
  LET n == hash_next(h, i)
  IN IF n.bucket = -1 THEN << >> ELSE <<h.buckets[n.bucket][n.pos]>> \o IteratedFrom(h, n)

-----------------------------------------------------------------------------
HashInit ==
  /\ table = hash_init
  /\ contents = [k \in HashKeys |-> NoElem]
  /\ answer = [given |-> NoElem, due |-> NoElem]

\* malloc may fail in rehash.
Rehashed(h) == table' = rehash(h) \/ table' = h
Answers(e) == answer' = [given |-> hash_find(table, e), due |-> contents[e.key]]

Insert(e) == /\ Rehashed(hash_insert(table, e)) /\ Answers(e)
             /\ contents' = IF contents[e.key] = NoElem THEN [contents EXCEPT ![e.key] = e]
                            ELSE contents
Replace(e) == /\ Rehashed(hash_replace(table, e)) /\ Answers(e)
              /\ contents' = [contents EXCEPT ![e.key] = e]
DeleteElem(e) == /\ IF hash_find(table, e) = NoElem THEN UNCHANGED table
                    ELSE Rehashed(hash_delete(table, e))
                 /\ Answers(e)
                 /\ contents' = [contents EXCEPT ![e.key] = NoElem]
Clear == /\ table' = hash_clear(table)
         /\ contents' = [k \in HashKeys |-> NoElem]
         /\ UNCHANGED answer

HashNext == Clear \/ \E e \in HashElem : Insert(e) \/ Replace(e) \/ DeleteElem(e)

-----------------------------------------------------------------------------
(* Properties *)

(* The table is a map: a call returns the element the key has, every       *)
(* element is found in its bucket, and an iteration meets each element     *)
(* once, whenever the table grew, shrank or could not.                     *)
TableIsMap ==
  LET present == {contents[k] : k \in HashKeys} \ {NoElem}
      met == IteratedFrom(table, hash_first)
  IN /\ answer.given = answer.due
     /\ \A k \in HashKeys : hash_find(table, [key |-> k, id |-> 0]) = contents[k]
     /\ {met[i] : i \in DOMAIN met} = present
     /\ Len(met) = Cardinality(present) /\ table.elem_cnt = Cardinality(present)
=============================================================================
