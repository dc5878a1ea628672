------------------------------- MODULE Lists -------------------------------
(***************************************************************************)
(* The kernel's doubly linked lists (lib/kernel/list.c), down to the       *)
(* pointers: a heap h gives every node its next and prev.  Elements are    *)
(* numbered from 1; list l has the sentinel nodes Head(l) and Tail(l).     *)
(* Every operation is checked against the same operation on sequences.     *)
(***************************************************************************)
EXTENDS Integers, Sequences, SequencesExt

CONSTANTS MaxElem,      \* elements are 1..MaxElem
          Keys,         \* what the elements are compared by
          MaxListOps    \* bound on the operations of a behaviour

ASSUME ListsAssumption == MaxElem \in Nat \ {0} /\ Keys \subseteq Int

List == {1, 2}
Nil == 0
Head_(l) == -2 * l
Tail_(l) == -2 * l - 1
Node == (1..MaxElem) \cup {Head_(l) : l \in List} \cup {Tail_(l) : l \in List}

VARIABLES heap,       \* [next, prev]
          key,        \* element -> key
          model,      \* list -> the sequence it stands for (history)
          list_ops

listVars == <<heap, key, model, list_ops>>

SetNext(h, n, to) == [h EXCEPT !.next[n] = to]
SetPrev(h, n, to) == [h EXCEPT !.prev[n] = to]
less(a, b) == key[a] < key[b]

-----------------------------------------------------------------------------
(* list.c *)

list_init == [next |-> [n \in Node |-> IF \E l \in List : n = Head_(l) THEN n - 1 ELSE Nil],
              prev |-> [n \in Node |-> IF \E l \in List : n = Tail_(l) THEN n + 1 ELSE Nil]]
list_begin(h, l) == h.next[Head_(l)]
list_rbegin(h, l) == h.prev[Tail_(l)]
list_end(l) == Tail_(l)
list_empty(h, l) == list_begin(h, l) = list_end(l)

list_insert(h, before, elem) ==
  LET a == SetPrev(h, elem, h.prev[before])
      b == SetNext(a, elem, before)
      c == SetNext(b, b.prev[before], elem)
  IN SetPrev(c, before, elem)

list_push_front(h, l, elem) == list_insert(h, list_begin(h, l), elem)
list_push_back(h, l, elem) == list_insert(h, list_end(l), elem)

list_remove(h, elem) ==
  SetPrev(SetNext(h, h.prev[elem], h.next[elem]), h.next[elem], h.prev[elem])

list_splice(h, before, first, end) ==
  LET last == h.prev[end]
      a == SetNext(h, h.prev[first], h.next[last])
      b == SetPrev(a, a.next[last], h.prev[first])
      c == SetPrev(b, first, b.prev[before])
      d == SetNext(c, last, before)
      e == SetNext(d, d.prev[before], first)
  IN IF first = end THEN h ELSE SetPrev(e, before, last)

RECURSIVE count_from(_, _, _)
count_from(h, e, l) == IF e = list_end(l) THEN 0 ELSE 1 + count_from(h, h.next[e], l)
list_size(h, l) == count_from(h, list_begin(h, l), l)

Swapped(h, n) == [h EXCEPT !.next[n] = h.prev[n], !.prev[n] = h.next[n]]
RECURSIVE swap_from(_, _, _)
swap_from(h, e, l) == IF e = list_end(l) THEN h
                      ELSE swap_from(Swapped(h, e), Swapped(h, e).prev[e], l)

list_reverse(h, l) ==
  LET a == swap_from(h, list_begin(h, l), l)
      b == SetPrev(SetNext(a, Head_(l), a.prev[Tail_(l)]), Tail_(l), a.next[Head_(l)])
      front == b.next[Head_(l)]
      back  == b.prev[Tail_(l)]
  IN IF list_empty(h, l) THEN h
     ELSE SetNext(SetPrev(b, front, b.next[back]), back, b.prev[front])

\* A run goes on while elements do not decrease.
RECURSIVE find_end_of_run(_, _, _)
find_end_of_run(h, a, b) ==
  LET n == h.next[a] IN
  IF n = b \/ less(n, h.prev[n]) THEN n ELSE find_end_of_run(h, n, b)

\* On equal elements the second run goes first.
RECURSIVE inplace_merge_swapping(_, _, _, _)
inplace_merge_swapping(h, a0, a1b0, b1) ==
  IF a0 = a1b0 \/ a1b0 = b1 THEN h
  ELSE IF less(a0, a1b0) THEN inplace_merge_swapping(h, h.next[a0], a1b0, b1)
  ELSE LET n == h.next[a1b0]
       IN inplace_merge_swapping(list_splice(h, a0, h.prev[n], n), a0, n, b1)

RECURSIVE inplace_merge(_, _, _, _)
inplace_merge(h, a0, a1b0, b1) ==
  IF a0 = a1b0 \/ a1b0 = b1 THEN h
  ELSE IF ~less(a1b0, a0) THEN inplace_merge(h, h.next[a0], a1b0, b1)
  ELSE LET n == h.next[a1b0]
       IN inplace_merge(list_splice(h, a0, h.prev[n], n), a0, n, b1)

\* One pass from a0 on: the heap, and the number of runs it put out.
RECURSIVE merge_pass(_, _, _, _)
merge_pass(h, l, a0, runs) ==
  LET a1b0 == find_end_of_run(h, a0, list_end(l))
      b1   == find_end_of_run(h, a1b0, list_end(l))
  IN IF a0 = list_end(l) THEN [heap |-> h, runs |-> runs]
     ELSE IF a1b0 = list_end(l) THEN [heap |-> h, runs |-> runs + 1]
     ELSE merge_pass(inplace_merge(h, a0, a1b0, b1), l, b1, runs + 1)

RECURSIVE list_sort(_, _)
list_sort(h, l) ==
  LET pass == merge_pass(h, l, list_begin(h, l), 0)
  IN IF pass.runs > 1 THEN list_sort(pass.heap, l) ELSE pass.heap

RECURSIVE first_above(_, _, _, _)
first_above(h, l, e, elem) ==
  IF e = list_end(l) \/ less(elem, e) THEN e ELSE first_above(h, l, h.next[e], elem)
list_insert_ordered(h, l, elem) ==
  list_insert(h, first_above(h, l, list_begin(h, l), elem), elem)

\* Duplicates of adjacent elements move to list d.
RECURSIVE unique_from(_, _, _, _)
unique_from(h, l, d, elem) ==
  LET next == h.next[elem] IN
  IF next = list_end(l) THEN h
  ELSE IF ~less(elem, next) /\ ~less(next, elem)
  THEN unique_from(list_push_back(list_remove(h, next), d, next), l, d, elem)
  ELSE unique_from(h, l, d, next)
list_unique(h, l, d) ==
  IF list_empty(h, l) THEN h ELSE unique_from(h, l, d, list_begin(h, l))

RECURSIVE best_from(_, _, _, _, _)
best_from(h, l, best, e, max) ==
  IF e = list_end(l) THEN best
  ELSE best_from(h, l, IF (IF max THEN less(best, e) ELSE less(e, best)) THEN e ELSE best,
                 h.next[e], max)
list_max(h, l) == IF list_empty(h, l) THEN list_end(l)
                  ELSE best_from(h, l, list_begin(h, l), h.next[list_begin(h, l)], TRUE)
list_min(h, l) == IF list_empty(h, l) THEN list_end(l)
                  ELSE best_from(h, l, list_begin(h, l), h.next[list_begin(h, l)], FALSE)

-----------------------------------------------------------------------------
(* The reference: operations on sequences *)

Above(s, e) == SelectSeq(s, LAMBDA x : key[x] > key[e])
NotAbove(s, e) == SelectSeq(s, LAMBDA x : key[x] <= key[e])
Placed(s, e) == NotAbove(s, e) \o <<e>> \o Above(s, e)
StableSort(s) == FoldLeft(Placed, << >>, s)
Leads(s, i) == i = 1 \/ key[s[i]] # key[s[i - 1]]
Pick(s, T) == FoldLeft(LAMBDA acc, i : IF i \in T THEN Append(acc, s[i]) ELSE acc,
                       << >>, [i \in DOMAIN s |-> i])

Elements(l) == {model[l][i] : i \in DOMAIN model[l]}
Unused == (1..MaxElem) \ UNION {Elements(l) : l \in List}

-----------------------------------------------------------------------------
(* From any two lists, any operation.  Elements are numbered in the order  *)
(* they have in the first list and then in the second: their names do not  *)
(* matter.                                                                 *)

Built(m) == LET add(h, l) == FoldLeft(LAMBDA g, e : list_push_back(g, l, e), h, m[l])
            IN add(add(list_init, 1), 2)

ListInit ==
  /\ key \in [1..MaxElem -> Keys]
  /\ \E n \in 0..MaxElem : \E k \in 0..n :
       model = << [i \in 1..k |-> i], [i \in 1..(n - k) |-> k + i] >>
  /\ heap = Built(model)
  /\ list_ops = 0

Op(h, m) == /\ list_ops < MaxListOps /\ list_ops' = list_ops + 1
            /\ heap' = h /\ model' = m /\ UNCHANGED key

PushFront(l, e) == e \in Unused /\ Op(list_push_front(heap, l, e), [model EXCEPT ![l] = <<e>> \o @])
PushBack(l, e) == e \in Unused /\ Op(list_push_back(heap, l, e), [model EXCEPT ![l] = Append(@, e)])
PopFront(l) == model[l] # << >> /\ Op(list_remove(heap, list_begin(heap, l)), [model EXCEPT ![l] = Tail(@)])
PopBack(l) == model[l] # << >> /\ Op(list_remove(heap, list_rbegin(heap, l)), [model EXCEPT ![l] = Front(@)])
Delete(l, i) == Op(list_remove(heap, model[l][i]), [model EXCEPT ![l] = RemoveAt(@, i)])
Reverse_(l) == Op(list_reverse(heap, l), [model EXCEPT ![l] = Reverse(@)])
Sort(l) == Op(list_sort(heap, l), [model EXCEPT ![l] = StableSort(@)])
InsertOrdered(l, e) ==
  /\ e \in Unused /\ model[l] = StableSort(model[l])
  /\ Op(list_insert_ordered(heap, l, e), [model EXCEPT ![l] = Placed(@, e)])
Unique(l, d) ==
  LET s == model[l]
      T == {i \in DOMAIN s : Leads(s, i)}
  IN Op(list_unique(heap, l, d), [model EXCEPT ![l] = Pick(s, T), ![d] = @ \o Pick(s, DOMAIN s \ T)])

\* Elements i..j-1 of one list go before element k of the other.
Splice(l, d, i, j, k) ==
  LET node(m, x) == IF x \in DOMAIN model[m] THEN model[m][x] ELSE list_end(m)
      range == SubSeq(model[l], i, j - 1)
  IN Op(list_splice(heap, node(d, k), node(l, i), node(l, j)),
        [model EXCEPT ![l] = SubSeq(@, 1, i - 1) \o SubSeq(@, j, Len(@)),
                      ![d] = SubSeq(@, 1, k - 1) \o range \o SubSeq(@, k, Len(@))])

ListNext ==
  \/ \E l \in List, e \in 1..MaxElem : PushFront(l, e) \/ PushBack(l, e) \/ InsertOrdered(l, e)
  \/ \E l \in List : PopFront(l) \/ PopBack(l) \/ Reverse_(l) \/ Sort(l)
  \/ \E l \in List : \E i \in DOMAIN model[l] : Delete(l, i)
  \/ \E l \in List, d \in List : d # l /\ Unique(l, d)
  \/ \E l \in List, d \in List : d # l /\
       \E i \in 1..Len(model[l]) + 1 : \E j \in i..Len(model[l]) + 1 :
         \E k \in 1..Len(model[d]) + 1 : Splice(l, d, i, j, k)

-----------------------------------------------------------------------------
(* Properties *)

Linked(h, l) == LET chain == <<Head_(l)>> \o model[l] \o <<Tail_(l)>> IN
  /\ \A i \in 1..Len(chain) - 1 : h.next[chain[i]] = chain[i + 1]
                                  /\ h.prev[chain[i + 1]] = chain[i]
  /\ h.prev[Head_(l)] = Nil /\ h.next[Tail_(l)] = Nil

(* After any operation of list.c the links of both lists, followed either  *)
(* way, give the sequences the operation stands for - sorting is stable,   *)
(* duplicates move in order - and size, maximum and minimum agree.         *)
ListsAreSequences ==
  \A l \in List :
    /\ Linked(heap, l)
    /\ list_size(heap, l) = Len(model[l])
    /\ LET s == model[l]
           first(better(_, _)) == CHOOSE i \in DOMAIN s :
              /\ \A j \in DOMAIN s : ~better(key[s[j]], key[s[i]])
              /\ \A j \in 1..i - 1 : better(key[s[i]], key[s[j]])
       IN s # << >> => /\ list_max(heap, l) = s[first(LAMBDA a, b : a > b)]
                       /\ list_min(heap, l) = s[first(LAMBDA a, b : a < b)]
=============================================================================
