--------------------------- MODULE ServingProofs ----------------------------
(***************************************************************************)
(* The two parts of a key-value server that its threads share.  One set of *)
(* the cache, for every capacity of at least two and every set of keys and *)
(* values: it never holds more than ElemPerSet entries and never a key     *)
(* twice, and a full set evicts by second chance.  The queue of accepted   *)
(* sockets, for any number of threads and jobs: wq_push and wq_pop hand    *)
(* out every job once and in order.  The server around the queue keeps     *)
(* that, strands no socket and drops no accepted client, for any number of *)
(* clients, worker threads and descriptors.                                *)
(***************************************************************************)
EXTENDS SocketServer, KVCacheSet, SequenceTheorems, TLAPS

\* No two positions of a list hold the same key.
Distinct(es) ==
  \A i, j \in 1..Len(es) : es[i].key = es[j].key => i = j

Lacks(es, k) == \A i \in 1..Len(es) : es[i].key # k

\* num_entries never underestimates the list between two calls, and the loop
\* is only entered with the counter at its limit.
Counted ==
  /\ put_pc = "idle" => Len(entries) <= num_entries
  /\ put_pc = "loop" => Len(entries) <= ElemPerSet
  /\ put_pc = "insert" => Len(entries) < ElemPerSet
  /\ put_pc # "idle" => num_entries = ElemPerSet

\* The loop always looks at the head of the list, and runs off the end only
\* of a list with at most one entry.
AtHead ==
  put_pc = "loop" =>
    \/ Len(entries) >= 1 /\ el = entries[1].key
    \/ Len(entries) <= 1 /\ el = NoValue

\* An entry is being inserted.
Pending == put_pc # "idle" => new \in Entries

CacheInv == CacheTypeOK /\ Counted /\ AtHead /\ Pending /\ NoDuplicates

-----------------------------------------------------------------------------
\* Changing the reference bit of an entry keeps its type and its key.
LEMMA SetRef ==
  ASSUME NEW e \in Entries, NEW r \in BOOLEAN
  PROVE  [e EXCEPT !.ref = r] \in Entries /\ [e EXCEPT !.ref = r].key = e.key
  BY DEF Entries

\* The elements of a list of entries.
LEMMA ElementType ==
  ASSUME NEW es \in Seq(Entries), NEW i \in 1..Len(es)
  PROVE  es[i] \in Entries /\ es[i].key \in Keys
  <1>1. es[i] \in Entries
    OBVIOUS
  <1> QED BY <1>1 DEF Entries

\* IndexOf returns a position that holds the key.
LEMMA IndexOfFound ==
  ASSUME NEW es \in Seq(Entries), NEW k, Holds(es, k)
  PROVE  IndexOf(es, k) \in 1..Len(es) /\ es[IndexOf(es, k)].key = k
  BY DEF Holds, IndexOf

\* IndexOf returns 0 only if no position holds the key.
LEMMA IndexOfMissing ==
  ASSUME NEW es \in Seq(Entries), NEW k, ~Holds(es, k)
  PROVE  Lacks(es, k)
  BY DEF Holds, IndexOf, Lacks

\* What unlinking an entry leaves.
LEMMA WithoutFacts ==
  ASSUME NEW es \in Seq(Entries), NEW i \in 1..Len(es)
  PROVE  /\ Without(es, i) \in Seq(Entries)
         /\ Len(Without(es, i)) = Len(es) - 1
         /\ \A j \in 1..(Len(es) - 1) :
              Without(es, i)[j] = IF j < i THEN es[j] ELSE es[j + 1]
  <1> DEFINE a == SubSeq(es, 1, i - 1)
             b == SubSeq(es, i + 1, Len(es))
  <1>1. a \in Seq(Entries) /\ Len(a) = i - 1
        /\ \A j \in 1..(i - 1) : a[j] = es[j]
    OBVIOUS
  <1>2. b \in Seq(Entries) /\ Len(b) = Len(es) - i
        /\ \A j \in 1..(Len(es) - i) : b[j] = es[i + j]
    OBVIOUS
  <1> HIDE DEF a, b
  <1>3. Without(es, i) = a \o b
    BY DEF Without, a, b
  <1>4. a \o b \in Seq(Entries) /\ Len(a \o b) = Len(es) - 1
    <2>1. a \o b \in Seq(Entries)
      BY <1>1, <1>2
    <2>2. Len(a \o b) = Len(a) + Len(b)
      BY <1>1, <1>2, ConcatProperties, Zenon
    <2> QED BY <1>1, <1>2, <2>1, <2>2
  <1>5. ASSUME NEW j \in 1..(Len(es) - 1)
        PROVE  (a \o b)[j] = IF j < i THEN es[j] ELSE es[j + 1]
    <2>1. CASE j < i
      BY <1>1, <1>2, <2>1
    <2>2. CASE ~(j < i)
      <3>1. (a \o b)[j] = b[j - (i - 1)]
        BY <1>1, <1>2, <2>2
      <3>2. j - (i - 1) \in 1..(Len(es) - i) /\ i + (j - (i - 1)) = j + 1
        BY <2>2
      <3> QED BY <1>2, <2>2, <3>1, <3>2
    <2> QED BY <2>1, <2>2, Zenon
  <1> QED BY <1>3, <1>4, <1>5

\* Unlinking keeps the keys distinct and removes the key at i.
LEMMA WithoutDistinct ==
  ASSUME NEW es \in Seq(Entries), NEW i \in 1..Len(es), Distinct(es)
  PROVE  Distinct(Without(es, i)) /\ Lacks(Without(es, i), es[i].key)
  <1> DEFINE w == Without(es, i)
  <1>1. /\ w \in Seq(Entries) /\ Len(w) = Len(es) - 1
        /\ \A j \in 1..(Len(es) - 1) :
             w[j] = IF j < i THEN es[j] ELSE es[j + 1]
    BY WithoutFacts
  <1> HIDE DEF w
  <1>2. Distinct(w)
    <2> DEFINE old(j) == IF j < i THEN j ELSE j + 1
    <2>1. \A j \in 1..Len(w) : old(j) \in 1..Len(es) /\ w[j] = es[old(j)]
      BY <1>1
    <2>2. \A j, l \in 1..Len(w) : old(j) = old(l) => j = l
      BY <1>1
    <2> HIDE DEF old
    <2> SUFFICES ASSUME NEW j \in 1..Len(w), NEW l \in 1..Len(w), w[j].key = w[l].key
                 PROVE  j = l
      BY DEF Distinct
    <2>3. /\ old(j) \in 1..Len(es) /\ old(l) \in 1..Len(es)
          /\ es[old(j)].key = es[old(l)].key
      BY <2>1
    <2>4. old(j) = old(l)
      BY <2>3, Zenon DEF Distinct
    <2> QED BY <2>2, <2>4, Zenon
  <1>3. Lacks(w, es[i].key)
    <2>1. \A j \in 1..Len(w) : \E m \in 1..Len(es) : m # i /\ w[j] = es[m]
      BY <1>1
    <2> QED BY <2>1, Zenon DEF Distinct, Lacks
  <1> QED BY <1>2, <1>3 DEF w

\* Unlinking adds no key.
LEMMA WithoutLacks ==
  ASSUME NEW es \in Seq(Entries), NEW i \in 1..Len(es), NEW k, Lacks(es, k)
  PROVE  Lacks(Without(es, i), k)
  <1> DEFINE w == Without(es, i)
  <1>1. /\ Len(w) = Len(es) - 1
        /\ \A j \in 1..(Len(es) - 1) :
             w[j] = IF j < i THEN es[j] ELSE es[j + 1]
    BY WithoutFacts
  <1> HIDE DEF w
  <1>2. \A j \in 1..Len(w) : \E m \in 1..Len(es) : w[j] = es[m]
    BY <1>1
  <1>3. Lacks(w, k)
    BY <1>2, Zenon DEF Lacks
  <1> QED BY <1>3 DEF w

\* Appending an entry whose key is not in the list keeps the keys distinct.
LEMMA AppendDistinct ==
  ASSUME NEW es \in Seq(Entries), NEW e \in Entries,
         Distinct(es), Lacks(es, e.key)
  PROVE  Distinct(Append(es, e))
  BY DEF Distinct, Lacks

\* Replacing an entry by one with the same key.
LEMMA ReplaceFacts ==
  ASSUME NEW es \in Seq(Entries), NEW i \in 1..Len(es),
         NEW e \in Entries, e.key = es[i].key
  PROVE  /\ [es EXCEPT ![i] = e] \in Seq(Entries)
         /\ Len([es EXCEPT ![i] = e]) = Len(es)
         /\ Distinct(es) => Distinct([es EXCEPT ![i] = e])
  BY DEF Distinct

-----------------------------------------------------------------------------
LEMMA CacheInitInv == CacheInit => CacheInv
  BY KVCacheSetAssumption
     DEF CacheInit, CacheInv, CacheTypeOK, Counted, AtHead, Pending, NoDuplicates, NoEntry

\* Every step preserves the inductive invariant.
LEMMA CacheStepInv == CacheInv /\ [CacheNext]_cacheVars => CacheInv'
  <1> SUFFICES ASSUME CacheInv, [CacheNext]_cacheVars PROVE CacheInv'
    OBVIOUS
  <1> USE KVCacheSetAssumption
  <1>0. /\ entries \in Seq(Entries) /\ Len(entries) \in Nat
        /\ num_entries \in 0..ElemPerSet
        /\ Distinct(entries)
        /\ put_pc # "idle" => Lacks(entries, new.key)
    BY DEF CacheInv, CacheTypeOK, NoDuplicates, Distinct, Lacks
  <1>a. ASSUME NEW k \in Keys, NEW e \in Entries, e.key = k,
               put_pc = "idle", Holds(entries, k),
               entries' = [entries EXCEPT ![IndexOf(entries, k)] = e],
               UNCHANGED <<num_entries, put_pc, new, el, before>>
        PROVE  CacheInv'
    <2>1. IndexOf(entries, k) \in 1..Len(entries)
          /\ entries[IndexOf(entries, k)].key = k
      BY <1>0, <1>a, IndexOfFound
    <2>2. entries' \in Seq(Entries) /\ Len(entries') = Len(entries)
          /\ Distinct(entries')
      BY <1>0, <1>a, <2>1, ReplaceFacts, Zenon
    <2> QED
      BY <1>a, <2>2 DEF CacheInv, CacheTypeOK, Counted, AtHead, Pending,
                        NoDuplicates, Distinct
  <1>1. ASSUME NEW k \in Keys, Get(k) PROVE CacheInv'
    <2> DEFINE i == IndexOf(entries, k)
               e == [entries[i] EXCEPT !.ref = TRUE]
    <2>1. i \in 1..Len(entries) /\ entries[i].key = k
      BY <1>0, <1>1, IndexOfFound DEF Get
    <2>2. e \in Entries /\ e.key = k
      BY <1>0, <2>1, ElementType, SetRef, Zenon
    <2>3. entries' = [entries EXCEPT ![i] = e]
      BY <1>1 DEF Get
    <2> HIDE DEF i, e
    <2> QED BY <1>1, <1>a, <2>2, <2>3, Zenon DEF Get, i
  <1>2. ASSUME NEW k \in Keys, NEW v \in Values, PutUpdate(k, v) PROVE CacheInv'
    <2>1. Entry(k, v, TRUE) \in Entries /\ Entry(k, v, TRUE).key = k
      BY DEF Entry, Entries
    <2> QED BY <1>2, <1>a, <2>1, Zenon DEF PutUpdate
  <1>3. ASSUME NEW k \in Keys, NEW v \in Values, PutRoom(k, v) PROVE CacheInv'
    <2> DEFINE e == Entry(k, v, FALSE)
    <2>1. e \in Entries /\ e.key = k
      BY DEF Entry, Entries
    <2>2. Lacks(entries, k)
      BY <1>0, <1>3, IndexOfMissing DEF PutRoom
    <2>3. /\ entries' = Append(entries, e)
          /\ put_pc = "idle" /\ num_entries < ElemPerSet
          /\ num_entries' = num_entries + 1
          /\ UNCHANGED <<put_pc, new, el, before>>
      BY <1>3 DEF PutRoom
    <2> HIDE DEF e
    <2>4. entries' \in Seq(Entries) /\ Len(entries') = Len(entries) + 1
      BY <1>0, <2>1, <2>3
    <2>5. Distinct(entries')
      BY <1>0, <2>1, <2>2, <2>3, AppendDistinct
    <2>6. CacheTypeOK' /\ Counted'
      BY <1>0, <2>3, <2>4 DEF CacheInv, CacheTypeOK, Counted
    <2> QED
      BY <2>3, <2>5, <2>6 DEF CacheInv, AtHead, Pending, NoDuplicates, Distinct
  <1>4. ASSUME NEW k \in Keys, NEW v \in Values, PutEvict(k, v) PROVE CacheInv'
    <2>1. Entry(k, v, FALSE) \in Entries /\ Entry(k, v, FALSE).key = k
      BY DEF Entry, Entries
    <2>2. Lacks(entries, k)
      BY <1>0, <1>4, IndexOfMissing DEF PutEvict
    <2>a. HeadOf(entries) \in Keys \cup {NoValue}
      BY <1>0, ElementType DEF HeadOf
    <2>3. CacheTypeOK'
      BY <1>0, <1>4, <2>1, <2>a, Zenon DEF PutEvict, CacheInv, CacheTypeOK
    <2>4. AtHead'
      BY <1>0, <1>4 DEF PutEvict, AtHead, HeadOf
    <2>5. NoDuplicates'
      BY <1>0, <1>4, <2>1, <2>2, Zenon
         DEF PutEvict, NoDuplicates, Distinct, Lacks
    <2>6. Counted'
      BY <1>0, <1>4 DEF PutEvict, CacheInv, Counted
    <2>7. Pending'
      BY <1>4, <2>1, Zenon DEF PutEvict, Pending
    <2> QED BY <2>3, <2>4, <2>5, <2>6, <2>7 DEF CacheInv
  <1>5. ASSUME Visit PROVE CacheInv'
    <2> DEFINE i == IndexOf(entries, el)
    <2>1. put_pc = "loop" /\ Len(entries) >= 1 /\ el = entries[1].key
      BY <1>5 DEF Visit, CacheInv, AtHead
    <2>2. i = 1
      <3>1. Holds(entries, el)
        BY <1>0, <2>1 DEF Holds, IndexOf
      <3>2. i \in 1..Len(entries) /\ entries[i].key = el
        BY <1>0, <3>1, IndexOfFound
      <3> QED BY <1>0, <2>1, <3>2 DEF Distinct
    <2> DEFINE w == Without(entries, 1)
    <2>3. /\ w \in Seq(Entries) /\ Len(w) = Len(entries) - 1
          /\ \A j \in 1..(Len(entries) - 1) : w[j] = entries[j + 1]
      <3>1. 1 \in 1..Len(entries)
        BY <1>0, <2>1
      <3>2. /\ w \in Seq(Entries) /\ Len(w) = Len(entries) - 1
            /\ \A j \in 1..(Len(entries) - 1) :
                 w[j] = IF j < 1 THEN entries[j] ELSE entries[j + 1]
        BY <1>0, <3>1, WithoutFacts, Zenon
      <3>3. \A j \in 1..(Len(entries) - 1) : ~(j < 1)
        BY <1>0
      <3> QED BY <3>2, <3>3, Zenon
    <2>4. Distinct(w) /\ Lacks(w, entries[1].key) /\ Lacks(w, new.key)
      BY <1>0, <2>1, WithoutDistinct, WithoutLacks
    <2>5. CASE entries[1].ref
      <3> DEFINE e == [entries[1] EXCEPT !.ref = FALSE]
      <3>a. entries[1] \in Entries
        BY <1>0, <2>1, ElementType
      <3>1. e \in Entries /\ e.key = entries[1].key
        BY <3>a, SetRef, Zenon
      <3>2. /\ entries' = Append(w, e) /\ el' = NextOf(entries, 1)
            /\ UNCHANGED <<put_pc, num_entries, new, before>>
        BY <1>5, <2>2, <2>5 DEF Visit
      <3> HIDE DEF e, w
      <3>3. entries' \in Seq(Entries) /\ Len(entries') = Len(entries)
        BY <1>0, <2>1, <2>3, <3>1, <3>2
      <3>4. Distinct(entries')
        BY <2>3, <2>4, <3>1, <3>2, AppendDistinct
      <3>5. Lacks(entries', new.key)
        BY <1>0, <2>1, <2>3, <2>4, <3>1, <3>2 DEF Lacks
      <3>6. AtHead'
        <4>1. CASE Len(entries) = 1
          BY <3>2, <3>3, <4>1 DEF AtHead, NextOf
        <4>2. CASE Len(entries) > 1
          <5>1. entries'[1] = entries[2]
            BY <1>0, <2>3, <3>1, <3>2, <4>2
          <5> QED BY <1>0, <3>2, <3>3, <4>2, <5>1 DEF AtHead, NextOf
        <4>3. Len(entries) = 1 \/ Len(entries) > 1
          <5>1. Len(entries) \in Nat /\ Len(entries) >= 1
            BY <1>0, <2>1
          <5>2. \A n \in Nat : n >= 1 => n = 1 \/ n > 1
            OBVIOUS
          <5> QED BY <5>1, <5>2, Zenon
        <4> QED BY <4>1, <4>2, <4>3
      <3>7. el' \in Keys \cup {NoValue}
        BY <1>0, <2>1, <3>2, ElementType DEF NextOf
      <3>8. CacheTypeOK'
        BY <3>2, <3>3, <3>7 DEF CacheInv, CacheTypeOK
      <3>9. Counted' /\ Pending' /\ NoDuplicates'
        BY <2>1, <3>2, <3>3, <3>4, <3>5
           DEF CacheInv, Counted, Pending, NoDuplicates, Distinct, Lacks
      <3> QED BY <3>6, <3>8, <3>9 DEF CacheInv
    <2>6. CASE ~entries[1].ref
      <3>2. /\ entries' = w /\ put_pc' = "insert"
            /\ UNCHANGED <<el, num_entries, new, before>>
        BY <1>5, <2>2, <2>6 DEF Visit
      <3> HIDE DEF w
      <3>3. CacheTypeOK' /\ AtHead'
        BY <2>3, <3>2 DEF CacheInv, CacheTypeOK, AtHead
      <3>4. Counted' /\ Pending'
        BY <1>0, <2>1, <2>3, <3>2 DEF CacheInv, Counted, Pending
      <3>5. NoDuplicates'
        BY <2>4, <3>2 DEF NoDuplicates, Distinct, Lacks
      <3> QED BY <3>3, <3>4, <3>5 DEF CacheInv
    <2> QED BY <2>5, <2>6
  <1>6. ASSUME LoopEnd PROVE CacheInv'
    <2>1. Len(entries) <= 1
      BY <1>0, <1>6, ElementType DEF LoopEnd, CacheInv, AtHead
    <2> QED
      BY <1>0, <1>6, <2>1 DEF LoopEnd, CacheInv, CacheTypeOK, Counted, AtHead,
                              Pending, NoDuplicates
  <1>7. ASSUME Insert PROVE CacheInv'
    <2>1. new \in Entries /\ Lacks(entries, new.key)
      BY <1>0, <1>7 DEF Insert, CacheInv, Pending
    <2>2. entries' \in Seq(Entries) /\ Len(entries') = Len(entries) + 1
      BY <1>0, <1>7, <2>1 DEF Insert
    <2>3. Distinct(entries')
      BY <1>0, <1>7, <2>1, AppendDistinct DEF Insert
    <2> QED
      BY <1>0, <1>7, <2>2, <2>3 DEF Insert, CacheInv, CacheTypeOK, Counted, AtHead,
                              Pending, NoDuplicates, Distinct
  <1>8. ASSUME NEW k \in Keys, Del(k) PROVE CacheInv'
    <2> DEFINE i == IndexOf(entries, k)
    <2>1. i \in 1..Len(entries)
      BY <1>0, <1>8, IndexOfFound DEF Del
    <2>2. entries' \in Seq(Entries) /\ Len(entries') = Len(entries) - 1
          /\ Distinct(entries')
      BY <1>0, <1>8, <2>1, WithoutFacts, WithoutDistinct DEF Del
    <2> QED
      BY <1>0, <1>8, <2>2 DEF Del, CacheInv, CacheTypeOK, Counted, AtHead,
                              Pending, NoDuplicates, Distinct
  <1>9. ASSUME Clear PROVE CacheInv'
    BY <1>0, <1>9 DEF Clear, CacheInv, CacheTypeOK, Counted, AtHead, Pending,
                      NoDuplicates
  <1>10. ASSUME UNCHANGED cacheVars PROVE CacheInv'
    BY <1>10 DEF cacheVars, CacheInv, CacheTypeOK, Counted, AtHead, Pending, NoDuplicates
  <1> QED
    BY <1>1, <1>2, <1>3, <1>4, <1>5, <1>6, <1>7, <1>8, <1>9, <1>10 DEF CacheNext

\* Type correctness of the cache set, the counter's range included.
THEOREM CacheTypeCorrect == CacheSpec => []CacheTypeOK
  <1>1. CacheInv => CacheTypeOK
    BY DEF CacheInv
  <1> QED BY CacheInitInv, CacheStepInv, <1>1, PTL DEF CacheSpec

\* The set never exceeds its capacity, although kvcacheset_del leaves
\* num_entries behind and the loop may end without evicting.
THEOREM NeverOverCapacity == CacheSpec => []SizeBound
  <1>1. CacheInv => SizeBound
    BY KVCacheSetAssumption DEF CacheInv, CacheTypeOK, Counted, SizeBound
  <1> QED BY CacheInitInv, CacheStepInv, <1>1, PTL DEF CacheSpec

\* No key is ever in the list twice.
THEOREM KeysDistinct == CacheSpec => []NoDuplicates
  <1>1. CacheInv => NoDuplicates
    BY DEF CacheInv
  <1> QED BY CacheInitInv, CacheStepInv, <1>1, PTL DEF CacheSpec

\* The list after v visits of the eviction loop that found the bit set: the
\* visited entries, unmarked, are behind the others.
Unmarked(e) == [e EXCEPT !.ref = FALSE]
Rotated(es, v) ==
  [i \in 1..Len(es) |-> IF i + v <= Len(es) THEN es[i + v] ELSE Unmarked(es[i + v - Len(es)])]

\* How far the loop is; it runs off the end only of a list of at most one.
Turned(es, old, k, v) ==
  /\ es = Rotated(old, v) /\ \A i \in 1..v : old[i].ref
  /\ k = NoValue <=> v = Len(old) /\ Len(old) <= 1
Turning == put_pc = "loop" => \E v \in 0..Len(before) : Turned(entries, before, el, v)

EvictInv == CacheInv /\ Turning /\ EvictsBySecondChance

\* The closed form where some entry is not marked.
LEMMA ChanceOfUnmarked ==
  ASSUME NEW es \in Seq(Entries), NEW v \in 0..Len(es) - 1,
         \A i \in 1..v : es[i].ref, ~es[v + 1].ref
  PROVE  SecondChance(es) = SubSeq(es, v + 2, Len(es)) \o Cleared(SubSeq(es, 1, v))
  <1> DEFINE n == Len(es)
             Unref == {i \in 1..n : ~es[i].ref}
             first == CHOOSE i \in Unref : \A j \in Unref : i <= j
  <1>1. v + 1 \in Unref
    OBVIOUS
  <1>2. \A j \in Unref : v + 1 <= j
    OBVIOUS
  <1>3. \A i \in Unref : i \in Nat
    OBVIOUS
  <1>4. first \in Unref /\ \A j \in Unref : first <= j
    BY <1>1, <1>2, Zenon
  <1>5. first = v + 1
    <2>1. first <= v + 1 /\ v + 1 <= first /\ first \in Nat
      BY <1>1, <1>2, <1>3, <1>4, Zenon
    <2> HIDE DEF first
    <2> QED BY <2>1
  <1>6. SecondChance(es) = SubSeq(es, first + 1, n) \o Cleared(SubSeq(es, 1, first - 1))
    BY <1>1, Zenon DEF SecondChance
  <1>7. first + 1 = v + 2 /\ first - 1 = v
    BY <1>5
  <1> QED BY <1>6, <1>7, Zenon

\* The closed form where every entry is marked.
LEMMA ChanceOfMarked ==
  ASSUME NEW es \in Seq(Entries), \A i \in 1..Len(es) : es[i].ref
  PROVE  SecondChance(es) = IF Len(es) <= 1 THEN Cleared(es) ELSE Cleared(Tail(es))
  <1>1. {i \in 1..Len(es) : ~es[i].ref} = {}
    OBVIOUS
  <1> QED BY <1>1, Zenon DEF SecondChance

\* Two lists with the same elements.
LEMMA SameList ==
  ASSUME NEW a \in Seq(Entries), NEW b \in Seq(Entries), Len(a) = Len(b),
         \A i \in 1..Len(a) : a[i] = b[i]
  PROVE  a = b
  BY SeqEqual, Zenon

\* What is behind an entry.
LEMMA Suffix ==
  ASSUME NEW es \in Seq(Entries), NEW i \in 1..Len(es)
  PROVE  /\ SubSeq(es, i + 1, Len(es)) \in Seq(Entries)
         /\ Len(SubSeq(es, i + 1, Len(es))) = Len(es) - i
         /\ \A j \in 1..Len(es) - i : SubSeq(es, i + 1, Len(es))[j] = es[i + j]
  OBVIOUS

\* Clearing the reference bits.
LEMMA ClearedFacts ==
  ASSUME NEW es \in Seq(Entries)
  PROVE  /\ Cleared(es) \in Seq(Entries) /\ Len(Cleared(es)) = Len(es)
         /\ \A i \in 1..Len(es) : Cleared(es)[i] = Unmarked(es[i])
  <1>1. \A i \in 1..Len(es) : [es[i] EXCEPT !.ref = FALSE] \in Entries
    BY ElementType, SetRef, Zenon
  <1>2. Cleared(es) \in [1..Len(es) -> Entries]
    BY <1>1, Zenon DEF Cleared
  <1>3. Len(es) \in Nat
    OBVIOUS
  <1>4. Cleared(es) \in Seq(Entries) /\ Len(Cleared(es)) = Len(es)
    BY <1>2, <1>3
  <1> QED BY <1>4, Zenon DEF Cleared, Unmarked

\* The rotated list.
LEMMA RotatedFacts ==
  ASSUME NEW es \in Seq(Entries), NEW v \in 0..Len(es)
  PROVE  /\ Rotated(es, v) \in Seq(Entries) /\ Len(Rotated(es, v)) = Len(es)
         /\ \A i \in 1..Len(es) :
              Rotated(es, v)[i] = IF i + v <= Len(es) THEN es[i + v]
                                  ELSE Unmarked(es[i + v - Len(es)])
  <1>1. \A i \in 1..Len(es) : es[i] \in Entries /\ Unmarked(es[i]) \in Entries
    BY ElementType, SetRef, Zenon DEF Unmarked
  <1>2. \A i \in 1..Len(es) : IF i + v <= Len(es) THEN i + v \in 1..Len(es)
                              ELSE i + v - Len(es) \in 1..Len(es)
    OBVIOUS
  <1>3. Rotated(es, v) \in [1..Len(es) -> Entries]
    BY <1>1, <1>2, Zenon DEF Rotated
  <1>4. Len(es) \in Nat
    OBVIOUS
  <1>5. Rotated(es, v) \in Seq(Entries) /\ Len(Rotated(es, v)) = Len(es)
    BY <1>3, <1>4
  <1> QED BY <1>5, Zenon DEF Rotated

\* A visit that finds the bit set turns the list by one.
LEMMA VisitTurns ==
  ASSUME NEW old \in Seq(Entries), NEW v \in 0..Len(old), NEW w \in Seq(Entries),
         Len(old) >= 1, \A i \in 1..v : old[i].ref, Rotated(old, v)[1].ref,
         Len(w) = Len(old) - 1, \A j \in 1..Len(old) - 1 : w[j] = Rotated(old, v)[j + 1]
  PROVE  /\ v < Len(old) /\ \A i \in 1..v + 1 : old[i].ref
         /\ Append(w, Unmarked(Rotated(old, v)[1])) = Rotated(old, v + 1)
  <1> DEFINE n == Len(old)
             r == Rotated(old, v)
  <1>0. n \in Nat \ {0} /\ v \in 0..n
    OBVIOUS
  <1>1. /\ r \in Seq(Entries) /\ Len(r) = n
        /\ \A i \in 1..n : r[i] = IF i + v <= n THEN old[i + v] ELSE Unmarked(old[i + v - n])
    BY RotatedFacts, Zenon
  <1>2. \A i \in 1..n : old[i] \in Entries /\ Unmarked(old[i]) \in Entries /\ ~Unmarked(old[i]).ref
    <2>1. ASSUME NEW i \in 1..n PROVE old[i] \in Entries
      BY ElementType, Zenon
    <2> QED BY <2>1 DEF Unmarked, Entries
  <1> HIDE DEF n
  <1>3. v < n
    <2> SUFFICES ASSUME v = n PROVE FALSE
      BY <1>0
    <2>1. r[1] = Unmarked(old[1]) /\ 1 \in 1..n
      BY <1>0, <1>1
    <2> QED BY <1>2, <2>1, Zenon
  <1>4. r[1] = old[v + 1] /\ v + 1 \in 1..n
    BY <1>0, <1>1, <1>3
  <1>5. \A i \in 1..v + 1 : old[i].ref
    <2>1. \A i \in 1..v + 1 : i \in 1..v \/ i = v + 1
      BY <1>0
    <2> QED BY <1>4, <2>1, Zenon
  <1>6. /\ Rotated(old, v + 1) \in Seq(Entries) /\ Len(Rotated(old, v + 1)) = n
        /\ \A i \in 1..n : Rotated(old, v + 1)[i] =
              IF i + (v + 1) <= n THEN old[i + (v + 1)] ELSE Unmarked(old[i + (v + 1) - n])
    <2>1. v + 1 \in 0..Len(old)
      BY <1>0, <1>3 DEF n
    <2> QED BY <2>1, RotatedFacts, Zenon DEF n
  <1> DEFINE x == Unmarked(old[v + 1])
             a == Append(w, x)
             b == Rotated(old, v + 1)
  <1>7. x \in Entries
    BY <1>2, <1>4, Zenon
  <1>8. Len(w) = n - 1 /\ \A j \in 1..n - 1 : w[j] = r[j + 1]
    BY DEF n
  <1> HIDE DEF x, r, b
  <1>9. a \in Seq(Entries) /\ Len(a) = n /\ a[n] = x /\ \A j \in 1..n - 1 : a[j] = w[j]
    BY <1>0, <1>7, <1>8
  <1> HIDE DEF a
  <1>10. b[n] = x
    <2>1. n \in 1..n /\ ~(n + (v + 1) <= n) /\ n + (v + 1) - n = v + 1
      BY <1>0
    <2> QED BY <1>6, <2>1, Zenon DEF b, x
  <1>11. ASSUME NEW j \in 1..n - 1 PROVE a[j] = b[j]
    <2>1. a[j] = r[j + 1] /\ j \in 1..n /\ j + 1 \in 1..n /\ (j + 1) + v = j + (v + 1)
      BY <1>0, <1>8, <1>9
    <2>2. CASE j + (v + 1) <= n
      BY <1>1, <1>6, <2>1, <2>2, Zenon DEF b
    <2>3. CASE ~(j + (v + 1) <= n)
      <3>1. r[j + 1] = Unmarked(old[(j + 1) + v - n])
        BY <1>1, <2>1, <2>3, Zenon
      <3>2. b[j] = Unmarked(old[j + (v + 1) - n])
        BY <1>6, <2>1, <2>3, Zenon DEF b
      <3>3. (j + 1) + v - n = j + (v + 1) - n
        BY <1>0
      <3> QED BY <2>1, <3>1, <3>2, <3>3, Zenon
    <2> QED BY <2>2, <2>3, Zenon
  <1>12. \A j \in 1..n : j \in 1..n - 1 \/ j = n
    BY <1>0
  <1>13. a = b
    <2>1. \A j \in 1..Len(a) : a[j] = b[j]
      BY <1>9, <1>10, <1>11, <1>12, Zenon
    <2>2. b \in Seq(Entries) /\ Len(a) = Len(b)
      BY <1>6, <1>9, Zenon DEF b
    <2> QED BY <1>9, <2>1, <2>2, SameList, Zenon
  <1> QED BY <1>3, <1>4, <1>5, <1>13, Zenon DEF a, b, x, r, n

\* A visit that finds the bit clear leaves what second chance leaves.
LEMMA VisitEvicts ==
  ASSUME NEW old \in Seq(Entries), NEW v \in 0..Len(old), NEW w \in Seq(Entries),
         Len(old) >= 1, v = Len(old) => Len(old) > 1,
         \A i \in 1..v : old[i].ref, ~Rotated(old, v)[1].ref,
         Len(w) = Len(old) - 1, \A j \in 1..Len(old) - 1 : w[j] = Rotated(old, v)[j + 1]
  PROVE  w = SecondChance(old)
  <1> DEFINE n == Len(old)
             r == Rotated(old, v)
  <1>0. n \in Nat \ {0} /\ v \in 0..n
    OBVIOUS
  <1>1. /\ r \in Seq(Entries) /\ Len(r) = n
        /\ \A i \in 1..n : r[i] = IF i + v <= n THEN old[i + v] ELSE Unmarked(old[i + v - n])
    BY RotatedFacts, Zenon
  <1> HIDE DEF r
  <1>2. CASE v < n
    <2>1. r[1] = old[v + 1] /\ v + 1 \in 1..n
      BY <1>0, <1>1, <1>2
    <2> DEFINE p == SubSeq(old, v + 2, n)
               q == Cleared(SubSeq(old, 1, v))
    <2>2. SecondChance(old) = p \o q
      <3>1. v \in 0..n - 1
        BY <1>0, <1>2
      <3> QED BY <2>1, <3>1, ChanceOfUnmarked, Zenon DEF r
    <2>3. p \in Seq(Entries) /\ Len(p) = n - (v + 1) /\ \A j \in 1..n - (v + 1) : p[j] = old[v + 1 + j]
      <3>1. v + 2 = (v + 1) + 1
        BY <1>0
      <3> DEFINE m == v + 1
      <3>2. m \in 1..Len(old)
        BY <2>1, Zenon
      <3> HIDE DEF m
      <3>3. /\ SubSeq(old, m + 1, n) \in Seq(Entries) /\ Len(SubSeq(old, m + 1, n)) = n - m
            /\ \A j \in 1..n - m : SubSeq(old, m + 1, n)[j] = old[m + j]
        BY <3>2, Suffix, Zenon
      <3> QED BY <3>1, <3>3, Zenon DEF m
    <2>4. q \in Seq(Entries) /\ Len(q) = v /\ \A j \in 1..v : q[j] = Unmarked(old[j])
      <3>1. /\ SubSeq(old, 1, v) \in Seq(Entries) /\ Len(SubSeq(old, 1, v)) = v
            /\ \A j \in 1..v : SubSeq(old, 1, v)[j] = old[j]
        BY <1>0
      <3> DEFINE u == SubSeq(old, 1, v)
      <3>2. /\ u \in Seq(Entries) /\ Len(u) = v /\ \A j \in 1..v : u[j] = old[j]
        BY <3>1, Zenon
      <3>3. q = Cleared(u)
        BY Zenon
      <3> HIDE DEF u, q
      <3>4. /\ q \in Seq(Entries) /\ Len(q) = Len(u)
            /\ \A j \in 1..Len(u) : q[j] = Unmarked(u[j])
        BY <3>2, <3>3, ClearedFacts, Zenon
      <3> QED BY <3>2, <3>4
    <2> HIDE DEF n, p, q
    <2>5. /\ p \o q \in Seq(Entries) /\ Len(p \o q) = n - 1
          /\ \A j \in 1..n - 1 : (p \o q)[j] = IF j <= n - (v + 1) THEN p[j] ELSE q[j - (n - (v + 1))]
      <3>1. p \o q \in Seq(Entries) /\ Len(p \o q) = Len(p) + Len(q)
        <4>1. p \o q \in Seq(Entries)
          BY <2>3, <2>4
        <4>2. p \in Seq(Entries) /\ q \in Seq(Entries)
          BY <2>3, <2>4, Zenon
        <4> QED BY <4>1, <4>2, ConcatProperties, Zenon
      <3>2. \A j \in 1..Len(p) + Len(q) : (p \o q)[j] = IF j <= Len(p) THEN p[j] ELSE q[j - Len(p)]
        BY <2>3, <2>4
      <3>3. Len(p) + Len(q) = n - 1
        BY <1>0, <2>3, <2>4
      <3> QED BY <2>3, <3>1, <3>2, <3>3, Zenon
    <2>6. ASSUME NEW j \in 1..n - 1 PROVE w[j] = (p \o q)[j]
      <3>1. w[j] = IF j + 1 + v <= n THEN old[j + 1 + v] ELSE Unmarked(old[j + 1 + v - n])
        <4>0. w[j] = r[j + 1]
          BY Zenon DEF n, r
        <4>1. w[j] = r[j + 1] /\ j + 1 \in 1..n
          BY <1>0, <4>0
        <4> QED BY <1>1, <4>1, Zenon
      <3>2. CASE j + 1 + v <= n
        <4>1. j <= n - (v + 1) /\ j \in 1..n - (v + 1) /\ v + 1 + j = j + 1 + v
          BY <1>0, <3>2
        <4>2. (p \o q)[j] = p[j]
          BY <2>5, <4>1, Zenon
        <4>3. p[j] = old[v + 1 + j]
          BY <2>3, <4>1, Zenon
        <4>4. w[j] = old[j + 1 + v]
          BY <3>1, <3>2, Zenon
        <4> QED BY <4>1, <4>2, <4>3, <4>4, Zenon
      <3>3. CASE ~(j + 1 + v <= n)
        <4>1. /\ ~(j <= n - (v + 1)) /\ j - (n - (v + 1)) \in 1..v
              /\ j - (n - (v + 1)) = j + 1 + v - n
          BY <1>0, <3>3
        <4>2. (p \o q)[j] = q[j - (n - (v + 1))]
          BY <2>5, <4>1, Zenon
        <4>3. q[j - (n - (v + 1))] = Unmarked(old[j - (n - (v + 1))])
          BY <2>4, <4>1, Zenon
        <4>4. w[j] = Unmarked(old[j + 1 + v - n])
          BY <3>1, <3>3, Zenon
        <4> QED BY <4>1, <4>2, <4>3, <4>4, Zenon
      <3> QED BY <3>2, <3>3, Zenon
    <2>7. Len(w) = n - 1
      BY DEF n
    <2> QED BY <2>2, <2>5, <2>6, <2>7, SameList, Zenon
  <1>3. CASE v = n
    <2> DEFINE q == Cleared(Tail(old))
    <2>1. SecondChance(old) = q
      <3>1. ~(n <= 1)
        BY <1>0, <1>3
      <3> QED BY <1>3, <3>1, ChanceOfMarked, Zenon
    <2>2. /\ Tail(old) \in Seq(Entries) /\ Len(Tail(old)) = n - 1
          /\ \A j \in 1..n - 1 : Tail(old)[j] = old[j + 1]
      BY <1>0
    <2>3. q \in Seq(Entries) /\ Len(q) = n - 1 /\ \A j \in 1..n - 1 : q[j] = Unmarked(old[j + 1])
      <3> DEFINE u == Tail(old)
      <3>1. u \in Seq(Entries) /\ Len(u) = n - 1 /\ \A j \in 1..n - 1 : u[j] = old[j + 1]
        BY <2>2, Zenon
      <3>2. q = Cleared(u)
        BY Zenon
      <3> HIDE DEF u, q, n
      <3>3. /\ q \in Seq(Entries) /\ Len(q) = Len(u)
            /\ \A j \in 1..Len(u) : q[j] = Unmarked(u[j])
        BY <3>1, <3>2, ClearedFacts, Zenon
      <3> QED BY <3>1, <3>3
    <2> HIDE DEF n, q
    <2>4. ASSUME NEW j \in 1..n - 1 PROVE w[j] = q[j]
      <3>1. w[j] = r[j + 1] /\ j + 1 \in 1..n /\ ~(j + 1 + v <= n) /\ j + 1 + v - n = j + 1
        <4>1. w[j] = r[j + 1]
          BY Zenon DEF n, r
        <4>2. j + 1 \in 1..n /\ ~(j + 1 + v <= n) /\ j + 1 + v - n = j + 1
          BY <1>0, <1>3
        <4> QED BY <4>1, <4>2, Zenon
      <3>2. r[j + 1] = Unmarked(old[j + 1 + v - n])
        BY <1>1, <3>1, Zenon
      <3>3. r[j + 1] = Unmarked(old[j + 1])
        BY <3>1, <3>2, Zenon
      <3>4. q[j] = Unmarked(old[j + 1])
        BY <2>3, Zenon
      <3> QED BY <3>1, <3>3, <3>4, Zenon
    <2>5. Len(w) = n - 1
      BY DEF n
    <2> QED BY <2>1, <2>3, <2>4, <2>5, SameList, Zenon
  <1> QED BY <1>0, <1>2, <1>3

\* Before the first visit the list is as it was.
LEMMA NotTurned ==
  ASSUME NEW es \in Seq(Entries)
  PROVE  Turned(es, es, HeadOf(es), 0)
  <1>1. /\ Rotated(es, 0) \in Seq(Entries) /\ Len(Rotated(es, 0)) = Len(es)
        /\ \A i \in 1..Len(es) : Rotated(es, 0)[i] =
             IF i + 0 <= Len(es) THEN es[i + 0] ELSE Unmarked(es[i + 0 - Len(es)])
    <2>1. 0 \in 0..Len(es)
      OBVIOUS
    <2> QED BY <2>1, RotatedFacts, Zenon
  <1>2. \A i \in 1..Len(es) : i + 0 = i /\ i <= Len(es)
    OBVIOUS
  <1>3. es = Rotated(es, 0)
    <2>1. \A i \in 1..Len(es) : es[i] = Rotated(es, 0)[i]
      BY <1>1, <1>2, Zenon
    <2> QED BY <1>1, <2>1, SameList, Zenon
  <1>4. \A i \in 1..0 : es[i].ref
    OBVIOUS
  <1>5. HeadOf(es) = NoValue <=> 0 = Len(es) /\ Len(es) <= 1
    <2>1. CASE es = << >>
      BY <2>1 DEF HeadOf
    <2>2. CASE es # << >>
      <3>1. 1 \in 1..Len(es) /\ Len(es) # 0
        BY <2>2
      <3>2. es[1].key \in Keys
        BY <3>1, ElementType, Zenon
      <3> QED BY <2>2, <3>1, <3>2, KVCacheSetAssumption, Zenon DEF HeadOf
    <2> QED BY <2>1, <2>2, Zenon
  <1> QED BY <1>3, <1>4, <1>5, Zenon DEF Turned

\* The loop that ran off the end of the list has unmarked its one entry.
LEMMA EndTurned ==
  ASSUME NEW es \in Seq(Entries), NEW old \in Seq(Entries), NEW v \in 0..Len(old),
         Turned(es, old, NoValue, v)
  PROVE  es = SecondChance(old)
  <1>1. v = Len(old) /\ Len(old) <= 1 /\ es = Rotated(old, v) /\ \A i \in 1..v : old[i].ref
    BY Zenon DEF Turned
  <1>2. SecondChance(old) = Cleared(old)
    BY <1>1, ChanceOfMarked, Zenon
  <1>3. /\ Len(es) = Len(old)
        /\ \A i \in 1..Len(old) : es[i] = IF i + v <= Len(old) THEN old[i + v]
                                          ELSE Unmarked(old[i + v - Len(old)])
    <2>1. /\ Len(Rotated(old, v)) = Len(old)
          /\ \A i \in 1..Len(old) :
               Rotated(old, v)[i] = IF i + v <= Len(old) THEN old[i + v]
                                    ELSE Unmarked(old[i + v - Len(old)])
      BY RotatedFacts, Zenon
    <2> QED BY <1>1, <2>1, Zenon
  <1>4. /\ Cleared(old) \in Seq(Entries) /\ Len(Cleared(old)) = Len(old)
        /\ \A i \in 1..Len(old) : Cleared(old)[i] = Unmarked(old[i])
    BY ClearedFacts, Zenon
  <1>5. \A i \in 1..Len(old) : ~(i + v <= Len(old)) /\ i + v - Len(old) = i
    BY <1>1
  <1>6. \A i \in 1..Len(es) : es[i] = Cleared(old)[i]
    BY <1>3, <1>4, <1>5, Zenon
  <1> QED BY <1>2, <1>3, <1>4, <1>6, SameList, Zenon

\* Every step keeps the loop on its way to the closed form.
LEMMA EvictStep == EvictInv /\ [CacheNext]_cacheVars => EvictInv'
  <1> SUFFICES ASSUME EvictInv, [CacheNext]_cacheVars PROVE EvictInv'
    OBVIOUS
  <1>0. CacheInv /\ CacheInv' /\ entries \in Seq(Entries) /\ before \in Seq(Entries)
    BY CacheStepInv, Zenon DEF EvictInv, CacheInv, CacheTypeOK
  <1> SUFFICES Turning' /\ EvictsBySecondChance'
    BY <1>0, Zenon DEF EvictInv
  <1>1. ASSUME put_pc' = "idle" PROVE Turning' /\ EvictsBySecondChance'
    BY <1>1 DEF Turning, EvictsBySecondChance
  <1>2. ASSUME NEW k \in Keys, NEW v \in Values, PutEvict(k, v)
        PROVE  Turning' /\ EvictsBySecondChance'
    <2>1. /\ put_pc' = "loop" /\ el' = HeadOf(entries) /\ before' = entries
          /\ entries' = entries
      BY <1>2, Zenon DEF PutEvict
    <2>2. Turned(entries', before', el', 0) /\ 0 \in 0..Len(before')
      <3>1. Turned(entries, entries, HeadOf(entries), 0)
        BY <1>0, NotTurned, Zenon
      <3>2. 0 \in 0..Len(entries)
        BY <1>0
      <3> QED BY <2>1, <3>1, <3>2, Zenon
    <2> QED BY <2>1, <2>2 DEF Turning, EvictsBySecondChance
  <1>3. CASE Visit
    <2>1. put_pc = "loop" /\ el # NoValue /\ before' = before
      BY <1>3, Zenon DEF Visit
    <2>2. PICK v \in 0..Len(before) : Turned(entries, before, el, v)
      BY <2>1, Zenon DEF EvictInv, Turning
    <2>3. /\ entries = Rotated(before, v) /\ \A i \in 1..v : before[i].ref
          /\ ~(v = Len(before) /\ Len(before) <= 1)
      BY <2>1, <2>2, Zenon DEF Turned
    <2>4. Len(entries) = Len(before)
      BY <1>0, <2>3, RotatedFacts, Zenon
    <2>5. Len(entries) >= 1 /\ el = entries[1].key /\ 1 \in 1..Len(entries)
      BY <1>0, <2>1 DEF CacheInv, AtHead
    <2>6. IndexOf(entries, el) = 1
      <3>1. Holds(entries, el)
        BY <1>0, <2>5 DEF Holds, IndexOf
      <3>2. IndexOf(entries, el) \in 1..Len(entries) /\ entries[IndexOf(entries, el)].key = el
        BY <1>0, <3>1, IndexOfFound, Zenon
      <3> QED BY <1>0, <2>5, <3>2, Zenon DEF CacheInv, NoDuplicates
    <2> DEFINE w == Without(entries, 1)
    <2>7. /\ w \in Seq(Entries) /\ Len(w) = Len(before) - 1
          /\ \A j \in 1..Len(before) - 1 : w[j] = Rotated(before, v)[j + 1]
      <3>1. /\ w \in Seq(Entries) /\ Len(w) = Len(entries) - 1
            /\ \A j \in 1..(Len(entries) - 1) :
                 w[j] = IF j < 1 THEN entries[j] ELSE entries[j + 1]
        BY <1>0, <2>5, WithoutFacts, Zenon
      <3>2. \A j \in 1..(Len(entries) - 1) : ~(j < 1)
        BY <1>0
      <3> HIDE DEF w
      <3>3. \A j \in 1..(Len(entries) - 1) : w[j] = entries[j + 1]
        BY <3>1, <3>2, Zenon
      <3> QED BY <2>3, <2>4, <3>1, <3>3, Zenon
    <2>8. Len(before) >= 1 /\ Len(before) \in Nat
      BY <1>0, <2>4, <2>5
    <2>9. CASE entries[1].ref
      <3>1. /\ entries' = Append(w, Unmarked(entries[1])) /\ el' = NextOf(entries, 1)
            /\ put_pc' = put_pc
        BY <1>3, <2>6, <2>9, Zenon DEF Visit, Unmarked
      <3> HIDE DEF w
      <3>2. /\ v < Len(before) /\ \A i \in 1..v + 1 : before[i].ref
            /\ entries' = Rotated(before, v + 1)
        BY <1>0, <2>3, <2>7, <2>8, <2>9, <3>1, VisitTurns, Zenon
      <3>3. el' = NoValue <=> v + 1 = Len(before) /\ Len(before) <= 1
        <4>1. CASE 1 < Len(entries)
          <5>1. el' \in Keys
            <6>1. 1 + 1 \in 1..Len(entries)
              BY <1>0, <4>1
            <6> QED BY <1>0, <3>1, <4>1, <6>1, ElementType, Zenon DEF NextOf
          <5>2. ~(Len(before) <= 1)
            BY <2>4, <2>8, <4>1
          <5> QED BY <5>1, <5>2, KVCacheSetAssumption, Zenon
        <4>2. CASE ~(1 < Len(entries))
          <5>1. el' = NoValue
            BY <3>1, <4>2, Zenon DEF NextOf
          <5>2. v + 1 = Len(before) /\ Len(before) <= 1
            BY <2>4, <2>8, <3>2, <4>2
          <5> QED BY <5>1, <5>2, Zenon
        <4> QED BY <4>1, <4>2, Zenon
      <3>4. v + 1 \in 0..Len(before)
        BY <2>8, <3>2
      <3>5. Turned(entries', before', el', v + 1)
        BY <2>1, <3>2, <3>3, Zenon DEF Turned
      <3>6. put_pc' = "loop" /\ put_pc' # "insert"
        BY <2>1, <3>1
      <3> QED BY <2>1, <3>4, <3>5, <3>6, Zenon DEF Turning, EvictsBySecondChance
    <2>10. CASE ~entries[1].ref
      <3>1. entries' = w /\ put_pc' = "insert"
        BY <1>3, <2>6, <2>10, Zenon DEF Visit
      <3> HIDE DEF w
      <3>2. v = Len(before) => Len(before) > 1
        BY <2>3, <2>8
      <3>3. entries' = SecondChance(before)
        BY <1>0, <2>3, <2>7, <2>8, <2>10, <3>1, <3>2, VisitEvicts, Zenon
      <3> QED BY <2>1, <3>1, <3>3 DEF Turning, EvictsBySecondChance
    <2> QED BY <2>9, <2>10, Zenon
  <1>4. CASE LoopEnd
    <2>1. /\ put_pc = "loop" /\ el = NoValue /\ put_pc' = "insert"
          /\ entries' = entries /\ before' = before
      BY <1>4, Zenon DEF LoopEnd
    <2>2. entries = SecondChance(before)
      BY <1>0, <2>1, EndTurned, Zenon DEF EvictInv, Turning
    <2> QED BY <2>1, <2>2 DEF Turning, EvictsBySecondChance
  <1>5. CASE UNCHANGED cacheVars
    BY <1>5, Zenon DEF cacheVars, EvictInv, Turning, EvictsBySecondChance
  <1>6. ASSUME NEW k \in Keys, NEW v \in Values,
               Get(k) \/ Del(k) \/ PutUpdate(k, v) \/ PutRoom(k, v) \/ Insert \/ Clear
        PROVE  put_pc' = "idle"
    BY <1>6, Zenon DEF Get, Del, PutUpdate, PutRoom, Insert, Clear
  <1>7. ASSUME NEW k \in Keys, Get(k) \/ Del(k) \/ Insert \/ Clear PROVE put_pc' = "idle"
    BY <1>7, Zenon DEF Get, Del, Insert, Clear
  <1>8. ASSUME Insert \/ Clear PROVE put_pc' = "idle"
    BY <1>8, Zenon DEF Insert, Clear
  <1> QED BY <1>1, <1>2, <1>3, <1>4, <1>5, <1>6, <1>7, <1>8, Zenon DEF CacheNext

\* kvcacheset_put evicts by the second-chance policy: for every capacity of at
\* least two, the loop that moves entries to the back of the list it walks
\* leaves exactly the closed form.
THEOREM AlwaysSecondChance == CacheSpec => []EvictsBySecondChance
  <1>1. CacheInit => EvictInv
    BY CacheInitInv DEF CacheInit, EvictInv, Turning, EvictsBySecondChance
  <1>2. EvictInv => EvictsBySecondChance
    BY Zenon DEF EvictInv
  <1> QED BY <1>1, <1>2, EvictStep, PTL DEF CacheSpec

-----------------------------------------------------------------------------
(* A thread inside its critical section owns wq->lock.                     *)
MutexHeld ==
  \A t \in Threads : pc[t] \in {"append", "head", "take"} => mutex = t

(* Between reading the head and deleting it, the head does not change.     *)
HeadStable ==
  \A t \in Poppers : pc[t] = "take" => queue # <<>> /\ job[t] = Head(queue)

(* A thread about to append has a job to append.                           *)
HasItem == \A t \in Pushers : pc[t] = "append" => job[t] \in Items

QueueInv == TypeOK /\ MutexHeld /\ HeadStable /\ HasItem /\ ExactlyOnceInOrder

(* Moving the head of one sequence to the end of another leaves their      *)
(* concatenation as it was.                                                *)
LEMMA MoveHead ==
  ASSUME NEW S, NEW r \in Seq(S), NEW q \in Seq(S), q # <<>>
  PROVE  Append(r, Head(q)) \o Tail(q) = r \o q
  <1>1. q = <<Head(q)>> \o Tail(q) /\ Tail(q) \in Seq(S) /\ Head(q) \in S
    OBVIOUS
  <1>2. Append(r, Head(q)) = r \o <<Head(q)>>
    BY <1>1
  <1>3. (r \o <<Head(q)>>) \o Tail(q) = r \o (<<Head(q)>> \o Tail(q))
    BY <1>1
  <1> QED
    BY <1>1, <1>2, <1>3

(* Appending to the second of two sequences appends to their concatenation.*)
LEMMA AppendRight ==
  ASSUME NEW S, NEW r \in Seq(S), NEW q \in Seq(S), NEW i \in S
  PROVE  r \o Append(q, i) = Append(r \o q, i)
  OBVIOUS

(* The strengthened invariant holds initially.                             *)
LEMMA QueueInitInv == Init => QueueInv
  BY WorkQueueAssumption
  DEF Init, QueueInv, TypeOK, MutexHeld, HeadStable, HasItem,
      ExactlyOnceInOrder, PusherPC, PopperPC, Threads

(* Every step of wq_push and wq_pop preserves it.                          *)
LEMMA QueueStepInv == QueueInv /\ [Next]_vars => QueueInv'
  <1> SUFFICES ASSUME QueueInv, [Next]_vars PROVE QueueInv'
    OBVIOUS
  <1> USE WorkQueueAssumption DEF QueueInv, TypeOK, MutexHeld, HeadStable,
          HasItem, PusherPC, PopperPC, Threads
  <1>1. ASSUME NEW t \in Pushers, NEW i \in Items, PushLock(t, i)
        PROVE  QueueInv'
    BY <1>1 DEF PushLock, Lock, ExactlyOnceInOrder
  <1>2. ASSUME NEW t \in Pushers, PushAppend(t)
        PROVE  QueueInv'
    <2>1. mutex = t /\ job[t] \in Items
      BY <1>2 DEF PushAppend
    <2>2. \A u \in Threads \ {t} : pc[u] \notin {"append", "head", "take"}
      BY <2>1
    <2>3. queue' \in Seq(Items) /\ pushed' \in Seq(Items)
      BY <1>2, <2>1 DEF PushAppend
    <2>4. pc' \in [Threads -> PusherPC \cup PopperPC] /\ pc'[t] = "out"
          /\ \A u \in Threads \ {t} :
               pc'[u] = pc[u] \/ (u \in Poppers /\ pc'[u] = "wake")
      BY <1>2, Zenon DEF PushAppend, Signal, Waiters
    <2>5. ExactlyOnceInOrder'
      <3>1. received \o Append(queue, job[t])
              = Append(received \o queue, job[t])
        BY <2>1, AppendRight
      <3> QED
        BY <1>2, <3>1 DEF PushAppend, ExactlyOnceInOrder
    <2> QED
      BY <1>2, <2>1, <2>2, <2>3, <2>4, <2>5, Zenon DEF PushAppend, Unlock
  <1>3. ASSUME NEW t \in Poppers, PopLock(t)
        PROVE  QueueInv'
    BY <1>3 DEF PopLock, Lock, ExactlyOnceInOrder
  <1>4. ASSUME NEW t \in Poppers, PopWait(t)
        PROVE  QueueInv'
    BY <1>4 DEF PopWait, Unlock, ExactlyOnceInOrder
  <1>5. ASSUME NEW t \in Poppers, PopRelock(t)
        PROVE  QueueInv'
    BY <1>5 DEF PopRelock, Lock, ExactlyOnceInOrder
  <1>6. ASSUME NEW t \in Poppers, PopTake(t)
        PROVE  QueueInv'
    BY <1>6 DEF PopTake, ExactlyOnceInOrder
  <1>7. ASSUME NEW t \in Poppers, PopDelete(t)
        PROVE  QueueInv'
    <2>1. mutex = t /\ queue # <<>> /\ job[t] = Head(queue)
      BY <1>7 DEF PopDelete
    <2>2. \A u \in Threads \ {t} : pc[u] \notin {"append", "head", "take"}
      BY <2>1
    <2>3. queue' \in Seq(Items) /\ received' \in Seq(Items)
      BY <1>7, <2>1 DEF PopDelete
    <2>4. ExactlyOnceInOrder'
      <3>1. received \in Seq(Items) /\ queue \in Seq(Items) /\ pushed = received \o queue
        BY DEF ExactlyOnceInOrder
      <3>2. /\ received' = Append(received, Head(queue)) /\ queue' = Tail(queue)
            /\ pushed' = pushed
        BY <1>7, <2>1 DEF PopDelete
      <3>3. Append(received, Head(queue)) \o Tail(queue) = received \o queue
        BY ONLY <2>1, <3>1, MoveHead
      <3> QED BY <3>1, <3>2, <3>3, Zenon DEF ExactlyOnceInOrder
    <2> QED
      BY <1>7, <2>1, <2>2, <2>3, <2>4 DEF PopDelete, Unlock
  <1>8. ASSUME NEW t \in Poppers, PopAgain(t)
        PROVE  QueueInv'
    BY <1>8 DEF PopAgain, ExactlyOnceInOrder
  <1>9. ASSUME NEW t \in Poppers, SpuriousWakeup(t)
        PROVE  QueueInv'
    BY <1>9 DEF SpuriousWakeup, ExactlyOnceInOrder
  <1>10. CASE UNCHANGED vars
    BY <1>10 DEF vars, ExactlyOnceInOrder
  <1> QED
    BY <1>1, <1>2, <1>3, <1>4, <1>5, <1>6, <1>7, <1>8, <1>9, <1>10, Zenon
    DEF Next, PopStep

(* wq.c is type correct: among others, a thread is only ever at one of the *)
(* program points of its own function.                                     *)
THEOREM TypeCorrect == Spec => []TypeOK
  <1>1. QueueInv => TypeOK
    BY DEF QueueInv
  <1> QED
    BY QueueInitInv, QueueStepInv, <1>1, PTL DEF Spec

(* wq.h: "For each item added to the queue, exactly one thread should      *)
(* receive the item."  For any numbers of threads and jobs, nothing is     *)
(* lost, duplicated or reordered between wq_push and wq_pop.               *)
THEOREM QueueExactlyOnceInOrder == Spec => []ExactlyOnceInOrder
  <1>1. QueueInv => ExactlyOnceInOrder
    BY DEF QueueInv
  <1> QED
    BY QueueInitInv, QueueStepInv, <1>1, PTL DEF Spec
-----------------------------------------------------------------------------
\* Where server_run is in wq_push, and what it pushes.
AcceptorPlace ==
  /\ apc \in {"lock", "push"} => sock \in Items
  /\ apc = "push" <=> pc[Acceptor] = "append"
  /\ apc = "push" => job[Acceptor] = sock

\* The types of the server's own variables.
ServerTypes ==
  /\ master \in BOOLEAN
  /\ client \in [Items -> ClientState]
  /\ fds \subseteq Items
  /\ sock \in Items \cup {None}
  /\ listening \in BOOLEAN /\ alive \in BOOLEAN
  /\ apc \in {"test", "accept", "lock", "push", "done"}

ServerInv == QueueInv /\ ServerTypes /\ AcceptorPlace /\ NoClientLost

\* Seen from the queue, every step of the server is a step of wq_push or
\* wq_pop, or none.
LEMMA ServerStepIsQueueStep ==
  ASSUME AcceptorPlace, [ServerNext]_allvars
  PROVE  [Next]_vars
  <1> USE SocketServerAssumption
  <1>1. ASSUME UNCHANGED vars PROVE [Next]_vars
    BY <1>1
  <1>2. CASE PushStart
    BY <1>2, Zenon DEF PushStart, AcceptorPlace, Next
  <1>3. CASE Push
    BY <1>3, Zenon DEF Push, Next
  <1>4. ASSUME NEW t \in Poppers, Pop(t) \/ Spurious(t) \/ Handle(t)
        PROVE  Next
    <2>1. PopStep(t) \/ SpuriousWakeup(t)
      BY <1>4, Zenon DEF Pop, Spurious, Handle, PopStep
    <2> QED BY <2>1, Zenon DEF Next
  <1>5. CASE \/ \E c \in Items : Connect(c) \/ Leave(c) \/ Accept(c)
             \/ TestListening \/ AcceptFails \/ server_stop
             \/ UNCHANGED allvars
    BY <1>1, <1>5, Zenon
       DEF Connect, Leave, Accept, TestListening, AcceptFails, server_stop, allvars
  <1> QED BY <1>2, <1>3, <1>4, <1>5, Zenon DEF ServerNext

\* The steps of the server keep its own variables in their types.
LEMMA StepServerTypes ==
  ASSUME ServerTypes, [ServerNext]_allvars
  PROVE  ServerTypes'
  <1> USE DEF ServerTypes, ClientState
  <1>1. ASSUME NEW c \in Items, Connect(c) PROVE ServerTypes'
    BY <1>1, Zenon DEF Connect
  <1>2. ASSUME NEW c \in Items, Leave(c) PROVE ServerTypes'
    BY <1>2, Zenon DEF Leave
  <1>3. ASSUME NEW c \in Items, Accept(c) PROVE ServerTypes'
    BY <1>3, Zenon DEF Accept
  <1>4. CASE TestListening
    BY <1>4, Zenon DEF TestListening
  <1>5. CASE AcceptFails
    BY <1>5, Zenon DEF AcceptFails
  <1>6. CASE PushStart
    BY <1>6, Zenon DEF PushStart
  <1>7. CASE Push
    BY <1>7, Zenon DEF Push
  <1>8. CASE server_stop
    BY <1>8, Zenon DEF server_stop
  <1>9. ASSUME NEW t \in Poppers, Pop(t) \/ Spurious(t) PROVE ServerTypes'
    BY <1>9, Zenon DEF Pop, Spurious, svars
  <1>10. ASSUME NEW t \in Poppers, Handle(t) PROVE ServerTypes'
    <2>1. client' \in [Items -> ClientState] /\ alive' \in BOOLEAN
      BY <1>10, Zenon DEF Handle, Respond
    <2> QED BY <1>10, <2>1, Zenon DEF Handle
  <1>11. CASE UNCHANGED allvars
    BY <1>11, Zenon DEF allvars, svars
  <1> QED
    BY <1>1, <1>2, <1>3, <1>4, <1>5, <1>6, <1>7, <1>8, <1>9, <1>10, <1>11, Zenon
    DEF ServerNext

\* What a step of wq_pop does to the program points: none but that of its
\* thread, and it is none of wq_push.
LEMMA PopKeepsPlaces ==
  ASSUME QueueInv, NEW t \in Poppers, PopStep(t) \/ SpuriousWakeup(t)
  PROVE  \A u \in Threads \ {t} : pc'[u] = pc[u] /\ job'[u] = job[u]
  BY DEF QueueInv, TypeOK, Threads, PopStep, SpuriousWakeup, PopLock, PopWait, PopRelock,
         PopTake, PopDelete, PopAgain

\* server_run is where wq_push has it, with the socket it accepted.
LEMMA StepAcceptorPlace ==
  ASSUME QueueInv, ServerTypes, AcceptorPlace, [ServerNext]_allvars
  PROVE  AcceptorPlace'
  <1> USE SocketServerAssumption, WorkQueueAssumption
  <1>0. Acceptor \in Threads /\ Acceptor \notin Poppers
        /\ pc \in [Threads -> PusherPC \cup PopperPC]
        /\ job \in [Threads -> Items \cup {None}]
    BY Zenon DEF QueueInv, TypeOK, Threads
  <1>1. ASSUME pc'[Acceptor] = pc[Acceptor], job'[Acceptor] = job[Acceptor],
               apc' = apc, sock' = sock
        PROVE  AcceptorPlace'
    BY <1>1, Zenon DEF AcceptorPlace
  <1>2. ASSUME NEW c \in Items, Connect(c) \/ Leave(c) PROVE AcceptorPlace'
    BY <1>1, <1>2, Zenon DEF Connect, Leave, vars
  <1>3. ASSUME NEW c \in Items, Accept(c) PROVE AcceptorPlace'
    BY <1>3 DEF Accept, AcceptorPlace, vars
  <1>4. CASE TestListening \/ AcceptFails
    BY <1>4 DEF TestListening, AcceptFails, AcceptorPlace, vars
  <1>5. CASE PushStart
    <2>1. apc = "lock" /\ apc' = "push" /\ sock' = sock
      BY <1>5, Zenon DEF PushStart
    <2>2. pc'[Acceptor] = "append" /\ job'[Acceptor] = sock
      BY <1>0, <1>5, Zenon DEF PushStart, PushLock
    <2> QED BY <2>1, <2>2, Zenon DEF AcceptorPlace
  <1>6. CASE Push
    <2>1. apc' = "test" /\ sock' = sock
      BY <1>6, Zenon DEF Push
    <2>2. pc'[Acceptor] = "out"
      BY <1>0, <1>6 DEF Push, PushAppend, Signal, Waiters
    <2> QED BY <2>1, <2>2 DEF AcceptorPlace
  <1>7. CASE server_stop
    BY <1>1, <1>7, Zenon DEF server_stop, vars
  <1>8. ASSUME NEW t \in Poppers, Pop(t) \/ Spurious(t) \/ Handle(t)
        PROVE  AcceptorPlace'
    <2>1. PopStep(t) \/ SpuriousWakeup(t)
      BY <1>8, Zenon DEF Pop, Spurious, Handle, PopStep
    <2>2. pc'[Acceptor] = pc[Acceptor] /\ job'[Acceptor] = job[Acceptor]
      BY <1>0, <2>1, PopKeepsPlaces, Zenon
    <2>3. apc' = apc /\ sock' = sock
      BY <1>8, Zenon DEF Pop, Spurious, Handle, svars
    <2> QED BY <1>1, <2>2, <2>3, Zenon
  <1>9. CASE UNCHANGED allvars
    BY <1>1, <1>9, Zenon DEF allvars, vars, svars
  <1> QED
    BY <1>2, <1>3, <1>4, <1>5, <1>6, <1>7, <1>8, <1>9, Zenon DEF ServerNext

-----------------------------------------------------------------------------
\* An accepted client is queued, being pushed, or in the hands of a worker.
Held(c) ==
  \/ InSeq(c, queue)
  \/ apc \in {"lock", "push"} /\ sock = c
  \/ \E t \in Poppers : pc[t] = "work" /\ job[t] = c

\* Appending keeps the members of a sequence and adds the new one.
LEMMA InAppend ==
  ASSUME NEW S, NEW q \in Seq(S), NEW x \in S
  PROVE  /\ InSeq(x, Append(q, x))
         /\ \A c : InSeq(c, q) => InSeq(c, Append(q, x))
  <1>1. /\ Len(Append(q, x)) = Len(q) + 1 /\ Len(q) \in Nat
        /\ Append(q, x)[Len(q) + 1] = x
        /\ \A i \in 1..Len(q) : Append(q, x)[i] = q[i]
    BY AppendProperties
  <1>2. Len(q) + 1 \in 1..Len(Append(q, x))
        /\ \A i \in 1..Len(q) : i \in 1..Len(Append(q, x))
    BY <1>1
  <1> QED BY <1>1, <1>2, Zenon DEF InSeq

\* A member of a sequence is its head or in its tail.
LEMMA InTail ==
  ASSUME NEW S, NEW q \in Seq(S), q # <<>>, NEW c, InSeq(c, q)
  PROVE  c = Head(q) \/ InSeq(c, Tail(q))
  <1>1. PICK i \in 1..Len(q) : q[i] = c
    BY Zenon DEF InSeq
  <1>2. CASE i = 1
    BY <1>1, <1>2
  <1>3. CASE i # 1
    <2>1. i - 1 \in 1..Len(Tail(q)) /\ Tail(q)[i - 1] = q[i]
      BY <1>3
    <2> QED BY <1>1, <2>1, Zenon DEF InSeq
  <1> QED BY <1>2, <1>3

\* No step of the server lets go of an accepted client that has no answer.
LEMMA StepNoClientLost ==
  ASSUME ServerInv, [ServerNext]_allvars
  PROVE  NoClientLost'
  <1> USE SocketServerAssumption, WorkQueueAssumption
  <1>0. /\ Acceptor \in Threads /\ Acceptor \notin Poppers /\ Poppers \subseteq Threads
        /\ pc \in [Threads -> PusherPC \cup PopperPC]
        /\ job \in [Threads -> Items \cup {None}]
        /\ queue \in Seq(Items)
        /\ client \in [Items -> ClientState]
        /\ QueueInv /\ ServerTypes /\ AcceptorPlace
    BY Zenon DEF ServerInv, QueueInv, TypeOK, Threads, ServerTypes
  <1>a. alive => \A c \in Items : client[c] = "waiting" => Held(c)
    BY Zenon DEF ServerInv, NoClientLost, Held
  <1>b. ASSUME alive' => alive,
               alive' => \A c \in Items : client'[c] = "waiting" =>
                           Held(c)' \/ (client[c] = "waiting" /\ (Held(c) => Held(c)'))
        PROVE  NoClientLost'
    BY <1>a, <1>b, Zenon DEF NoClientLost, Held
  <1>c. ASSUME vars' = vars, apc' = apc, sock' = sock
        PROVE  \A c \in Items : Held(c) => Held(c)'
    BY <1>c, Zenon DEF Held, vars, InSeq
  <1>1. ASSUME NEW c \in Items, Connect(c) \/ Leave(c) PROVE NoClientLost'
    <2>1. vars' = vars /\ apc' = apc /\ sock' = sock /\ alive' = alive
      BY <1>1, Zenon DEF Connect, Leave
    <2>2. \A d \in Items : client'[d] = "waiting" => client[d] = "waiting"
      BY <1>0, <1>1 DEF Connect, Leave
    <2> QED BY <1>b, <1>c, <2>1, <2>2, Zenon
  <1>2. ASSUME NEW c \in Items, Accept(c) PROVE NoClientLost'
    <2>1. /\ vars' = vars /\ apc = "accept" /\ apc' = "lock" /\ sock' = c /\ alive' = alive
          /\ client' = [client EXCEPT ![c] = "waiting"]
      BY <1>2, Zenon DEF Accept
    <2>2. Held(c)'
      BY <2>1, Zenon DEF Held
    <2>3. ASSUME NEW d \in Items, Held(d) PROVE Held(d)'
      BY <2>1, <2>3, Zenon DEF Held, vars, InSeq
    <2>4. \A d \in Items \ {c} : client'[d] = client[d]
      BY <1>0, <2>1, Zenon
    <2> QED BY <1>b, <2>1, <2>2, <2>3, <2>4, Zenon
  <1>3. CASE TestListening \/ AcceptFails
    <2>1. /\ vars' = vars /\ apc \notin {"lock", "push"} /\ client' = client /\ alive' = alive
      BY <1>3, Zenon DEF TestListening, AcceptFails
    <2>2. ASSUME NEW d \in Items, Held(d) PROVE Held(d)'
      BY <2>1, <2>2, Zenon DEF Held, vars, InSeq
    <2> QED BY <1>b, <2>1, <2>2, Zenon
  <1>4. CASE PushStart
    <2>1. /\ apc' = "push" /\ sock' = sock /\ client' = client /\ alive' = alive
          /\ queue' = queue
          /\ \A t \in Poppers : pc'[t] = pc[t] /\ job'[t] = job[t]
      BY <1>0, <1>4, Zenon DEF PushStart, PushLock
    <2>2. ASSUME NEW d \in Items, Held(d) PROVE Held(d)'
      BY <2>1, <2>2, Zenon DEF Held, InSeq
    <2> QED BY <1>b, <2>1, <2>2, Zenon
  <1>5. CASE Push
    <2>1. /\ apc = "push" /\ client' = client /\ alive' = alive
          /\ queue' = Append(queue, job[Acceptor])
          /\ job' = [job EXCEPT ![Acceptor] = None]
          /\ Signal(Acceptor)
      BY <1>5, Zenon DEF Push, PushAppend
    <2>2. job[Acceptor] = sock /\ sock \in Items
      BY <1>0, <2>1, Zenon DEF AcceptorPlace
    <2>3. InSeq(sock, queue') /\ \A d : InSeq(d, queue) => InSeq(d, queue')
      BY <1>0, <2>1, <2>2, InAppend
    <2>4. \A t \in Poppers : job'[t] = job[t] /\ (pc[t] = "work" => pc'[t] = "work")
      <3>1. \A t \in Poppers : job'[t] = job[t]
        BY <1>0, <2>1, Zenon
      <3>2. CASE pc' = [pc EXCEPT ![Acceptor] = "out"]
        BY <1>0, <3>1, <3>2, Zenon
      <3>3. ASSUME NEW v \in Waiters, pc' = [pc EXCEPT ![Acceptor] = "out", ![v] = "wake"]
            PROVE  \A t \in Poppers : pc[t] = "work" => pc'[t] = "work"
        <4>1. pc[v] = "wait"
          BY Zenon DEF Waiters
        <4> QED BY <1>0, <3>3, <4>1
      <3> QED BY <2>1, <3>1, <3>2, <3>3, Zenon DEF Signal
    <2>5. ASSUME NEW d \in Items, Held(d) PROVE Held(d)'
      BY <2>3, <2>4, <2>5, Zenon DEF Held
    <2> QED BY <1>b, <2>1, <2>5, Zenon
  <1>6. CASE server_stop
    <2>1. vars' = vars /\ apc' = apc /\ sock' = sock /\ alive' = alive
      BY <1>6, Zenon DEF server_stop
    <2>2. \A d \in Items : client'[d] = "waiting" => client[d] = "waiting"
      BY <1>0, <1>6 DEF server_stop
    <2> QED BY <1>b, <1>c, <2>1, <2>2, Zenon
  <1>7. ASSUME NEW t \in Poppers, Pop(t) \/ Spurious(t) PROVE NoClientLost'
    <2>1. /\ PopLock(t) \/ PopWait(t) \/ PopRelock(t) \/ PopTake(t) \/ PopDelete(t)
             \/ SpuriousWakeup(t)
          /\ apc' = apc /\ sock' = sock /\ client' = client /\ alive' = alive
      BY <1>7, Zenon DEF Pop, Spurious, svars
    <2>2. \A u \in Poppers \ {t} : pc'[u] = pc[u] /\ job'[u] = job[u]
      BY <1>0, <2>1, PopKeepsPlaces, Zenon DEF PopStep
    <2>3. pc[t] # "work"
      BY <2>1 DEF PopLock, PopWait, PopRelock, PopTake, PopDelete, SpuriousWakeup
    <2>4. CASE PopDelete(t)
      <3>1. queue # <<>> /\ queue' = Tail(queue) /\ pc'[t] = "work" /\ job' = job
            /\ pc[t] = "take"
        BY <1>0, <2>4, Zenon DEF PopDelete
      <3>2. job[t] = Head(queue)
        BY <1>0, <3>1, Zenon DEF QueueInv, HeadStable
      <3>3. ASSUME NEW d \in Items, InSeq(d, queue) PROVE Held(d)'
        <4>1. d = Head(queue) \/ InSeq(d, Tail(queue))
          BY <1>0, <3>1, <3>3, InTail
        <4> QED BY <3>1, <3>2, <4>1, Zenon DEF Held
      <3>4. ASSUME NEW d \in Items, Held(d) PROVE Held(d)'
        BY <2>1, <2>2, <2>3, <3>3, <3>4, Zenon DEF Held
      <3> QED BY <1>b, <2>1, <3>4, Zenon
    <2>5. CASE ~PopDelete(t)
      <3>1. queue' = queue
        BY <2>1, <2>5, Zenon DEF PopLock, PopWait, PopRelock, PopTake, SpuriousWakeup
      <3>2. ASSUME NEW d \in Items, Held(d) PROVE Held(d)'
        BY <2>1, <2>2, <2>3, <3>1, <3>2, Zenon DEF Held
      <3> QED BY <1>b, <2>1, <3>2, Zenon
    <2> QED BY <2>4, <2>5, Zenon
  <1>8. ASSUME NEW t \in Poppers, Handle(t) PROVE NoClientLost'
    <2>1. apc' = apc /\ sock' = sock /\ alive /\ PopAgain(t) /\ queue' = queue
      BY <1>8, Zenon DEF Handle, PopAgain
    <2>2. \A u \in Poppers \ {t} : pc'[u] = pc[u] /\ job'[u] = job[u]
      BY <1>0, <2>1, PopKeepsPlaces, Zenon DEF PopStep
    <2>3. alive' => client' = [client EXCEPT ![job[t]] = IF @ = "waiting" THEN "answered" ELSE @]
      <3>1. CASE Respond(t)
        BY <2>1, <3>1, Zenon DEF Respond
      <3>2. CASE ~alive'
        BY <3>2
      <3> QED BY <1>8, <3>1, <3>2, Zenon DEF Handle
    <2>4. ASSUME alive', NEW d \in Items, client'[d] = "waiting"
          PROVE  client[d] = "waiting" /\ d # job[t]
      BY <1>0, <2>3, <2>4
    <2>5. ASSUME NEW d \in Items, d # job[t], Held(d) PROVE Held(d)'
      BY <2>1, <2>2, <2>5, Zenon DEF Held
    <2> QED BY <1>b, <2>1, <2>4, <2>5, Zenon
  <1>9. CASE UNCHANGED allvars
    <2>1. vars' = vars /\ apc' = apc /\ sock' = sock /\ alive' = alive /\ client' = client
      BY <1>9, Zenon DEF allvars, svars
    <2> QED BY <1>b, <1>c, <2>1, Zenon
  <1> QED
    BY <1>1, <1>2, <1>3, <1>4, <1>5, <1>6, <1>7, <1>8, <1>9, Zenon DEF ServerNext

-----------------------------------------------------------------------------
INSTANCE FiniteSetTheorems

\* Threads on their way to the head of the queue, and threads that have read
\* it and not yet deleted it.
Awake == {t \in Poppers : pc[t] \in {"wake", "head"}}
Taking == {t \in Poppers : pc[t] = "take"}

\* The cardinality of a set of worker threads, and how a thread changes it.
LEMMA CountThreads ==
  ASSUME NEW S \in SUBSET Poppers
  PROVE  /\ Cardinality(S) \in Nat
         /\ \A T \in SUBSET S : Cardinality(T) <= Cardinality(S)
         /\ \A t \in Poppers \ S : Cardinality(S \cup {t}) = Cardinality(S) + 1
         /\ \A t \in S : Cardinality(S \ {t}) = Cardinality(S) - 1
  <1>1. IsFiniteSet(S)
    BY SocketServerAssumption, FS_Subset, Zenon
  <1>2. Cardinality(S) \in Nat
    BY <1>1, FS_CardinalityType, Zenon
  <1>3. \A T \in SUBSET S : Cardinality(T) <= Cardinality(S)
    BY <1>1, FS_Subset, Zenon
  <1>4. \A t \in Poppers \ S : Cardinality(S \cup {t}) = Cardinality(S) + 1
    BY <1>1, FS_AddElement, Zenon
  <1>5. \A t \in S : Cardinality(S \ {t}) = Cardinality(S) - 1
    BY <1>1, FS_RemoveElement, Zenon
  <1> QED BY <1>2, <1>3, <1>4, <1>5, Zenon

\* Every job that is appended while a thread sleeps wakes one, and a thread
\* leaves the way to the head only with a job or when there is none.
LEMMA StepNoStranded ==
  ASSUME QueueInv, NoStrandedItem, [Next]_vars
  PROVE  NoStrandedItem'
  <1> USE SocketServerAssumption, WorkQueueAssumption
  <1>0. /\ Poppers \subseteq Threads
        /\ pc \in [Threads -> PusherPC \cup PopperPC]
        /\ queue \in Seq(Items) /\ Len(queue) \in Nat
        /\ \A t \in Pushers : t \in Threads /\ t \notin Poppers
        /\ HasItem
    BY DEF QueueInv, TypeOK, Threads
  <1> DEFINE a == Cardinality(Awake)
             k == Cardinality(Taking)
  <1>a. Waiters # {} => a >= Len(queue) - k
    BY Zenon DEF NoStrandedItem, Awake, Taking
  <1>b. ASSUME Waiters' # {} => Cardinality(Awake') >= Len(queue') - Cardinality(Taking')
        PROVE  NoStrandedItem'
    BY <1>b, Zenon DEF NoStrandedItem, Awake, Taking
  <1>c. a \in Nat /\ k \in Nat
    BY CountThreads, Zenon DEF Awake, Taking
  <1> HIDE DEF a, k
  <1>1. ASSUME UNCHANGED <<queue, pc>> PROVE NoStrandedItem'
    BY <1>1, Zenon DEF NoStrandedItem, Waiters
  <1>2. ASSUME NEW t \in Pushers, NEW i \in Items, PushLock(t, i)
        PROVE  NoStrandedItem'
    <2>1. queue' = queue /\ \A u \in Poppers : pc'[u] = pc[u]
      BY <1>0, <1>2, Zenon DEF PushLock
    <2>2. Waiters' = Waiters /\ Awake' = Awake /\ Taking' = Taking
      BY <2>1, Zenon DEF Waiters, Awake, Taking
    <2> QED BY <1>a, <1>b, <2>1, <2>2, Zenon DEF a, k
  <1>3. ASSUME NEW t \in Pushers, PushAppend(t) PROVE NoStrandedItem'
    <2>1. Len(queue') = Len(queue) + 1
      BY <1>0, <1>3 DEF PushAppend, HasItem
    <2>2. CASE Waiters = {} /\ pc' = [pc EXCEPT ![t] = "out"]
      <3>1. Waiters' = {}
        BY <1>0, <2>2, Zenon DEF Waiters
      <3> QED BY <1>b, <3>1, Zenon
    <2>3. ASSUME NEW w \in Waiters, pc' = [pc EXCEPT ![t] = "out", ![w] = "wake"]
          PROVE  NoStrandedItem'
      <3>1. w \in Poppers /\ pc[w] = "wait" /\ Waiters # {}
        BY Zenon DEF Waiters
      <3>2. pc'[w] = "wake" /\ \A u \in Poppers \ {w} : pc'[u] = pc[u]
        BY <1>0, <2>3, <3>1
      <3>3. Awake' = Awake \cup {w} /\ w \notin Awake /\ Taking' = Taking
        BY <3>1, <3>2 DEF Awake, Taking
      <3>4. Cardinality(Awake') = a + 1
        <4>1. w \in Poppers \ Awake /\ Awake \in SUBSET Poppers
          BY <3>1, <3>3, Zenon DEF Awake
        <4> QED BY <3>3, <4>1, CountThreads, Zenon DEF a
      <3>5. Cardinality(Taking') = k
        BY <3>3, Zenon DEF k
      <3>6. Cardinality(Awake') >= Len(queue') - Cardinality(Taking')
        BY <1>0, <1>a, <1>c, <2>1, <3>1, <3>4, <3>5
      <3> QED BY <1>b, <3>6, Zenon
    <2> QED BY <1>3, <2>2, <2>3, Zenon DEF PushAppend, Signal
  <1>4. ASSUME NEW t \in Poppers, PopLock(t) \/ PopRelock(t) \/ SpuriousWakeup(t) \/ PopAgain(t)
        PROVE  NoStrandedItem'
    <2>1. queue' = queue /\ \A u \in Poppers \ {t} : pc'[u] = pc[u]
      BY <1>0, <1>4, Zenon DEF PopLock, PopRelock, SpuriousWakeup, PopAgain
    <2>2. /\ pc[t] \in {"out", "wake", "wait", "work"} /\ pc'[t] \in {"head", "wake", "out"}
          /\ pc[t] = "wake" => pc'[t] = "head"
      BY <1>0, <1>4 DEF PopLock, PopRelock, SpuriousWakeup, PopAgain
    <2>3. /\ Waiters' \in SUBSET Waiters /\ Awake \in SUBSET Awake' /\ Taking' = Taking
          /\ Awake' \in SUBSET Poppers
      BY <2>1, <2>2 DEF Waiters, Awake, Taking
    <2>4. Cardinality(Awake') \in Nat /\ a <= Cardinality(Awake')
      BY <2>3, CountThreads, Zenon DEF a
    <2>5. Cardinality(Taking') = k
      BY <2>3, Zenon DEF k
    <2>6. Waiters' # {} => Waiters # {}
      BY <2>3, Zenon
    <2>7. Waiters # {} => Cardinality(Awake') >= Len(queue') - Cardinality(Taking')
      BY <1>0, <1>a, <1>c, <2>1, <2>4, <2>5
    <2> QED BY <1>b, <2>6, <2>7, Zenon
  <1>5. ASSUME NEW t \in Poppers, PopWait(t) PROVE NoStrandedItem'
    <2>1. Len(queue') = 0
      BY <1>5 DEF PopWait
    <2>2. Awake' \in SUBSET Poppers /\ Taking' \in SUBSET Poppers
      BY Zenon DEF Awake, Taking
    <2>3. Cardinality(Awake') \in Nat /\ Cardinality(Taking') \in Nat
      BY <2>2, CountThreads, Zenon
    <2>4. Cardinality(Awake') >= Len(queue') - Cardinality(Taking')
      BY <2>1, <2>3
    <2> QED BY <1>b, <2>4, Zenon
  <1>6. ASSUME NEW t \in Poppers, PopTake(t) PROVE NoStrandedItem'
    <2>1. /\ queue' = queue /\ pc[t] = "head" /\ pc'[t] = "take"
          /\ \A u \in Poppers \ {t} : pc'[u] = pc[u]
      BY <1>0, <1>6, Zenon DEF PopTake
    <2>2. /\ Waiters' = Waiters
          /\ Awake' = Awake \ {t} /\ t \in Awake /\ Awake \in SUBSET Poppers
          /\ Taking' = Taking \cup {t} /\ t \in Poppers \ Taking /\ Taking \in SUBSET Poppers
      BY <2>1 DEF Waiters, Awake, Taking
    <2>3. Cardinality(Awake') = a - 1 /\ Cardinality(Taking') = k + 1
      BY <2>2, CountThreads, Zenon DEF a, k
    <2>4. Waiters # {} => Cardinality(Awake') >= Len(queue') - Cardinality(Taking')
      BY <1>0, <1>a, <1>c, <2>1, <2>3
    <2> QED BY <1>b, <2>2, <2>4, Zenon
  <1>7. ASSUME NEW t \in Poppers, PopDelete(t) PROVE NoStrandedItem'
    <2>1. /\ pc[t] = "take" /\ pc'[t] = "work"
          /\ \A u \in Poppers \ {t} : pc'[u] = pc[u]
      BY <1>0, <1>7, Zenon DEF PopDelete
    <2>2. /\ Waiters' = Waiters /\ Awake' = Awake
          /\ Taking' = Taking \ {t} /\ t \in Taking /\ Taking \in SUBSET Poppers
      BY <2>1 DEF Waiters, Awake, Taking
    <2>3. Cardinality(Awake') = a /\ Cardinality(Taking') = k - 1
      BY <2>2, CountThreads, Zenon DEF a, k
    <2>4. Len(queue') = Len(queue) - 1
      BY <1>0, <1>7 DEF PopDelete
    <2>5. Waiters # {} => Cardinality(Awake') >= Len(queue') - Cardinality(Taking')
      BY <1>0, <1>a, <1>c, <2>3, <2>4
    <2> QED BY <1>b, <2>2, <2>5, Zenon
  <1>8. CASE UNCHANGED vars
    BY <1>1, <1>8, Zenon DEF vars
  <1> QED
    BY <1>2, <1>3, <1>4, <1>5, <1>6, <1>7, <1>8, Zenon DEF Next, PopStep

\* The server starts with nobody queued, asleep or accepted.
LEMMA ServerInitInv == ServerInit => ServerInv /\ NoStrandedItem
  <1> SUFFICES ASSUME ServerInit PROVE ServerInv /\ NoStrandedItem
    OBVIOUS
  <1>1. QueueInv
    BY QueueInitInv, Zenon DEF ServerInit
  <1>2. ServerTypes
    BY Zenon DEF ServerInit, ServerTypes, ClientState
  <1>3. pc = [t \in Threads |-> "out"]
    BY Zenon DEF ServerInit, Init
  <1>4. AcceptorPlace
    BY <1>3, SocketServerAssumption DEF ServerInit, AcceptorPlace, Threads
  <1>5. NoClientLost
    BY DEF ServerInit, NoClientLost
  <1>6. NoStrandedItem
    <2>1. Waiters = {}
      BY <1>3 DEF Waiters, Threads
    <2> QED BY <2>1, Zenon DEF NoStrandedItem
  <1> QED BY <1>1, <1>2, <1>4, <1>5, <1>6, Zenon DEF ServerInv

\* Every step of the server preserves the invariant.
LEMMA ServerStepInv ==
  ServerInv /\ NoStrandedItem /\ [ServerNext]_allvars => (ServerInv /\ NoStrandedItem)'
  <1> SUFFICES ASSUME ServerInv, NoStrandedItem, [ServerNext]_allvars
               PROVE  ServerInv' /\ NoStrandedItem'
    BY Zenon
  <1>0. QueueInv /\ ServerTypes /\ AcceptorPlace
    BY Zenon DEF ServerInv
  <1>1. [Next]_vars
    BY <1>0, ServerStepIsQueueStep, Zenon
  <1>2. QueueInv'
    BY <1>0, <1>1, QueueStepInv, Zenon
  <1>3. NoStrandedItem'
    BY <1>0, <1>1, StepNoStranded, Zenon
  <1>4. ServerTypes' /\ AcceptorPlace'
    BY <1>0, StepServerTypes, StepAcceptorPlace, Zenon
  <1>5. NoClientLost'
    BY StepNoClientLost, Zenon
  <1> QED BY <1>2, <1>3, <1>4, <1>5, Zenon DEF ServerInv

\* socket_server.c with any number of clients, workers and descriptors: no
\* socket is stranded in the queue by a signal that nobody heard, and every
\* accepted client is queued, being pushed, with one worker, answered or
\* gone, as long as the process lives.
THEOREM ServerAccountsForClients == ServerSpec => []ClientsAccounted
  <1>1. ServerInv /\ NoStrandedItem => ClientsAccounted
    BY Zenon DEF ServerInv, QueueInv, ServerTypes, ServerTypeOK, ClientsAccounted
  <1> QED BY ServerInitInv, ServerStepInv, <1>1, PTL DEF ServerSpec

\* The queue keeps its promise inside the server: sockets are handed to the
\* workers once each and in the order of their accept.
THEOREM ServerHandsOutInOrder == ServerSpec => []ExactlyOnceInOrder
  <1>1. ServerInv => ExactlyOnceInOrder
    BY Zenon DEF ServerInv, QueueInv
  <1> QED BY ServerInitInv, ServerStepInv, <1>1, PTL DEF ServerSpec
=============================================================================
