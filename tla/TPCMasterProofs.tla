-------------------------- MODULE TPCMasterProofs --------------------------
(***************************************************************************)
(* The slave list of the master never outgrows slave_capacity and          *)
(* slave_count is its length, for every capacity; for the capacities up to *)
(* 2 (kvmaster.c uses 2) it is also sorted, and every lookup returns the   *)
(* owner of the key; for the capacities up to 3 the replicas of a key are  *)
(* different slaves.                                                       *)
(***************************************************************************)
EXTENDS TPCMaster, SequenceTheorems, WellFoundedInduction, TLAPS

\* A non-empty set of naturals has a least element.
LEMMA LeastNatural ==
  ASSUME NEW T \in SUBSET Nat, T # {}
  PROVE  \E x \in T : \A y \in T : x <= y
  <1> DEFINE R == {ss \in Nat \X Nat : ss[1] < ss[2]}
  <1>1. IsWellFoundedOn(R, Nat)
    BY NatLessThanWellFounded DEF OpToRel
  <1>2. PICK x \in T : \A y \in T : <<y, x>> \notin R
    <2> HIDE DEF R
    <2> QED BY <1>1, WFMin, Zenon
  <1>3. \A y \in T : ~(y < x)
    BY <1>2, Zenon
  <1> QED BY <1>3

\* A walk has found at least one slave, and only slaves of the list.
WalkInv ==
  \A w \in Walkers :
    walk[w] # NoWalk =>
      /\ Len(walk[w].found) >= 1
      /\ \A i \in 1..Len(walk[w].found) : walk[w].found[i] \in Listed(slaves)

IInv == TypeOK /\ CountIsLength /\ WalkInv

-----------------------------------------------------------------------------
\* The elements of the list are integers.
LEMMA ElementType ==
  ASSUME NEW s \in Seq(Ids), NEW i \in 1..Len(s)
  PROVE  s[i] \in Ids /\ s[i] \in Int
  <1>1. s[i] \in Ids
    OBVIOUS
  <1> QED BY <1>1, TPCMasterAssumption, Zenon

\* Where the loop of tpcmaster_register stops.
LEMMA StopFacts ==
  ASSUME NEW s \in Seq(Ids), s # <<>>, NEW sid \in Ids
  PROVE  /\ Stop(s, sid) \in 1..Len(s)
         /\ s[Stop(s, sid)] >= sid \/ Stop(s, sid) = Len(s)
         /\ \A j \in 1..(Stop(s, sid) - 1) : s[j] < sid
  <1> USE TPCMasterAssumption
  <1> DEFINE T == {i \in 1..Len(s) : s[i] >= sid \/ i = Len(s)}
  <1>1. T \in SUBSET Nat /\ Len(s) \in T
    OBVIOUS
  <1>2. PICK x \in T : \A y \in T : x <= y
    BY <1>1, LeastNatural, Zenon
  <1>3. x \in 1..Len(s) /\ (s[x] >= sid \/ x = Len(s))
    BY <1>2
  <1>4. ASSUME NEW j \in 1..(x - 1) PROVE s[j] < sid
    <2>1. j \in 1..Len(s) /\ j < x
      BY <1>3
    <2>2. j \notin T
      BY <1>2, <1>3, <2>1
    <2>3. s[j] \in Int
      BY <2>1, ElementType, Zenon
    <2> QED BY <2>1, <2>2, <2>3
  <1> HIDE DEF T
  <1> QED BY <1>3, <1>4, Zenon DEF Stop

\* Where the loop of tpcmaster_get_primary stops, and what it returns.
LEMMA PrimaryFacts ==
  ASSUME NEW s \in Seq(Ids), s # <<>>, NEW h \in Hashes
  PROVE  \E i \in 1..Len(s) :
           /\ s[i] > h \/ i = Len(s)
           /\ \A j \in 1..(i - 1) : s[j] <= h
           /\ Primary(s, h) = IF s[i] <= h THEN s[1] ELSE s[i]
  <1> USE TPCMasterAssumption
  <1> DEFINE T == {i \in 1..Len(s) : s[i] > h \/ i = Len(s)}
             P(i) == /\ s[i] > h \/ i = Len(s)
                     /\ \A j \in 1..(i - 1) : s[j] <= h
  <1>1. T \in SUBSET Nat /\ Len(s) \in T
    OBVIOUS
  <1>2. PICK x \in T : \A y \in T : x <= y
    BY <1>1, LeastNatural, Zenon
  <1>3. x \in 1..Len(s) /\ (s[x] > h \/ x = Len(s))
    BY <1>2
  <1>4. ASSUME NEW j \in 1..(x - 1) PROVE s[j] <= h
    <2>1. j \in 1..Len(s) /\ j < x
      BY <1>3
    <2>2. j \notin T
      BY <1>2, <1>3, <2>1
    <2>3. s[j] \in Int
      BY <2>1, ElementType
    <2> QED BY <2>1, <2>2, <2>3
  <1>5. P(x)
    BY <1>3, <1>4
  <1> DEFINE c == CHOOSE i \in 1..Len(s) : P(i)
  <1>6. c \in 1..Len(s) /\ P(c)
    BY <1>3, <1>5
  <1>7. Primary(s, h) = IF s[c] <= h THEN s[1] ELSE s[c]
    BY DEF Primary
  <1> HIDE DEF c
  <1> QED BY <1>6, <1>7

\* What a registration makes of the list.
LEMMA InsertedFacts ==
  ASSUME NEW s \in Seq(Ids), NEW sid \in Ids
  PROVE  /\ Inserted(s, sid) \in Seq(Ids)
         /\ Len(Inserted(s, sid)) =
              IF AlreadyExists(s, sid) THEN Len(s) ELSE Len(s) + 1
         /\ Listed(s) \subseteq Listed(Inserted(s, sid))
  <1> USE TPCMasterAssumption
  <1>1. CASE s = <<>>
    BY <1>1 DEF Inserted, AlreadyExists, Listed
  <1>2. CASE s # <<>> /\ sid < s[1]
    <2>1. ~AlreadyExists(s, sid)
      <3> DEFINE n == Stop(s, sid)
      <3>a. n \in 1..Len(s) /\ \A j \in 1..(n - 1) : s[j] < sid
        BY <1>2, StopFacts
      <3>b. s[1] \in Int /\ sid \in Int
        BY <1>2, ElementType
      <3> HIDE DEF n
      <3>c. ~(1 \in 1..(n - 1))
        <4>1. ~(s[1] < sid)
          BY <1>2, <3>b
        <4> QED BY <3>a, <4>1, Zenon
      <3>d. n = 1
        BY <3>a, <3>c
      <3>1. Stop(s, sid) = 1
        BY <3>d DEF n
      <3> QED BY <1>2, <3>1, <3>b DEF AlreadyExists
    <2>2. Inserted(s, sid) = <<sid>> \o s
      BY <1>2 DEF Inserted
    <2>3. \A i \in 1..Len(s) : i + 1 \in 1..Len(<<sid>> \o s)
                               /\ (<<sid>> \o s)[i + 1] = s[i]
      OBVIOUS
    <2> DEFINE r == <<sid>> \o s
    <2>4. r \in Seq(Ids) /\ Len(r) = Len(s) + 1
      BY TPCMasterAssumption
    <2>5. \A i \in 1..Len(s) : i + 1 \in 1..Len(r) /\ r[i + 1] = s[i]
      BY <2>3
    <2> HIDE DEF r
    <2>6. Listed(s) \subseteq Listed(r)
      BY <2>5, Zenon DEF Listed
    <2> QED BY <2>1, <2>2, <2>4, <2>6, Zenon DEF r
  <1>3. CASE s # <<>> /\ ~(sid < s[1]) /\ AlreadyExists(s, sid)
    BY <1>3 DEF Inserted
  <1>4. CASE s # <<>> /\ ~(sid < s[1]) /\ ~AlreadyExists(s, sid)
    <2> DEFINE n == Stop(s, sid)
               a == SubSeq(s, 1, n)
               b == SubSeq(s, n + 1, Len(s))
               r == a \o <<sid>> \o b
    <2>1. n \in 1..Len(s)
      BY <1>4, StopFacts
    <2>2. Inserted(s, sid) = r
      BY <1>4, Zenon DEF Inserted
    <2> HIDE DEF n
    <2>3. a \in Seq(Ids) /\ Len(a) = n /\ \A i \in 1..n : a[i] = s[i]
      BY <2>1
    <2>4. b \in Seq(Ids) /\ Len(b) = Len(s) - n
          /\ \A i \in 1..(Len(s) - n) : b[i] = s[n + i]
      BY <2>1
    <2> HIDE DEF a, b
    <2>5. r \in Seq(Ids) /\ Len(r) = Len(s) + 1
      <3>1. a \o <<sid>> \in Seq(Ids) /\ Len(a \o <<sid>>) = n + 1
        BY <2>1, <2>3
      <3> DEFINE c == a \o <<sid>>
      <3> HIDE DEF c
      <3>3. c \o b \in Seq(Ids) /\ Len(c \o b) = Len(c) + Len(b)
        BY <2>4, <3>1, ConcatProperties, Zenon DEF c
      <3>2. r \in Seq(Ids) /\ Len(r) = n + 1 + (Len(s) - n)
        BY <2>1, <2>4, <3>1, <3>3, Zenon DEF c
      <3>4. n + 1 + (Len(s) - n) = Len(s) + 1
        BY <2>1
      <3> QED BY <3>2, <3>4, Zenon
    <2>6. ASSUME NEW i \in 1..Len(s) PROVE s[i] \in Listed(r)
      <3>1. CASE i <= n
        <4>1. i \in 1..Len(r) /\ r[i] = s[i]
          BY <2>1, <2>3, <2>4, <2>5, <3>1
        <4> QED BY <4>1, Zenon DEF Listed
      <3>2. CASE i > n
        <4>1. i + 1 \in 1..Len(r) /\ r[i + 1] = b[i - n]
          BY <2>1, <2>3, <2>4, <2>5, <3>2
        <4>2. i - n \in 1..(Len(s) - n) /\ n + (i - n) = i
          BY <2>1, <3>2
        <4>3. r[i + 1] = s[i]
          BY <2>4, <4>1, <4>2
        <4> HIDE DEF r
        <4> QED BY <4>1, <4>3 DEF Listed
      <3> QED BY <2>1, <3>1, <3>2
    <2>7. Listed(s) \subseteq Listed(r)
      <3> HIDE DEF r
      <3> QED BY <2>6, Zenon DEF Listed
    <2> QED BY <1>4, <2>2, <2>5, <2>7, Zenon
  <1> QED BY <1>1, <1>2, <1>3, <1>4

-----------------------------------------------------------------------------
(* A new master has no slaves and no walks: the invariant holds.           *)
LEMMA InitIInv == Init => IInv
  BY TPCMasterAssumption
     DEF Init, IInv, TypeOK, CountIsLength, WalkInv, NoWalk

\* tpcmaster_get_primary returns a slave of the list.
LEMMA PrimaryInList ==
  ASSUME NEW s \in Seq(Ids), s # <<>>, NEW h \in Hashes
  PROVE  Primary(s, h) \in Listed(s) /\ Primary(s, h) \in Ids
  <1>1. PICK i \in 1..Len(s) :
               Primary(s, h) = IF s[i] <= h THEN s[1] ELSE s[i]
    BY PrimaryFacts
  <1>2. 1 \in 1..Len(s)
    OBVIOUS
  <1> QED BY <1>1, <1>2, ElementType DEF Listed

\* tpcmaster_get_successor of a slave of the list is one of the list.
LEMMA SuccessorInList ==
  ASSUME NEW s \in Seq(Ids), NEW sid \in Listed(s)
  PROVE  Successor(s, sid) \in Listed(s) /\ Successor(s, sid) \in Ids
  <1> DEFINE i == CHOOSE i \in 1..Len(s) : s[i] = sid
  <1>1. i \in 1..Len(s) /\ s[i] = sid
    BY DEF Listed
  <1>2. Successor(s, sid) = IF i < Len(s) THEN s[i + 1] ELSE s[1]
    BY DEF Successor
  <1> HIDE DEF i
  <1>3. CASE i < Len(s)
    <2>1. i + 1 \in 1..Len(s)
      BY <1>1, <1>3
    <2> QED BY <1>2, <1>3, <2>1, ElementType DEF Listed
  <1>4. CASE ~(i < Len(s))
    <2>1. 1 \in 1..Len(s)
      BY <1>1
    <2> QED BY <1>2, <1>4, <2>1, ElementType DEF Listed
  <1> QED BY <1>3, <1>4

\* Every step preserves the inductive invariant.
LEMMA StepIInv == IInv /\ [Next]_vars => IInv'
  <1> SUFFICES ASSUME IInv, [Next]_vars PROVE IInv'
    OBVIOUS
  <1> USE TPCMasterAssumption
  <1>0. /\ slaves \in Seq(Ids) /\ Len(slaves) \in Nat
        /\ slave_count \in 0..Capacity /\ slave_count = Len(slaves)
    BY DEF IInv, TypeOK, CountIsLength
  <1>1. ASSUME NEW sid \in Ids, tpcmaster_register(sid) PROVE IInv'
    <2>1. response' \in [id : Ids \cup {None}, ok : BOOLEAN]
      BY <1>1 DEF tpcmaster_register
    <2>2. /\ slaves' \in Seq(Ids) /\ Len(slaves') = slave_count'
          /\ slave_count' \in 0..Capacity
          /\ Listed(slaves) \subseteq Listed(slaves')
      <3>1. CASE slave_count < Capacity
        <4>1. slaves' = Inserted(slaves, sid)
              /\ slave_count' = IF AlreadyExists(slaves, sid)
                                THEN slave_count ELSE slave_count + 1
          BY <1>1, <3>1 DEF tpcmaster_register
        <4>2. /\ slaves' \in Seq(Ids)
              /\ Len(slaves') = IF AlreadyExists(slaves, sid)
                                THEN Len(slaves) ELSE Len(slaves) + 1
              /\ Listed(slaves) \subseteq Listed(slaves')
          BY <1>0, <4>1, InsertedFacts
        <4>3. CASE AlreadyExists(slaves, sid)
          BY <1>0, <3>1, <4>1, <4>2, <4>3
        <4>4. CASE ~AlreadyExists(slaves, sid)
          BY <1>0, <3>1, <4>1, <4>2, <4>4
        <4> QED BY <4>3, <4>4
      <3>2. CASE ~(slave_count < Capacity)
        BY <1>0, <1>1, <3>2 DEF tpcmaster_register
      <3> QED BY <3>1, <3>2
    <2>3. walk' = walk
      BY <1>1 DEF tpcmaster_register
    <2>4. TypeOK'
      BY <2>1, <2>2, <2>3 DEF IInv, TypeOK
    <2>5. CountIsLength'
      BY <2>2 DEF CountIsLength
    <2>6. WalkInv'
      BY <2>2, <2>3 DEF IInv, WalkInv
    <2> QED BY <2>4, <2>5, <2>6 DEF IInv
  <1>2. ASSUME NEW w \in Walkers, NEW h \in Hashes, get_primary(w, h)
        PROVE  IInv'
    <2> DEFINE p == Primary(slaves, h)
    <2>1. p \in Listed(slaves) /\ p \in Ids
      BY <1>0, <1>2, PrimaryInList DEF get_primary
    <2>2. walk' = [walk EXCEPT ![w] = [hash |-> h, found |-> <<p>>,
                                       full |-> slave_count = Capacity]]
          /\ UNCHANGED <<slaves, slave_count, response>>
      BY <1>2, Zenon DEF get_primary
    <2> HIDE DEF p
    <2>3. TypeOK'
      BY <2>1, <2>2 DEF IInv, TypeOK
    <2>4. WalkInv'
      BY <2>1, <2>2 DEF IInv, TypeOK, WalkInv
    <2> QED BY <2>2, <2>3, <2>4, Zenon DEF IInv, CountIsLength
  <1>3. ASSUME NEW w \in Walkers, get_successor(w) PROVE IInv'
    <2> DEFINE f == walk[w].found
               n == Successor(slaves, f[Len(f)])
    <2>1. f \in Seq(Ids) /\ Len(f) >= 1
          /\ \A i \in 1..Len(f) : f[i] \in Listed(slaves)
      BY <1>3, Zenon DEF get_successor, IInv, TypeOK, WalkInv
    <2>2. n \in Listed(slaves) /\ n \in Ids
      BY <1>0, <2>1, SuccessorInList
    <2>3. walk' = [walk EXCEPT ![w].found = Append(f, n)]
          /\ UNCHANGED <<slaves, slave_count, response>>
      BY <1>3 DEF get_successor
    <2> HIDE DEF f, n
    <2>4. Append(f, n) \in Seq(Ids) /\ Len(Append(f, n)) = Len(f) + 1
          /\ \A i \in 1..Len(Append(f, n)) : Append(f, n)[i] \in Listed(slaves)
      <3>1. Append(f, n) \in Seq(Ids) /\ Len(Append(f, n)) = Len(f) + 1
            /\ \A i \in 1..Len(f) : Append(f, n)[i] = f[i]
            /\ Append(f, n)[Len(f) + 1] = n
        BY ONLY <2>1, <2>2, AppendProperties
      <3>2. ASSUME NEW i \in 1..Len(Append(f, n)) PROVE Append(f, n)[i] \in Listed(slaves)
        <4>1. Len(f) \in Nat
          BY <2>1
        <4>2. i \in 1..Len(f) \/ i = Len(f) + 1
          BY ONLY <3>1, <4>1, i \in 1..Len(Append(f, n))
        <4>3. CASE i \in 1..Len(f)
          <5>1. Append(f, n)[i] = f[i]
            BY <3>1, <4>3, Zenon
          <5>2. f[i] \in Listed(slaves)
            BY <2>1, <4>3, Zenon
          <5> QED BY <5>1, <5>2, Zenon
        <4>4. CASE i = Len(f) + 1
          <5>1. Append(f, n)[i] = n
            BY ONLY <3>1, <4>4
          <5> QED BY <2>2, <5>1, Zenon
        <4> QED BY <4>2, <4>3, <4>4, Zenon
      <3> QED BY <3>1, <3>2
    <2>5. TypeOK'
      <3> DEFINE g == Append(f, n)
      <3>1. g \in Seq(Ids) /\ walk' = [walk EXCEPT ![w].found = g]
        BY <2>3, <2>4
      <3> HIDE DEF g
      <3>2. walk' \in [Walkers -> [hash : Hashes \cup {None}, full : BOOLEAN,
                                   found : Seq(Ids)]]
        BY <3>1, Zenon DEF IInv, TypeOK
      <3> QED BY <2>3, <3>2, Zenon DEF IInv, TypeOK
    <2>6. WalkInv'
      <3> DEFINE g == Append(f, n)
      <3> HIDE DEF g
      <3>1. walk \in [Walkers -> [hash : Hashes \cup {None}, full : BOOLEAN,
                                  found : Seq(Ids)]]
        BY DEF IInv, TypeOK
      <3>2. /\ \A v \in Walkers \ {w} : walk'[v] = walk[v]
            /\ walk'[w].found = g
        BY <2>3, <3>1 DEF g
      <3>3. Len(g) >= 1 /\ \A i \in 1..Len(g) : g[i] \in Listed(slaves)
        BY <2>1, <2>4 DEF g
      <3> QED BY <2>3, <3>2, <3>3, Zenon DEF IInv, WalkInv
    <2> QED BY <2>3, <2>5, <2>6, Zenon DEF IInv, CountIsLength
  <1>4. ASSUME NEW w \in Walkers, WalkDone(w) PROVE IInv'
    <2>1. NoWalk \in [hash : Hashes \cup {None}, full : BOOLEAN,
                      found : Seq(Ids)]
      BY DEF NoWalk
    <2>2. walk' = [walk EXCEPT ![w] = NoWalk]
          /\ UNCHANGED <<slaves, slave_count, response>>
      BY <1>4 DEF WalkDone
    <2>3. TypeOK'
      BY <2>1, <2>2 DEF IInv, TypeOK
    <2>4. WalkInv'
      BY <2>2, Zenon DEF IInv, TypeOK, WalkInv
    <2> QED BY <2>2, <2>3, <2>4 DEF IInv, CountIsLength
  <1>5. ASSUME UNCHANGED vars PROVE IInv'
    BY <1>5 DEF vars, IInv, TypeOK, CountIsLength, WalkInv
  <1> QED BY <1>1, <1>2, <1>3, <1>4, <1>5 DEF Next

\* Type correctness: in particular a walk only ever visits slaves.
THEOREM TypeCorrect == Spec => []TypeOK
  <1>1. IInv => TypeOK
    BY DEF IInv
  <1> QED BY InitIInv, StepIInv, <1>1, PTL DEF Spec

\* tpcmaster_register never exceeds slave_capacity and counts exactly.
THEOREM NeverMoreThanCapacity == Spec => []CountIsLength
  <1>1. IInv => CountIsLength
    BY DEF IInv
  <1> QED BY InitIInv, StepIInv, <1>1, PTL DEF Spec

-----------------------------------------------------------------------------
\* A registration of an id the loop has seen leaves the list as it is.
LEMMA ExistsUnchanged ==
  ASSUME NEW s \in Seq(Ids), NEW sid \in Ids, AlreadyExists(s, sid)
  PROVE  Inserted(s, sid) = s
  <1>1. s # <<>>
    BY DEF AlreadyExists
  <1>2. CASE sid < s[1]
    <2>1. Inserted(s, sid) = <<sid>> \o s
      BY <1>1, <1>2, Zenon DEF Inserted
    <2>2. Len(<<sid>> \o s) = Len(s) + 1
      OBVIOUS
    <2>3. Len(Inserted(s, sid)) = Len(s)
      BY InsertedFacts, Zenon
    <2> QED BY <2>1, <2>2, <2>3
  <1>3. CASE ~(sid < s[1])
    BY <1>1, <1>3, Zenon DEF Inserted
  <1> QED BY <1>2, <1>3

\* A registration that leaves at most two slaves in a sorted list keeps it
\* sorted.
LEMMA RegisterSorted ==
  ASSUME IInv, Sorted, NEW sid \in Ids, tpcmaster_register(sid), Len(slaves') <= 2
  PROVE  Sorted'
  <1> USE TPCMasterAssumption
  <1>0. slaves \in Seq(Ids) /\ Len(slaves) = slave_count
    BY DEF IInv, TypeOK, CountIsLength
  <1>1. CASE ~(slave_count < Capacity)
    BY <1>1 DEF tpcmaster_register, Sorted
  <1>3. CASE slave_count < Capacity /\ AlreadyExists(slaves, sid)
    <2>1. slaves' = slaves
      BY <1>0, <1>3, ExistsUnchanged DEF tpcmaster_register
    <2> QED BY <2>1 DEF Sorted
  <1>2. CASE slave_count < Capacity /\ ~AlreadyExists(slaves, sid)
    <2>0. slaves' = Inserted(slaves, sid)
      BY <1>2 DEF tpcmaster_register
    <2>3. Len(slaves) <= 1
      <3>1. Len(slaves') = Len(slaves) + 1
        BY <1>0, <1>2, <2>0, InsertedFacts
      <3> QED BY <1>0, <3>1
    <2>1. CASE slaves = <<>>
      <3>1. slaves' = <<sid>>
        BY <2>0, <2>1 DEF Inserted
      <3> QED BY <3>1 DEF Sorted
    <2>2. CASE slaves # <<>>
      <3>1. Len(slaves) = 1 /\ slaves[1] \in Int /\ sid \in Int
        BY <1>0, <2>2, <2>3, ElementType
      <3>2. CASE sid < slaves[1]
        <4> DEFINE d == <<sid>>
        <4>1. slaves' = d \o slaves
          BY <2>0, <2>2, <3>2 DEF Inserted
        <4>a. d \in Seq(Ids) /\ Len(d) = 1 /\ d[1] = sid
          OBVIOUS
        <4> HIDE DEF d
        <4>b. /\ Len(d \o slaves) = Len(d) + Len(slaves)
              /\ \A i \in 1 .. Len(d) + Len(slaves) : (d \o slaves)[i] =
                    IF i <= Len(d) THEN d[i] ELSE slaves[i - Len(d)]
          BY <1>0, <4>a, ConcatProperties, Zenon
        <4>2. Len(slaves') = 2 /\ slaves'[1] = sid /\ slaves'[2] = slaves[1]
          BY <3>1, <4>1, <4>a, <4>b
        <4> QED BY <3>1, <3>2, <4>2 DEF Sorted
      <3>4. CASE ~(sid < slaves[1])
        <4>1. Stop(slaves, sid) = 1
          BY <1>0, <2>2, <3>1, StopFacts
        <4>2. slaves[1] # sid
          BY <1>2, <2>2, <3>1, <4>1 DEF AlreadyExists
        <4>3. slaves' = SubSeq(slaves, 1, 1) \o <<sid>> \o SubSeq(slaves, 2, 1)
          BY <1>2, <2>0, <2>2, <3>1, <3>4, <4>1 DEF Inserted
        <4> DEFINE a == SubSeq(slaves, 1, 1)
                   b == SubSeq(slaves, 2, 1)
                   c == a \o <<sid>>
        <4>4. /\ a \in Seq(Ids) /\ Len(a) = 1 /\ a[1] = slaves[1]
              /\ b \in Seq(Ids) /\ Len(b) = 0
          <5>a. \A i \in 1..1 : slaves[i] \in Ids
            BY <1>0, <3>1, ElementType, Zenon
          <5>b. a \in Seq(Ids) /\ Len(a) = 1 - 1 + 1
                /\ \A i \in 1..(1 - 1 + 1) : a[i] = slaves[1 + i - 1]
            BY <5>a, SubSeqProperties
          <5>1. a \in Seq(Ids) /\ Len(a) = 1 /\ a[1] = slaves[1]
            <6> HIDE DEF a
            <6> QED BY <5>b
          <5>2. b \in Seq(Ids) /\ Len(b) = 0
            BY <1>0, <3>1, SubSeqProperties
          <5> QED BY <5>1, <5>2
        <4>5. <<sid>> \in Seq(Ids) /\ Len(<<sid>>) = 1 /\ <<sid>>[1] = sid
          OBVIOUS
        <4> HIDE DEF a, b
        <4>6. c \in Seq(Ids) /\ Len(c) = 2 /\ c[1] = slaves[1] /\ c[2] = sid
          <5> DEFINE last == <<sid>>
          <5>1. last \in Seq(Ids) /\ Len(last) = 1 /\ last[1] = sid
            BY <4>5
          <5>2. c = a \o last
            OBVIOUS
          <5> HIDE DEF c, last
          <5>3. a \o last \in Seq(Ids) /\ Len(a \o last) = Len(a) + Len(last)
                /\ \A i \in 1..(Len(a) + Len(last)) :
                     (a \o last)[i] = IF i <= Len(a) THEN a[i] ELSE last[i - Len(a)]
            <6>1. a \in Seq(Ids) /\ last \in Seq(Ids)
              BY <4>4, <5>1, Zenon
            <6> QED BY ONLY <6>1, ConcatProperties, Zenon
          <5>4. c[1] = a[1] /\ c[2] = last[1]
            BY <4>4, <5>1, <5>2, <5>3
          <5> QED BY <4>4, <5>1, <5>2, <5>3, <5>4
        <4> HIDE DEF c
        <4>8. slaves' = c \o b
          BY <4>3 DEF a, b, c
        <4>7. Len(slaves') = 2 /\ slaves'[1] = slaves[1] /\ slaves'[2] = sid
          <5>1. Len(c \o b) = Len(c) + Len(b)
                /\ \A i \in 1..(Len(c) + Len(b)) :
                     (c \o b)[i] = IF i <= Len(c) THEN c[i] ELSE b[i - Len(c)]
            BY ONLY <4>4, <4>6, ConcatProperties
          <5>2. Len(c) = 2 /\ Len(b) = 0
            BY <4>4, <4>6
          <5>3. Len(c \o b) = 2 /\ (c \o b)[1] = c[1] /\ (c \o b)[2] = c[2]
            BY <5>1, <5>2
          <5> QED BY <4>6, <4>8, <5>3
        <4> QED BY <3>1, <3>4, <4>2, <4>7 DEF Sorted
      <3> QED BY <3>2, <3>4
    <2> QED BY <2>1, <2>2
  <1> QED BY <1>1, <1>2, <1>3

\* On a sorted list get_primary finds the owner of every hash.
LEMMA OwnerIfSorted ==
  ASSUME slaves \in Seq(Ids), Sorted
  PROVE  PrimaryIsOwner
  <1> USE TPCMasterAssumption
  <1> SUFFICES ASSUME slaves # <<>>, NEW h \in Hashes
               PROVE  IsOwner(Primary(slaves, h), h)
    BY DEF PrimaryIsOwner
  <1> DEFINE own == Primary(slaves, h)
  <1>1. PICK n \in 1..Len(slaves) :
               /\ slaves[n] > h \/ n = Len(slaves)
               /\ \A j \in 1..(n - 1) : slaves[j] <= h
               /\ own = IF slaves[n] <= h THEN slaves[1] ELSE slaves[n]
    BY PrimaryFacts
  <1> HIDE DEF own
  <1>2. \A i \in 1..Len(slaves) : slaves[i] \in Int
    BY ElementType
  <1>3. h \in Int /\ 1 \in 1..Len(slaves)
    OBVIOUS
  <1>a. \A i \in Listed(slaves) : i \in Int
    BY <1>2 DEF Listed
  <1>b. own \in Int
    BY <1>1, <1>2, <1>3
  <1>4. CASE slaves[n] > h
    <2>1. own = slaves[n] /\ own > h /\ own \in Listed(slaves)
      BY <1>1, <1>2, <1>3, <1>4 DEF Listed
    <2>2. ASSUME NEW i \in 1..Len(slaves), slaves[i] > h
          PROVE  own <= slaves[i]
      <3>1. ~(i < n)
        BY <1>1, <1>2, <1>3, <2>2
      <3>2. CASE i = n
        BY <1>2, <2>1, <3>2
      <3>3. CASE i > n
        BY <1>2, <2>1, <3>3 DEF Sorted
      <3> QED BY <3>1, <3>2, <3>3
    <2>3. \A i \in Listed(slaves) : i > h => own <= i
      BY <2>2 DEF Listed
    <2>4. IsOwner(own, h)
      BY <1>3, <1>a, <1>b, <2>1, <2>3 DEF IsOwner
    <2> QED BY <2>4 DEF own
  <1>5. CASE ~(slaves[n] > h)
    <2>1. slaves[n] <= h /\ n = Len(slaves) /\ own = slaves[1]
      BY <1>1, <1>2, <1>3, <1>5
    <2>2. \A i \in 1..Len(slaves) : slaves[i] <= h
      BY <1>1, <2>1
    <2>3. \A i \in Listed(slaves) : ~(i > h)
      BY <1>2, <1>3, <2>2 DEF Listed
    <2>4. \A i \in 1..Len(slaves) : own <= slaves[i]
      BY <1>2, <1>3, <2>1 DEF Sorted
    <2>5. own \in Listed(slaves) /\ \A i \in Listed(slaves) : own <= i
      BY <1>3, <2>1, <2>4 DEF Listed
    <2>6. IsOwner(own, h)
      BY <1>3, <1>a, <1>b, <2>3, <2>5, Zenon DEF IsOwner
    <2> QED BY <2>6 DEF own
  <1> QED BY <1>4, <1>5

\* The steps of a walk leave the list alone.
LEMMA StepSorted ==
  ASSUME Capacity <= 2
  PROVE  IInv /\ Sorted /\ [Next]_vars => Sorted'
  <1> SUFFICES ASSUME IInv, Sorted, [Next]_vars PROVE Sorted'
    OBVIOUS
  <1>1. ASSUME NEW sid \in Ids, tpcmaster_register(sid) PROVE Sorted'
    <2>1. IInv'
      BY <1>1, StepIInv DEF Next
    <2>2. Len(slaves') <= 2
      BY <2>1, TPCMasterAssumption DEF IInv, TypeOK, CountIsLength
    <2> QED BY <1>1, <2>2, RegisterSorted
  <1>2. ASSUME UNCHANGED slaves PROVE Sorted'
    BY <1>2 DEF Sorted
  <1> QED
    BY <1>1, <1>2 DEF Next, vars, get_primary, get_successor, WalkDone

\* With at most two slaves the list is always sorted.
THEOREM AlwaysSorted ==
  ASSUME Capacity <= 2
  PROVE  Spec => []Sorted
  <1>1. Init => Sorted
    BY DEF Init, Sorted
  <1>2. IInv /\ Sorted /\ [Next]_vars => Sorted'
    BY StepSorted
  <1> QED BY InitIInv, StepIInv, <1>1, <1>2, PTL DEF Spec

\* With at most two slaves every key is looked up at its owner.
THEOREM LookupFindsOwner ==
  ASSUME Capacity <= 2
  PROVE  Spec => []PrimaryIsOwner
  <1>1. TypeOK /\ Sorted => PrimaryIsOwner
    BY OwnerIfSorted, Zenon DEF TypeOK
  <1> QED BY TypeCorrect, AlwaysSorted, <1>1, PTL
-----------------------------------------------------------------------------
\* No slave is in the list twice.
NoSlaveTwice == \A i, j \in 1..Len(slaves) : slaves[i] = slaves[j] => i = j

\* A list of at most two slaves is sorted, whatever the capacity.
ShortSorted == Len(slaves) <= 2 => Sorted

\* The place i - 1 places after p in a list of n, round its end.
Round(n, p, i) == IF p + i - 1 <= n THEN p + i - 1 ELSE p + i - 1 - n

\* If the walk x began on a full list, it has followed the list s from the
\* first slave it found.
GoesRound(s, x) ==
  x.full =>
    /\ Len(s) = Capacity /\ Len(x.found) <= redundancy
    /\ \E p \in 1..Len(s) :
         \A i \in 1..Len(x.found) : x.found[i] = s[Round(Len(s), p, i)]

WalksGoRound == \A w \in Walkers : GoesRound(slaves, walk[w])

\* A registration that is not refused puts the id at one place of the list
\* and moves the slaves behind it.
LEMMA InsertedShape ==
  ASSUME NEW s \in Seq(Ids), NEW sid \in Ids, ~AlreadyExists(s, sid)
  PROVE  \E n \in 0..Len(s) : \A i \in 1..Len(s) + 1 :
           Inserted(s, sid)[i] = IF i <= n THEN s[i] ELSE IF i = n + 1 THEN sid ELSE s[i - 1]
  <1> USE TPCMasterAssumption
  <1>1. CASE s = <<>>
    <2>1. Inserted(s, sid) = <<sid>> /\ Len(s) = 0
      BY <1>1 DEF Inserted
    <2> QED BY <2>1
  <1>2. CASE s # <<>> /\ sid < s[1]
    <2>1. Inserted(s, sid) = <<sid>> \o s
      BY <1>2, Zenon DEF Inserted
    <2>2. \A i \in 1..Len(s) + 1 :
            (<<sid>> \o s)[i] = IF i <= 0 THEN s[i] ELSE IF i = 0 + 1 THEN sid ELSE s[i - 1]
      OBVIOUS
    <2> QED BY <2>1, <2>2
  <1>3. CASE s # <<>> /\ ~(sid < s[1])
    <2> DEFINE n == Stop(s, sid)
               a == SubSeq(s, 1, n)
               b == SubSeq(s, n + 1, Len(s))
               c == a \o <<sid>>
    <2>1. n \in 1..Len(s)
      BY <1>3, StopFacts
    <2>2. Inserted(s, sid) = c \o b
      BY <1>3, Zenon DEF Inserted
    <2> HIDE DEF n
    <2>3. a \in Seq(Ids) /\ Len(a) = n /\ \A i \in 1..n : a[i] = s[i]
      BY <2>1
    <2>4. b \in Seq(Ids) /\ Len(b) = Len(s) - n
          /\ \A i \in 1..(Len(s) - n) : b[i] = s[n + i]
      BY <2>1
    <2> HIDE DEF a, b
    <2>5. c \in Seq(Ids) /\ Len(c) = n + 1 /\ c[n + 1] = sid
          /\ \A i \in 1..n : c[i] = s[i]
      BY <2>1, <2>3
    <2> HIDE DEF c
    <2>6. \A i \in 1..Len(c) + Len(b) :
            (c \o b)[i] = IF i <= Len(c) THEN c[i] ELSE b[i - Len(c)]
      BY <2>4, <2>5, ConcatProperties, Zenon
    <2>7. ASSUME NEW i \in 1..Len(s) + 1
          PROVE  (c \o b)[i] = IF i <= n THEN s[i] ELSE IF i = n + 1 THEN sid ELSE s[i - 1]
      <3>1. (c \o b)[i] = IF i <= n + 1 THEN c[i] ELSE b[i - (n + 1)]
        BY <2>1, <2>4, <2>5, <2>6
      <3>2. CASE i <= n + 1
        BY <2>1, <2>5, <3>1, <3>2
      <3>3. CASE i > n + 1
        <4>1. i - (n + 1) \in 1..(Len(s) - n) /\ n + (i - (n + 1)) = i - 1
          BY <2>1, <3>3
        <4> QED BY <2>1, <2>4, <3>1, <3>3, <4>1
      <3>4. i <= n + 1 \/ i > n + 1
        BY <2>1
      <3> QED BY <3>2, <3>3, <3>4, Zenon
    <2>8. n \in 0..Len(s)
      BY <2>1
    <2> QED BY <2>2, <2>7, <2>8, Zenon
  <1> QED BY <1>1, <1>2, <1>3

\* On a sorted list the loop of tpcmaster_register sees every id.
LEMMA NewIfSorted ==
  ASSUME slaves \in Seq(Ids), Sorted, NEW sid \in Ids, ~AlreadyExists(slaves, sid)
  PROVE  \A i \in 1..Len(slaves) : slaves[i] # sid
  <1> USE TPCMasterAssumption
  <1> SUFFICES ASSUME NEW i \in 1..Len(slaves), slaves[i] = sid PROVE FALSE
    OBVIOUS
  <1> DEFINE n == Stop(slaves, sid)
  <1>1. slaves # <<>>
    OBVIOUS
  <1>2. /\ n \in 1..Len(slaves)
        /\ slaves[n] >= sid \/ n = Len(slaves)
    BY <1>1, StopFacts
  <1>3. \A j \in 1..n : slaves[j] # sid
    BY <1>1, Zenon DEF AlreadyExists
  <1> HIDE DEF n
  <1>4. i > n
    BY <1>2, <1>3
  <1>5. slaves[n] \in Int /\ slaves[i] \in Int /\ slaves[n] # sid /\ n \in 1..n
    BY <1>2, <1>3, ElementType
  <1>6. slaves[n] < slaves[i]
    BY <1>2, <1>4 DEF Sorted
  <1> QED BY <1>2, <1>4, <1>5, <1>6

\* Short lists stay sorted, and a list with room for a third slave at most
\* gets no slave twice.
LEMMA RegisterOnce ==
  ASSUME IInv, ShortSorted, NoSlaveTwice, Capacity <= 3,
         NEW sid \in Ids, tpcmaster_register(sid)
  PROVE  ShortSorted' /\ NoSlaveTwice'
  <1> USE TPCMasterAssumption
  <1>0. slaves \in Seq(Ids) /\ Len(slaves) \in Nat /\ Len(slaves) = slave_count
    BY DEF IInv, TypeOK, CountIsLength
  <1>1. CASE slaves' = slaves
    BY <1>1 DEF ShortSorted, NoSlaveTwice, Sorted
  <1>2. CASE slaves' # slaves
    <2>1. slaves' = Inserted(slaves, sid) /\ Len(slaves) <= 2
      BY <1>0, <1>2 DEF tpcmaster_register
    <2>2. Sorted
      BY <2>1 DEF ShortSorted
    <2>3. ShortSorted'
      BY <2>2, RegisterSorted DEF ShortSorted
    <2>4. ~AlreadyExists(slaves, sid)
      BY <1>0, <1>2, <2>1, ExistsUnchanged
    <2>5. \A i \in 1..Len(slaves) : slaves[i] # sid
      BY <1>0, <2>2, <2>4, NewIfSorted
    <2>6. Len(slaves') = Len(slaves) + 1
      BY <1>0, <2>1, <2>4, InsertedFacts
    <2>a. \E n \in 0..Len(slaves) : \A i \in 1..Len(slaves) + 1 :
            Inserted(slaves, sid)[i] = IF i <= n THEN slaves[i]
                                      ELSE IF i = n + 1 THEN sid ELSE slaves[i - 1]
      BY <1>0, <2>4, InsertedShape, Zenon
    <2>7. PICK n \in 0..Len(slaves) : \A i \in 1..Len(slaves) + 1 :
            slaves'[i] = IF i <= n THEN slaves[i]
                         ELSE IF i = n + 1 THEN sid ELSE slaves[i - 1]
      BY <2>1, <2>a, Zenon
    <2>8. ASSUME NEW i \in 1..Len(slaves'), NEW j \in 1..Len(slaves'),
                 slaves'[i] = slaves'[j]
          PROVE  i = j
      <3> DEFINE k == IF i <= n THEN i ELSE i - 1
                 l == IF j <= n THEN j ELSE j - 1
      <3>1. /\ i # n + 1 => k \in 1..Len(slaves) /\ slaves'[i] = slaves[k]
            /\ i = n + 1 => slaves'[i] = sid
        BY <1>0, <2>6, <2>7
      <3>2. /\ j # n + 1 => l \in 1..Len(slaves) /\ slaves'[j] = slaves[l]
            /\ j = n + 1 => slaves'[j] = sid
        BY <1>0, <2>6, <2>7
      <3>3. (i # n + 1 /\ j # n + 1) => k = l
        <4> HIDE DEF k, l
        <4> QED BY <2>8, <3>1, <3>2, Zenon DEF NoSlaveTwice
      <3>4. i = n + 1 <=> j = n + 1
        <4> HIDE DEF k, l
        <4> QED BY <2>5, <2>8, <3>1, <3>2, Zenon
      <3> QED BY <1>0, <2>6, <3>3, <3>4
    <2> QED BY <2>3, <2>8 DEF NoSlaveTwice
  <1> QED BY <1>1, <1>2

\* On a list without a slave twice get_successor goes to the next place.
LEMMA SuccessorNext ==
  ASSUME slaves \in Seq(Ids), NoSlaveTwice, NEW i \in 1..Len(slaves)
  PROVE  Successor(slaves, slaves[i]) = slaves[IF i < Len(slaves) THEN i + 1 ELSE 1]
  <1> DEFINE c == CHOOSE k \in 1..Len(slaves) : slaves[k] = slaves[i]
  <1>1. c \in 1..Len(slaves) /\ slaves[c] = slaves[i]
    OBVIOUS
  <1>2. Successor(slaves, slaves[i]) = IF c < Len(slaves) THEN slaves[c + 1] ELSE slaves[1]
    BY DEF Successor
  <1> HIDE DEF c
  <1>3. c = i
    BY <1>1, Zenon DEF NoSlaveTwice
  <1> QED BY <1>2, <1>3

ReplicaInv == IInv /\ ShortSorted /\ NoSlaveTwice /\ WalksGoRound

\* The walk goes once round the list at most.
LEMMA RoundFacts ==
  ASSUME NEW n \in Nat, NEW p \in 1..n, NEW i \in 1..n
  PROVE  /\ Round(n, p, i) \in 1..n
         /\ Round(n, p, 1) = p
         /\ Round(n, p, i + 1) = IF Round(n, p, i) < n THEN Round(n, p, i) + 1 ELSE 1
         /\ \A j \in 1..n : Round(n, p, i) = Round(n, p, j) => i = j
  BY DEF Round

\* A walk starts at the place of the list where get_primary stopped.
LEMMA PrimaryPlace ==
  ASSUME NEW s \in Seq(Ids), s # <<>>, NEW h \in Hashes
  PROVE  \E p \in 1..Len(s) : Primary(s, h) = s[p]
  BY PrimaryInList DEF Listed

\* Every step of a walk goes one place on, and no registration can move the
\* slaves of a full list.
LEMMA StepReplica ==
  ASSUME Capacity <= 3
  PROVE  ReplicaInv /\ [Next]_vars => ReplicaInv'
  <1> SUFFICES ASSUME ReplicaInv, [Next]_vars PROVE ReplicaInv'
    OBVIOUS
  <1> USE TPCMasterAssumption
  <1>0. /\ slaves \in Seq(Ids) /\ Len(slaves) \in Nat /\ slave_count = Len(slaves)
        /\ walk \in [Walkers -> [hash : Hashes \cup {None}, full : BOOLEAN,
                                 found : Seq(Ids)]]
        /\ IInv /\ ShortSorted /\ NoSlaveTwice /\ WalksGoRound
    BY DEF ReplicaInv, IInv, TypeOK, CountIsLength
  <1>i. IInv'
    BY <1>0, StepIInv, Zenon
  <1>1. ASSUME NEW sid \in Ids, tpcmaster_register(sid) PROVE ReplicaInv'
    <2>1. ShortSorted' /\ NoSlaveTwice'
      BY <1>0, <1>1, RegisterOnce, Zenon
    <2>2. walk' = walk /\ (Len(slaves) = Capacity => slaves' = slaves)
      BY <1>0, <1>1 DEF tpcmaster_register
    <2>3. ASSUME NEW v \in Walkers PROVE GoesRound(slaves', walk[v])
      <3>1. CASE walk[v].full
        <4>1. slaves' = slaves
          BY <1>0, <2>2, <3>1, Zenon DEF WalksGoRound, GoesRound
        <4> QED BY <1>0, <4>1, Zenon DEF WalksGoRound
      <3>2. CASE ~walk[v].full
        BY <3>2, Zenon DEF GoesRound
      <3> QED BY <3>1, <3>2, Zenon
    <2>4. WalksGoRound'
      BY <2>2, <2>3, Zenon DEF WalksGoRound
    <2> QED BY <1>i, <2>1, <2>4, Zenon DEF ReplicaInv
  <1>2. ASSUME slaves' = slaves,
               \A v \in Walkers : walk'[v] = walk[v] \/ GoesRound(slaves, walk'[v])
        PROVE  ReplicaInv'
    <2>1. ShortSorted' /\ NoSlaveTwice'
      BY <1>0, <1>2 DEF ShortSorted, NoSlaveTwice, Sorted
    <2>2. WalksGoRound'
      BY <1>0, <1>2, Zenon DEF WalksGoRound
    <2> QED BY <1>i, <2>1, <2>2, Zenon DEF ReplicaInv
  <1>3. ASSUME NEW w \in Walkers, NEW h \in Hashes, get_primary(w, h)
        PROVE  ReplicaInv'
    <2>1. slaves' = slaves /\ slaves # <<>>
      BY <1>3, Zenon DEF get_primary
    <2>2. PICK p \in 1..Len(slaves) : Primary(slaves, h) = slaves[p]
      BY <1>0, <2>1, PrimaryPlace, Zenon
    <2> DEFINE f == <<slaves[p]>>
    <2>3. /\ \A v \in Walkers \ {w} : walk'[v] = walk[v]
          /\ walk'[w].full = (slave_count = Capacity)
          /\ walk'[w].found = f
      BY <1>0, <1>3, <2>2 DEF get_primary
    <2>4. Len(f) = 1 /\ f[1] = slaves[p]
      OBVIOUS
    <2> HIDE DEF f
    <2>5. Round(Len(slaves), p, 1) = p /\ 1 <= redundancy
      BY <1>0, RoundFacts DEF redundancy
    <2>6. \A i \in 1..Len(f) : f[i] = slaves[Round(Len(slaves), p, i)]
      BY <2>4, <2>5
    <2>7. Len(f) <= redundancy
      BY <2>4, <2>5
    <2>8. GoesRound(slaves, walk'[w])
      BY <1>0, <2>3, <2>6, <2>7, Zenon DEF GoesRound
    <2> QED BY <1>2, <2>1, <2>3, <2>8, Zenon
  <1>4. ASSUME NEW w \in Walkers, get_successor(w) PROVE ReplicaInv'
    <2> DEFINE f == walk[w].found
               n == Successor(slaves, f[Len(f)])
    <2>0. slaves' = slaves /\ walk[w] # NoWalk /\ Len(f) < redundancy
      BY <1>4, Zenon DEF get_successor
    <2>a. WalkInv
      BY <1>0, Zenon DEF IInv
    <2>b. f \in Seq(Ids) /\ Len(f) \in Nat
      BY <1>0
    <2>c. 1 <= Len(f) /\ \A i \in 1..Len(f) : f[i] \in Listed(slaves)
      BY <2>0, <2>a, <2>b DEF WalkInv
    <2>1. f[Len(f)] \in Listed(slaves)
      BY <2>b, <2>c
    <2>2. n \in Ids
      BY <1>0, <2>1, SuccessorInList, Zenon
    <2>3. /\ \A v \in Walkers \ {w} : walk'[v] = walk[v]
          /\ walk'[w].full = walk[w].full
          /\ walk'[w].found = Append(f, n)
      BY <1>0, <1>4 DEF get_successor
    <2>4. n = Successor(slaves, f[Len(f)])
      OBVIOUS
    <2>5. f = walk[w].found
      OBVIOUS
    <2> HIDE DEF f, n
    <2>6. /\ Len(Append(f, n)) = Len(f) + 1
          /\ Append(f, n)[Len(f) + 1] = n
          /\ \A i \in 1..Len(f) : Append(f, n)[i] = f[i]
      BY <2>b, <2>2, AppendProperties
    <2>7. ASSUME walk[w].full
          PROVE  /\ Len(slaves) = Capacity /\ Len(Append(f, n)) <= redundancy
                 /\ \E p \in 1..Len(slaves) :
                      \A i \in 1..Len(Append(f, n)) :
                        Append(f, n)[i] = slaves[Round(Len(slaves), p, i)]
      <3>1. PICK p \in 1..Len(slaves) :
              \A i \in 1..Len(f) : f[i] = slaves[Round(Len(slaves), p, i)]
        BY <1>0, <2>5, <2>7, Zenon DEF WalksGoRound, GoesRound
      <3>2. Len(slaves) = Capacity
        BY <1>0, <2>7, Zenon DEF WalksGoRound, GoesRound
      <3>3. Len(f) \in 1..Len(slaves) /\ Len(f) \in 1..Len(f) /\ Len(f) + 1 <= redundancy
        BY <2>0, <2>b, <2>c, <3>2 DEF redundancy
      <3> DEFINE r == Round(Len(slaves), p, Len(f))
      <3>4. r \in 1..Len(slaves)
            /\ Round(Len(slaves), p, Len(f) + 1) = IF r < Len(slaves) THEN r + 1 ELSE 1
        BY <1>0, <3>3, RoundFacts, Zenon
      <3>5. f[Len(f)] = slaves[r]
        BY <3>1, <3>3, Zenon
      <3> HIDE DEF r
      <3>6. n = slaves[Round(Len(slaves), p, Len(f) + 1)]
        BY <1>0, <2>4, <3>4, <3>5, SuccessorNext, Zenon
      <3>7. ASSUME NEW i \in 1..Len(Append(f, n))
            PROVE  Append(f, n)[i] = slaves[Round(Len(slaves), p, i)]
        <4>1. i \in 1..Len(f) \/ i = Len(f) + 1
          BY <2>b, <2>6
        <4> QED BY <2>6, <3>1, <3>6, <4>1, Zenon
      <3>8. Len(Append(f, n)) <= redundancy
        BY <2>6, <3>3, Zenon
      <3> QED BY <3>2, <3>7, <3>8, Zenon
    <2>8. GoesRound(slaves, walk'[w])
      BY <2>3, <2>7, Zenon DEF GoesRound
    <2> QED BY <1>2, <2>0, <2>3, <2>8, Zenon
  <1>5. ASSUME NEW w \in Walkers, WalkDone(w) PROVE ReplicaInv'
    <2>1. /\ slaves' = slaves
          /\ \A v \in Walkers \ {w} : walk'[v] = walk[v]
          /\ ~walk'[w].full
      BY <1>0, <1>5, Zenon DEF WalkDone, NoWalk
    <2>2. GoesRound(slaves, walk'[w])
      BY <2>1, Zenon DEF GoesRound
    <2> QED BY <1>2, <2>1, <2>2, Zenon
  <1>6. ASSUME UNCHANGED vars PROVE ReplicaInv'
    <2>1. slaves' = slaves /\ walk' = walk
      BY <1>6 DEF vars
    <2> QED BY <1>2, <2>1, Zenon
  <1> QED BY <1>1, <1>3, <1>4, <1>5, <1>6, Zenon DEF Next

\* A walk that goes on round a full list visits different slaves.
LEMMA RoundDiffers == ReplicaInv => ReplicasDiffer
  <1> SUFFICES ASSUME ReplicaInv, NEW w \in Walkers, walk[w].full,
                      NEW i \in 1..Len(walk[w].found), NEW j \in 1..Len(walk[w].found),
                      walk[w].found[i] = walk[w].found[j]
               PROVE  i = j
    BY Zenon DEF ReplicasDiffer
  <1> USE TPCMasterAssumption
  <1>1. /\ slaves \in Seq(Ids) /\ Len(slaves) \in Nat /\ NoSlaveTwice
        /\ Len(walk[w].found) \in Nat
    BY DEF ReplicaInv, IInv, TypeOK
  <1>2. Len(slaves) = Capacity /\ Len(walk[w].found) <= redundancy
    BY Zenon DEF ReplicaInv, WalksGoRound, GoesRound
  <1>3. PICK p \in 1..Len(slaves) :
          \A k \in 1..Len(walk[w].found) :
            walk[w].found[k] = slaves[Round(Len(slaves), p, k)]
    BY Zenon DEF ReplicaInv, WalksGoRound, GoesRound
  <1> DEFINE m == Len(slaves)
             ri == Round(m, p, i)
             rj == Round(m, p, j)
  <1>4. i \in 1..m /\ j \in 1..m /\ m \in Nat
    BY <1>1, <1>2 DEF redundancy
  <1>5. ri \in 1..m /\ rj \in 1..m /\ (ri = rj => i = j)
    BY <1>4, RoundFacts
  <1>6. slaves[ri] = slaves[rj]
    BY <1>3, Zenon
  <1> HIDE DEF ri, rj
  <1> QED BY <1>1, <1>5, <1>6, Zenon DEF NoSlaveTwice

\* With up to three slaves, the replicas a walk visits once all slaves have
\* registered are different slaves, whatever happens between its calls.
THEOREM WalkVisitsDifferentSlaves ==
  ASSUME Capacity <= 3
  PROVE  Spec => []ReplicasDiffer
  <1>1. Init => ReplicaInv
    <2> SUFFICES ASSUME Init PROVE ReplicaInv
      OBVIOUS
    <2>1. slaves = <<>> /\ \A w \in Walkers : ~walk[w].full
      BY DEF Init, NoWalk
    <2>2. ShortSorted /\ NoSlaveTwice
      BY <2>1 DEF ShortSorted, Sorted, NoSlaveTwice
    <2>3. WalksGoRound
      BY <2>1, Zenon DEF WalksGoRound, GoesRound
    <2> QED BY <2>2, <2>3, InitIInv, Zenon DEF ReplicaInv
  <1>2. ReplicaInv /\ [Next]_vars => ReplicaInv'
    BY StepReplica, Zenon
  <1> QED BY <1>1, <1>2, RoundDiffers, PTL DEF Spec
=============================================================================
