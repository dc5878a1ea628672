----------------------------- MODULE TPCMaster -----------------------------
(***************************************************************************)
(* The slave list of kvstore/src/server/tpcmaster.c: registration, and the *)
(* walk over the replicas of a key (tpcmaster_get_primary, then            *)
(* tpcmaster_get_successor), each call under slave_lock, the lock being    *)
(* released between the calls of one walk.  Ids and key hashes are         *)
(* integers (hash_64_bit); the list is the sequence of its ids.            *)
(***************************************************************************)
EXTENDS Integers, Sequences

CONSTANTS Ids,         \* ids of the slaves that may register
          Hashes,      \* hashes of keys
          Capacity,    \* slave_capacity
          Redundancy,  \* the argument of tpcmaster_init
          Walkers,     \* threads that look replicas up
          None

ASSUME TPCMasterAssumption ==
  /\ Ids \subseteq Int /\ Hashes \subseteq Int
  /\ Capacity \in Nat \ {0} /\ Redundancy \in Nat \ {0}
  /\ None \notin Int

VARIABLES slaves,       \* ids in list order, from slaves_head
          slave_count,
          response,     \* outcome of the last registration
          walk          \* walk[w]: the replicas a walker has found so far

vars == <<slaves, slave_count, response, walk>>

NoWalk == [hash |-> None, full |-> FALSE, found |-> <<>>]

\* tpcmaster_init
Init ==
  /\ slaves = <<>>
  /\ slave_count = 0
  /\ response = [id |-> None, ok |-> TRUE]
  /\ walk = [w \in Walkers |-> NoWalk]

redundancy == IF Redundancy > Capacity THEN Capacity ELSE Redundancy

Listed(s) == {s[i] : i \in 1..Len(s)}

-----------------------------------------------------------------------------
\* Where the loop of tpcmaster_register stops: at the first id that is not
\* smaller, or at the end of the list.
Stop(s, id) ==
  CHOOSE i \in 1..Len(s) :
    /\ s[i] >= id \/ i = Len(s)
    /\ \A j \in 1..(i - 1) : s[j] < id

\* already_exists: the loop has seen the id.
AlreadyExists(s, id) == s # <<>> /\ \E j \in 1..Stop(s, id) : s[j] = id

\* The new slave goes behind the entry where the loop stopped, also when it is
\* smaller than the head.
Inserted_Behind(s, id) ==
  IF s = <<>> THEN <<id>>
  ELSE IF AlreadyExists(s, id) THEN s
  ELSE SubSeq(s, 1, Stop(s, id)) \o <<id>>
         \o SubSeq(s, Stop(s, id) + 1, Len(s))

\* The new slave goes in front of the list or behind the entry where the loop
\* stopped.
Inserted(s, id) ==
  IF s = <<>> THEN <<id>>
  ELSE IF id < s[1] THEN <<id>> \o s
  ELSE IF AlreadyExists(s, id) THEN s
  ELSE SubSeq(s, 1, Stop(s, id)) \o <<id>>
         \o SubSeq(s, Stop(s, id) + 1, Len(s))

tpcmaster_register(id) ==
  /\ IF slave_count < Capacity
     THEN /\ slaves' = Inserted(slaves, id)
          /\ slave_count' = IF AlreadyExists(slaves, id) THEN slave_count
                            ELSE slave_count + 1
     ELSE UNCHANGED <<slaves, slave_count>>
  /\ response' = [id |-> id, ok |-> slave_count < Capacity]
  /\ UNCHANGED walk

-----------------------------------------------------------------------------
\* The comparison lets an id that equals the hash stop the walk.
Primary_Equal(s, h) ==
  LET i == CHOOSE i \in 1..Len(s) :
             /\ s[i] >= h \/ i = Len(s)
             /\ \A j \in 1..(i - 1) : s[j] < h
  IN  IF s[i] < h THEN s[1] ELSE s[i]

\* tpcmaster_get_primary on a list that is not empty: the first id greater
\* than the hash, or the head.
Primary(s, h) ==
  LET i == CHOOSE i \in 1..Len(s) :
             /\ s[i] > h \/ i = Len(s)
             /\ \A j \in 1..(i - 1) : s[j] <= h
  IN  IF s[i] <= h THEN s[1] ELSE s[i]

\* tpcmaster_get_successor, without the wrap to the head.
Successor_NoWrap(s, id) ==
  LET i == CHOOSE i \in 1..Len(s) : s[i] = id
  IN  IF i < Len(s) THEN s[i + 1] ELSE id

\* tpcmaster_get_successor: the next entry, at the end the head.
Successor(s, id) ==
  LET i == CHOOSE i \in 1..Len(s) : s[i] = id
  IN  IF i < Len(s) THEN s[i + 1] ELSE s[1]

\* A walk over the replicas of a key starts, and goes on.
get_primary(w, h) ==
  /\ walk[w] = NoWalk /\ slaves # <<>>
  /\ walk' = [walk EXCEPT ![w] =
                [hash |-> h, full |-> slave_count = Capacity,
                 found |-> <<Primary(slaves, h)>>]]
  /\ UNCHANGED <<slaves, slave_count, response>>

get_successor(w) ==
  LET f == walk[w].found IN
  /\ walk[w] # NoWalk /\ Len(f) < redundancy
  /\ walk' = [walk EXCEPT ![w].found =
                Append(f, Successor(slaves, f[Len(f)]))]
  /\ UNCHANGED <<slaves, slave_count, response>>

\* All replicas have been visited.
WalkDone(w) ==
  /\ walk[w] # NoWalk /\ Len(walk[w].found) >= redundancy
  /\ walk' = [walk EXCEPT ![w] = NoWalk]
  /\ UNCHANGED <<slaves, slave_count, response>>

Next ==
  \/ \E id \in Ids : tpcmaster_register(id)
  \/ \E w \in Walkers :
       \/ \E h \in Hashes : get_primary(w, h)
       \/ get_successor(w) \/ WalkDone(w)

Spec == Init /\ [][Next]_vars

-----------------------------------------------------------------------------
TypeOK ==
  /\ slaves \in Seq(Ids)
  /\ slave_count \in 0..Capacity
  /\ response \in [id : Ids \cup {None}, ok : BOOLEAN]
  /\ walk \in [Walkers -> [hash : Hashes \cup {None}, full : BOOLEAN,
                           found : Seq(Ids)]]

(* "There can never be more slaves than the MASTER's slave_capacity", and  *)
(* slave_count counts them.                                                *)
CountIsLength == slave_count = Len(slaves) /\ Len(slaves) <= Capacity

(* The list is in increasing order without duplicates: what get_primary,   *)
(* get_successor ("sorted in increasing order") and the loop of            *)
(* tpcmaster_register itself rely on.                                      *)
Sorted == \A i, j \in 1..Len(slaves) : i < j => slaves[i] < slaves[j]

\* p is the slave with the lowest id above h, or the lowest if there is none.
IsOwner(p, h) ==
  /\ p \in Listed(slaves)
  /\ \/ p > h /\ \A i \in Listed(slaves) : i > h => p <= i
     \/ \A i \in Listed(slaves) : ~(i > h) /\ p <= i

(* tpcmaster_get_primary returns "the first slave whose ID is greater than *)
(* the KEY's hash, and the one with lowest ID if none matches".            *)
PrimaryIsOwner ==
  slaves # <<>> => \A h \in Hashes : IsOwner(Primary(slaves, h), h)

(* Once all slaves have registered, the redundancy replicas a walk visits  *)
(* are different slaves, although the lock is released between its calls   *)
(* and registrations go on being tried.                                    *)
ReplicasDiffer ==
  \A w \in Walkers :
    LET f == walk[w].found IN
    walk[w].full =>
      \A i, j \in 1..Len(f) : f[i] = f[j] => i = j
=============================================================================
