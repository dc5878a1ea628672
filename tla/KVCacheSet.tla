----------------------------- MODULE KVCacheSet -----------------------------
(***************************************************************************)
(* One cache set, kvstore/src/server/kvcacheset.c, under its lock.  The    *)
(* eviction loop of kvcacheset_put is modelled visit by visit, with the    *)
(* list pointers el and tmp of DL_FOREACH_SAFE; everything else is one     *)
(* step per call.                                                          *)
(***************************************************************************)
EXTENDS CacheSetOps

CONSTANTS Keys, Values, ElemPerSet, NoValue

\* kvcacheset_init refuses fewer than 2 elements.
ASSUME KVCacheSetAssumption ==
  /\ ElemPerSet \in Nat /\ ElemPerSet >= 2
  /\ NoValue \notin Keys

VARIABLES entries,      \* cacheset->entries, which cacheset->hash indexes
          num_entries,  \* cacheset->num_entries
          put_pc,           \* "idle", or where kvcacheset_put is
          new,          \* the entry being inserted
          el,           \* loop variable: key of an entry, NoValue for NULL
          before        \* history: the entries when the loop was entered

cacheVars == <<entries, num_entries, put_pc, new, el, before>>

Entries == [key : Keys, val : Values, ref : BOOLEAN]
NoEntry == [key |-> NoValue, val |-> NoValue, ref |-> FALSE]

CacheInit ==
  /\ entries = <<>>
  /\ num_entries = 0
  /\ put_pc = "idle"
  /\ new = NoEntry
  /\ el = NoValue
  /\ before = <<>>

\* The entry that el->next points to.
NextOf(es, i) == IF i < Len(es) THEN es[i + 1].key ELSE NoValue

HeadOf(es) == IF es = <<>> THEN NoValue ELSE es[1].key

-----------------------------------------------------------------------------
Get(k) ==
  /\ put_pc = "idle" /\ Holds(entries, k)
  /\ entries' = [entries EXCEPT ![IndexOf(entries, k)].ref = TRUE]
  /\ UNCHANGED <<num_entries, put_pc, new, el, before>>

\* kvcacheset_put finds the key: replace the value, set the reference bit.
PutUpdate(k, v) ==
  /\ put_pc = "idle" /\ Holds(entries, k)
  /\ entries' = [entries EXCEPT ![IndexOf(entries, k)] = Entry(k, v, TRUE)]
  /\ UNCHANGED <<num_entries, put_pc, new, el, before>>

\* The key is not looked up before it is inserted.
PutRoom_NoLookup(k, v) ==
  /\ put_pc = "idle"
  /\ num_entries < ElemPerSet
  /\ num_entries' = num_entries + 1
  /\ entries' = Append(entries, Entry(k, v, FALSE))
  /\ UNCHANGED <<put_pc, new, el, before>>

\* kvcacheset_put of a new key while the counter allows it.
PutRoom(k, v) ==
  /\ put_pc = "idle" /\ ~Holds(entries, k)
  /\ num_entries < ElemPerSet
  /\ num_entries' = num_entries + 1
  /\ entries' = Append(entries, Entry(k, v, FALSE))
  /\ UNCHANGED <<put_pc, new, el, before>>

\* kvcacheset_put of a new key otherwise: enter the loop.
PutEvict(k, v) ==
  /\ put_pc = "idle" /\ ~Holds(entries, k)
  /\ ~(num_entries < ElemPerSet)
  /\ put_pc' = "loop"
  /\ new' = Entry(k, v, FALSE)
  /\ el' = HeadOf(entries)
  /\ before' = entries
  /\ UNCHANGED <<entries, num_entries>>

\* The reference bit is not cleared when the entry moves to the back.
Visit_KeepRef ==
  LET i == IndexOf(entries, el) IN
  /\ put_pc = "loop" /\ el # NoValue
  /\ IF entries[i].ref
     THEN /\ entries' = Append(Without(entries, i), entries[i])
          /\ el' = NextOf(entries, i)
          /\ UNCHANGED put_pc
     ELSE /\ entries' = Without(entries, i)
          /\ put_pc' = "insert"
          /\ UNCHANGED el
  /\ UNCHANGED <<num_entries, new, before>>

\* The loop's break is missing: the loop goes on after an eviction.
Visit_NoBreak ==
  LET i == IndexOf(entries, el) IN
  /\ put_pc = "loop" /\ el # NoValue
  /\ entries' = IF entries[i].ref
                THEN Append(Without(entries, i),
                            [entries[i] EXCEPT !.ref = FALSE])
                ELSE Without(entries, i)
  /\ el' = NextOf(entries, i)
  /\ UNCHANGED <<num_entries, put_pc, new, before>>

\* One visit of the loop: tmp = el->next; unlink el; if it is unreferenced,
\* free it and break, else clear the bit, append it and go on to tmp.
Visit ==
  LET i == IndexOf(entries, el) IN
  /\ put_pc = "loop" /\ el # NoValue
  /\ IF entries[i].ref
     THEN /\ entries' = Append(Without(entries, i),
                               [entries[i] EXCEPT !.ref = FALSE])
          /\ el' = NextOf(entries, i)
          /\ UNCHANGED put_pc
     ELSE /\ entries' = Without(entries, i)
          /\ put_pc' = "insert"
          /\ UNCHANGED el
  /\ UNCHANGED <<num_entries, new, before>>

LoopEnd ==
  /\ put_pc = "loop" /\ el = NoValue
  /\ put_pc' = "insert"
  /\ UNCHANGED <<entries, num_entries, new, el, before>>

\* DL_APPEND and HASH_ADD_KEYPTR of the new entry.
Insert ==
  /\ put_pc = "insert"
  /\ entries' = Append(entries, new)
  /\ put_pc' = "idle"
  /\ new' = NoEntry /\ el' = NoValue /\ before' = <<>>
  /\ UNCHANGED num_entries

\* kvcacheset_del: num_entries keeps its value.
Del(k) ==
  /\ put_pc = "idle" /\ Holds(entries, k)
  /\ entries' = Without(entries, IndexOf(entries, k))
  /\ UNCHANGED <<num_entries, put_pc, new, el, before>>

\* kvcacheset_clear: num_entries keeps its value.
Clear ==
  /\ put_pc = "idle"
  /\ entries' = <<>>
  /\ UNCHANGED <<num_entries, put_pc, new, el, before>>

CacheNext ==
  \/ \E k \in Keys :
       \/ Get(k) \/ Del(k)
       \/ \E v \in Values : PutUpdate(k, v) \/ PutRoom(k, v) \/ PutEvict(k, v)
  \/ Visit \/ LoopEnd \/ Insert \/ Clear

CacheSpec == CacheInit /\ [][CacheNext]_cacheVars

\* The thread inside kvcacheset_put goes on running.
CacheFairSpec == CacheSpec /\ WF_cacheVars(Visit \/ LoopEnd \/ Insert)

-----------------------------------------------------------------------------
CacheTypeOK ==
  /\ entries \in Seq(Entries)
  /\ num_entries \in 0..ElemPerSet
  /\ put_pc \in {"idle", "loop", "insert"}
  /\ new \in Entries \cup {NoEntry}
  /\ el \in Keys \cup {NoValue}
  /\ before \in Seq(Entries)

(* kvcacheset.h: "A KVCacheSet may not store more than ELEM_PER_SET        *)
(* entries", although num_entries is not their number once an entry has    *)
(* been deleted, and although the loop evicts nothing from a list of one   *)
(* referenced entry.                                                       *)
SizeBound == Len(entries) <= ElemPerSet

(* The list never holds a key twice, and never the key being inserted: the *)
(* hash table and the list stay one-to-one.                                *)
NoDuplicates ==
  /\ \A i, j \in 1..Len(entries) :
       entries[i].key = entries[j].key => i = j
  /\ put_pc # "idle" => \A i \in 1..Len(entries) : entries[i].key # new.key

(* The loop over a list it rotates under its own feet does what the        *)
(* second-chance policy of kvcache.h asks for: the closed form.            *)
EvictsBySecondChance == put_pc = "insert" => entries = SecondChance(before)

(* The loop ends, although each visited entry goes back to the end of the  *)
(* list being walked.                                                      *)
PutTerminates == put_pc # "idle" ~> put_pc = "idle"
=============================================================================
