------------------------------ MODULE KVStore ------------------------------
(***************************************************************************)
(* The persistent store of kvstore/src/server/kvstore.c.  An entry is a    *)
(* file named "hash(key)-chainpos.entry"; keys with one hash form a chain. *)
(* Threads share the directory and one read-write lock: find_entry scans   *)
(* under the read lock and releases it, kvstore_put and kvstore_del take   *)
(* the write lock afterwards and use the position found before.  A put     *)
(* opens (and so truncates) its file, then writes it; a crash in between   *)
(* leaves the file empty.                                                  *)
(***************************************************************************)
EXTENDS Integers, FiniteSets

CONSTANTS Threads,
          Keys, LongKeys,   \* all keys; those longer than MAX_KEYLEN
          Values,
          Hashes, HashOf,   \* hash(key)
          Positions,        \* chain positions (bounds the chains in a model)
          ENOMEM,           \* the errno value, 12, which is not negative
          None,             \* no thread, no key, no value, no position
          Faults,           \* "crash": the process dies; "open": fopen fails;
                            \* "write": fwrite fails, which nobody notices
          MaxFaults,        \* bound on the number of faults
          Ops               \* operations called

\* Return codes: 0, ERRKEYLEN, ERRNOKEY, ERRFILACCESS, and errno, which is
\* positive.  A get returns its value.
Codes == {"ok", "keylen", "nokey", "access", "errno"}

ASSUME KVStoreAssumption ==
  /\ HashOf \in [Keys -> Hashes]
  /\ LongKeys \subseteq Keys
  /\ Positions \subseteq Nat /\ ENOMEM \in Positions
  /\ None \notin Threads \cup Keys \cup Values \cup Positions
  /\ None \notin Codes /\ Values \cap Codes = {}
  /\ Faults \subseteq {"crash", "open", "write"} /\ MaxFaults \in Nat
  /\ Ops \subseteq {"get", "put", "del", "clean", "init"}

VARIABLES dir,      \* the directory exists
          files,    \* the entry files in it
          writer,   \* holder of the write lock
          pc,       \* where each thread is
          req,      \* the call each thread is executing
          pos,      \* counter or chainpos: the position find_entry returned
          ret,      \* what the call returned
          faults,   \* number of faults so far
          stored,   \* history: keys whose last completed write is a put
          overlap   \* history: two writes to one chain have overlapped

vars == <<dir, files, writer, pc, req, pos, ret, faults, stored, overlap>>

Files == [hash : Hashes, pos : Positions, key : Keys \cup {None},
          val : Values \cup {None}]
Requests == [op : Ops \cup {None}, key : Keys \cup {None},
             val : Values \cup {None}]
NoReq == [op |-> None, key |-> None, val |-> None]

Init ==
  /\ dir = TRUE
  /\ files = {}
  /\ writer = None
  /\ pc = [t \in Threads |-> "idle"]
  /\ req = [t \in Threads |-> NoReq]
  /\ pos = [t \in Threads |-> None]
  /\ ret = [t \in Threads |-> None]
  /\ faults = 0
  /\ stored = {}
  /\ overlap = FALSE

-----------------------------------------------------------------------------
(* The file system.                                                        *)

Exists(h, p) == \E f \in files : f.hash = h /\ f.pos = p

Others(h, p) == {f \in files : ~(f.hash = h /\ f.pos = p)}

\* fopen(.., "w"): the file exists and is empty.
Truncated(h, p) ==
  Others(h, p) \cup {[hash |-> h, pos |-> p, key |-> None, val |-> None]}

\* fwrite and fclose.
Written(h, p, k, v) ==
  Others(h, p) \cup {[hash |-> h, pos |-> p, key |-> k, val |-> v]}

\* The last file is renamed to the position before the deleted one.
Renamed_OffByOne(h, q, p) ==
  (Others(h, p) \cap Others(h, q))
    \cup {[f EXCEPT !.pos = p - 1] : f \in files \ Others(h, q)}

\* rename: the file at position q takes the name of position p.
Renamed(h, q, p) ==
  (Others(h, p) \cap Others(h, q))
    \cup {[f EXCEPT !.pos = p] : f \in files \ Others(h, q)}

\* The first position from `from' on that has no file: where stat() fails.
IsEnd(h, from, p) ==
  /\ ~Exists(h, p)
  /\ p >= from
  /\ \A q \in from..p : q = p \/ Exists(h, q)

-----------------------------------------------------------------------------
\* Only the first file of the chain is looked at.
Candidates_HeadOnly(k) ==
  {f \in files : f.hash = HashOf[k] /\ f.key \in {k, None} /\ f.pos = 0}

\* The key of the entry is not compared, its hash being the same.
Candidates_HashOnly(k) ==
  {f \in files : /\ f.hash = HashOf[k]
                 /\ \A q \in 0..f.pos : Exists(f.hash, q)}

(* find_entry walks the chain of k while files exist and stops at the      *)
(* first one holding k.  An empty file leaves what is read into            *)
(* uninitialised: header.length may make malloc fail, and find_entry then  *)
(* returns ENOMEM, which its callers take for a position; else the buffer  *)
(* may or may not compare equal to k.                                      *)
Candidates(k) ==
  {f \in files : /\ f.hash = HashOf[k]
                 /\ f.key \in {k, None}
                 /\ \A q \in 0..f.pos : Exists(f.hash, q)}

Found(k) == {f \in Candidates(k) :
               \A g \in Candidates(k) : g.key = k => f.pos <= g.pos}

NotFound(k) == \A g \in Candidates(k) : g.key # k

PositionsFrom(f) == IF f.key = None THEN {f.pos, ENOMEM} ELSE {f.pos}

\* The value strcpy() reads out of the entry.
ReadValues(f) == IF f.key = None THEN Values ELSE {f.val}

Fault(kind) ==
  /\ kind \in Faults /\ faults < MaxFaults
  /\ faults' = faults + 1

Return(t, code) ==
  /\ ret' = [ret EXCEPT ![t] = code]
  /\ pc' = [pc EXCEPT ![t] = "done"]

Writing(t, h) ==
  /\ pc[t] \in {"find", "lock", "write"}
  /\ req[t].op \in {"put", "del"}
  /\ HashOf[req[t].key] = h

\* Bound: a put starts only if its chain is sure to have a free position.
Room(h) == Cardinality({f \in files : f.hash = h})
             + Cardinality({t \in Threads : Writing(t, h)})
               < Cardinality(Positions)

-----------------------------------------------------------------------------
\* kvstore_get, kvstore_put, kvstore_del are called; each rejects a key that
\* is too long before anything else.
Begin(t, op, k, v) ==
  /\ pc[t] = "idle" /\ op \in Ops \cap {"get", "put", "del"}
  /\ op = "put" <=> v # None
  /\ op = "put" => Room(HashOf[k])
  /\ overlap' = \/ overlap
                \/ op # "get" /\ \E u \in Threads : Writing(u, HashOf[k])
  /\ req' = [req EXCEPT ![t] = [op |-> op, key |-> k, val |-> v]]
  /\ IF k \in LongKeys
     THEN Return(t, "keylen")
     ELSE pc' = [pc EXCEPT ![t] = "find"] /\ UNCHANGED ret
  /\ UNCHANGED <<dir, files, writer, pos, faults, stored>>

\* find_entry returns a position, or, having found none, ERRNOKEY.
EntryFound(t) ==
  /\ \E f \in Found(req[t].key) :
       IF req[t].op = "get"
       THEN /\ \E v \in ReadValues(f) : Return(t, v)
            /\ UNCHANGED pos
       ELSE /\ \E p \in PositionsFrom(f) : pos' = [pos EXCEPT ![t] = p]
            /\ pc' = [pc EXCEPT ![t] = "lock"]
            /\ UNCHANGED ret
  /\ UNCHANGED faults

\* kvstore_put takes any error for "no such entry", the others return it.
NoEntry(t, error) ==
  /\ pos' = [pos EXCEPT ![t] = None]
  /\ IF req[t].op = "put"
     THEN pc' = [pc EXCEPT ![t] = "lock"] /\ UNCHANGED ret
     ELSE Return(t, error)

\* find_entry, under the read lock.  A get is then finished.  If a file cannot
\* be opened find_entry returns ERRFILACCESS.
find_entry(t) ==
  LET k == req[t].key IN
  /\ pc[t] = "find"
  /\ \/ ~dir /\ Return(t, "access") /\ UNCHANGED <<pos, faults>>
     \/ /\ dir /\ writer = None
        /\ \/ EntryFound(t)
           \/ NotFound(k) /\ NoEntry(t, "nokey") /\ UNCHANGED faults
           \/ /\ Fault("open") /\ \E f \in files : f.hash = HashOf[k]
              /\ NoEntry(t, "access")
  /\ UNCHANGED <<dir, files, writer, req, stored, overlap>>

-----------------------------------------------------------------------------
\* The write lock is released before the entry is written.
PutOpen_Released(t) ==
  LET k == req[t].key  h == HashOf[k] IN
  /\ pc[t] = "lock" /\ req[t].op = "put"
  /\ writer = None
  /\ \E p \in Positions :
       /\ IF pos[t] # None THEN p = pos[t] ELSE IsEnd(h, 0, p)
       /\ pos' = [pos EXCEPT ![t] = p]
       /\ files' = Truncated(h, p)
  /\ pc' = [pc EXCEPT ![t] = "write"]
  /\ UNCHANGED <<dir, writer, req, ret, faults, stored, overlap>>

\* A new key is written at the head of its chain, without looking for the end.
PutOpen_NoProbe(t) ==
  LET k == req[t].key  h == HashOf[k] IN
  /\ pc[t] = "lock" /\ req[t].op = "put"
  /\ writer = None
  /\ \E p \in Positions :
       /\ IF pos[t] # None THEN p = pos[t] ELSE p = 0
       /\ pos' = [pos EXCEPT ![t] = p]
       /\ files' = Truncated(h, p)
  /\ writer' = t
  /\ pc' = [pc EXCEPT ![t] = "write"]
  /\ UNCHANGED <<dir, req, ret, faults, stored, overlap>>

\* kvstore_put takes the write lock, picks the file and opens it.
PutOpen(t) ==
  LET k == req[t].key  h == HashOf[k] IN
  /\ pc[t] = "lock" /\ req[t].op = "put"
  /\ writer = None
  /\ \/ \E p \in Positions :
          /\ IF pos[t] # None THEN p = pos[t] ELSE IsEnd(h, 0, p)
          /\ pos' = [pos EXCEPT ![t] = p]
          /\ files' = Truncated(h, p)
          /\ writer' = t
          /\ pc' = [pc EXCEPT ![t] = "write"]
          /\ UNCHANGED <<ret, faults>>
     \/ /\ Fault("open")
        /\ Return(t, "access")
        /\ UNCHANGED <<pos, files, writer>>
  /\ UNCHANGED <<dir, req, stored, overlap>>

\* The entry is still in stdio's buffer when kvstore_put returns.
PutWrite_NotClosed(t) ==
  LET k == req[t].key IN
  /\ pc[t] = "write"
  /\ stored' = stored \cup {k}
  /\ writer' = None
  /\ Return(t, "ok")
  /\ UNCHANGED <<dir, files, req, pos, faults, overlap>>

\* fwrite and fclose, whose results are not looked at, unlock, return 0.
PutWrite(t) ==
  LET k == req[t].key  h == HashOf[k] IN
  /\ pc[t] = "write"
  /\ \/ /\ files' = Written(h, pos[t], k, req[t].val)
        /\ UNCHANGED faults
     \/ /\ Fault("write")
        /\ UNCHANGED files
  /\ stored' = stored \cup {k}
  /\ writer' = None
  /\ Return(t, "ok")
  /\ UNCHANGED <<dir, req, pos, overlap>>

-----------------------------------------------------------------------------
\* A deletion that leaves a hole: the last entry is not moved up.
DelUnlink_NoMove(t) ==
  LET k == req[t].key  h == HashOf[k] IN
  /\ pc[t] = "lock" /\ req[t].op = "del"
  /\ writer = None
  /\ files' = Others(h, pos[t])
  /\ stored' = stored \ {k}
  /\ Return(t, "ok")
  /\ UNCHANGED <<dir, writer, req, pos, faults, overlap>>

\* kvstore_del under the write lock: the last entry of the chain, if it is
\* another one, takes the place of the deleted one.
DelUnlink(t) ==
  LET k == req[t].key  h == HashOf[k]  p == pos[t] IN
  /\ pc[t] = "lock" /\ req[t].op = "del"
  /\ writer = None
  /\ \E end \in {f.pos + 1 : f \in files} \cup {p + 1} :
       /\ IsEnd(h, p + 1, end)
       /\ \/ /\ end = p + 1
             /\ files' = Others(h, p)
             /\ Return(t, IF Exists(h, p) THEN "ok" ELSE "errno")
          \/ /\ end # p + 1
             /\ files' = Renamed(h, end - 1, p)
             /\ Return(t, "ok")
  /\ stored' = IF ret'[t] = "ok" THEN stored \ {k} ELSE stored
  /\ UNCHANGED <<dir, writer, req, pos, faults, overlap>>

-----------------------------------------------------------------------------
\* The call returns to its caller.
Finish(t) ==
  /\ pc[t] = "done"
  /\ pc' = [pc EXCEPT ![t] = "idle"]
  /\ req' = [req EXCEPT ![t] = NoReq]
  /\ pos' = [pos EXCEPT ![t] = None]
  /\ ret' = [ret EXCEPT ![t] = None]
  /\ UNCHANGED <<dir, files, writer, faults, stored, overlap>>

\* kvstore_clean and kvstore_init, which kvserver_clean and the tests call
\* while no other call is in progress.
kvstore_clean ==
  /\ "clean" \in Ops /\ \A t \in Threads : pc[t] = "idle"
  /\ dir' = FALSE
  /\ files' = {}
  /\ stored' = {}
  /\ UNCHANGED <<writer, pc, req, pos, ret, faults, overlap>>

kvstore_init ==
  /\ "init" \in Ops /\ ~dir /\ \A t \in Threads : pc[t] = "idle"
  /\ dir' = TRUE
  /\ UNCHANGED <<files, writer, pc, req, pos, ret, faults, stored, overlap>>

\* The process dies and is restarted on the same directory (kvstore_init);
\* calls, locks and buffered data are gone, the files stay.
Crash ==
  /\ Fault("crash")
  /\ dir' = TRUE
  /\ writer' = None
  /\ pc' = [t \in Threads |-> "idle"]
  /\ req' = [t \in Threads |-> NoReq]
  /\ pos' = [t \in Threads |-> None]
  /\ ret' = [t \in Threads |-> None]
  /\ UNCHANGED <<files, stored, overlap>>

Step(t) == find_entry(t) \/ PutOpen(t) \/ PutWrite(t) \/ DelUnlink(t)

Next ==
  \/ \E t \in Threads :
       \/ \E op \in Ops, k \in Keys, v \in Values \cup {None} :
            Begin(t, op, k, v)
       \/ Step(t)
       \/ Finish(t)
  \/ kvstore_clean \/ kvstore_init \/ Crash

Spec == Init /\ [][Next]_vars

-----------------------------------------------------------------------------
TypeOK ==
  /\ dir \in BOOLEAN
  /\ files \subseteq Files
  /\ writer \in Threads \cup {None}
  /\ pc \in [Threads -> {"idle", "find", "lock", "write", "done"}]
  /\ req \in [Threads -> Requests]
  /\ pos \in [Threads -> Positions \cup {None}]
  /\ ret \in [Threads -> Codes \cup Values \cup {None}]
  /\ faults \in 0..MaxFaults
  /\ stored \subseteq Keys
  /\ overlap \in BOOLEAN

\* Nothing has gone wrong, and no two writes to one chain have overlapped.
Calm == ~overlap /\ faults = 0

(* kvstore.h: "Chains should always be complete; that is, you may never    *)
(* have a chain which has entries with a chainpos of 0 and 2 but not 1."   *)
ChainComplete ==
  \A f \in files : \A q \in 0..f.pos : Exists(f.hash, q)

(* They are, gets overlapping anything, until two writes to one chain      *)
(* overlap or a fault happens.                                             *)
CalmChainComplete == Calm => ChainComplete

(* kvstore_put: "Entry already exists, just update it."  A key has at most *)
(* one entry, so that deleting it once deletes it.                         *)
UniqueKeys ==
  Calm => \A f, g \in files : (f.key = g.key /\ f.key # None) => f = g

(* kvserver.h: "a non-TPC KVServer can be reinitialized using a DIRNAME    *)
(* which contains a previous KVServer and all old entries will be          *)
(* available".  More generally a key whose put was completed, and that     *)
(* nobody deleted since, is found, unless a put is rewriting its entry     *)
(* right now.                                                              *)
EntriesAvailable ==
  \A k \in stored :
    \/ \E f \in Candidates(k) : f.key = k
    \/ \E t \in Threads : pc[t] = "write" /\ req[t].key = k

(* It is found until two writes to one chain overlap or a fault happens.   *)
CalmEntriesAvailable == Calm => EntriesAvailable

(* A crash or a failed write loses at most the one entry that was being    *)
(* written: every other empty file is that of the put in progress.         *)
OneTornFilePerFault ==
  Cardinality({f \in files : f.key = None})
    <= faults + Cardinality({t \in Threads : pc[t] = "write"})

(* A put takes effect for the other threads when it opens its file: from   *)
(* then on it holds the write lock until the entry is written.             *)
map ==
  [k \in Keys |->
     IF \E t \in Threads : pc[t] = "write" /\ req[t].key = k
     THEN req[CHOOSE t \in Threads : pc[t] = "write" /\ req[t].key = k].val
     ELSE IF \E f \in files : f.key = k
          THEN (CHOOSE f \in files : f.key = k).val
          ELSE None]

\* A call that is refused (key too long, no directory) is not an operation.
answer == [t \in Threads |-> IF /\ req[t].op \in {"get", "del"}
                                /\ ret[t] \notin {"keylen", "access", None}
                             THEN <<req[t].key, ret[t]>> ELSE None]

Abstract == INSTANCE KVMap

(* Until two writes to one chain overlap or a fault happens, the lock      *)
(* makes KVStore's functions thread-safe (kvstore.h): seen from outside,   *)
(* get, put and del are the indivisible operations of a map.               *)
IsMap == Abstract!Init /\ [][~Calm' \/ Abstract!Next]_<<map, answer>>

(* The chains of the store are sound: the files keep their types, and as   *)
(* long as writes to a chain do not overlap and nothing fails, kvstore_put *)
(* and kvstore_del keep them complete, each key once, and every entry      *)
(* within reach of find_entry.                                             *)
ChainsSound == /\ TypeOK /\ CalmChainComplete /\ UniqueKeys /\ CalmEntriesAvailable
=============================================================================
