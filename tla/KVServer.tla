------------------------------ MODULE KVServer ------------------------------
(***************************************************************************)
(* kvserver_get, kvserver_put and kvserver_del of                          *)
(* kvstore/src/server/kvserver.c in non-TPC mode: the cache (kvcache.c,    *)
(* one lock per cache set, held for a single cache call) in front of the   *)
(* store of module KVStore.  Worker threads run requests concurrently; the *)
(* steps inside the store are those of KVStore.                            *)
(***************************************************************************)
EXTENDS KVStore, CacheSetOps

CONSTANTS Sets, SetOf,   \* cache sets; hash(key) % num_sets
          ElemPerSet,
          Offered        \* the values clients put under each key

ASSUME KVServerAssumption ==
  /\ SetOf \in [Hashes -> Sets]
  /\ ElemPerSet \in Nat /\ ElemPerSet >= 2
  /\ Offered \in [Keys -> SUBSET Values]

VARIABLES cache,    \* the cache sets
          sop,      \* the request each worker handles
          reply,    \* its outcome
          alive,    \* the process has not died
          apart     \* history: requests for one chain have never overlapped

svars == <<cache, sop, reply, alive, apart>>
allvars == <<vars, svars>>

ServerInit ==
  /\ Init
  /\ cache = [s \in Sets |-> EmptySet]
  /\ sop = [t \in Threads |-> NoReq]
  /\ reply = [t \in Threads |-> None]
  /\ alive = TRUE
  /\ apart = TRUE

\* get_cache_set
SetFor(k) == SetOf[HashOf[k]]

Idle(t) == sop[t] = NoReq

kvcache_put(k, v) ==
  cache' = [cache EXCEPT ![SetFor(k)] = PutIn(@, k, v, ElemPerSet)]

\* A worker takes up a request (handle_no_tpc dispatches on its type).
Request(t, op, k, v) ==
  /\ alive /\ Idle(t)
  /\ apart' = (apart /\ \A u \in {w \in Threads : ~Idle(w)} :
                          HashOf[sop[u].key] # HashOf[k])
  /\ sop' = [sop EXCEPT ![t] = [op |-> op, key |-> k, val |-> v]]

-----------------------------------------------------------------------------
\* kvserver_get: look in the cache, under the read lock of the set; on a miss
\* go to the store, with no lock held.
kvserver_get(t, k) ==
  LET es == cache[SetFor(k)].entries IN
  /\ Request(t, "get", k, None)
  /\ IF k \notin LongKeys /\ Holds(es, k)
     THEN /\ cache' = [cache EXCEPT ![SetFor(k)] = Touch(@, k)]
          /\ reply' = [reply EXCEPT ![t] = es[IndexOf(es, k)].val]
          /\ UNCHANGED vars
     ELSE /\ Begin(t, "get", k, None)
          /\ UNCHANGED <<cache, reply>>
  /\ UNCHANGED alive

\* kvserver_put: the store first.
kvserver_put(t, k, v) ==
  /\ Request(t, "put", k, v)
  /\ Begin(t, "put", k, v)
  /\ UNCHANGED <<cache, reply, alive>>

\* The cache entry is left alone.
kvserver_del_StoreOnly(t, k) ==
  /\ Request(t, "del", k, None)
  /\ Begin(t, "del", k, None)
  /\ UNCHANGED <<cache, reply, alive>>

\* kvserver_del: the cache first, then the store.  There is no length check
\* before kvcache_getlock, which returns NULL for a long key, so that
\* pthread_rwlock_wrlock(NULL) kills the process.
kvserver_del(t, k) ==
  /\ Request(t, "del", k, None)
  /\ alive' = (k \notin LongKeys)
  /\ IF k \in LongKeys
     THEN UNCHANGED <<cache, vars>>
     ELSE /\ cache' = [cache EXCEPT ![SetFor(k)] = DelFrom(@, k)]
          /\ Begin(t, "del", k, None)
  /\ UNCHANGED reply

\* A step of the call into the store.
StoreStep(t) == alive /\ Step(t) /\ UNCHANGED svars

\* A put writes to the store only.
StoreReturns_PutAround(t) ==
  LET k == sop[t].key IN
  /\ alive /\ Finish(t)
  /\ IF sop[t].op = "get" /\ ret[t] \in Values
     THEN kvcache_put(k, ret[t])
     ELSE UNCHANGED cache
  /\ reply' = [reply EXCEPT ![t] = ret[t]]
  /\ UNCHANGED <<sop, alive, apart>>

\* What the store returns goes into the cache without a look at the outcome.
StoreReturns_CacheErrors(t) ==
  LET k == sop[t].key IN
  /\ alive /\ Finish(t)
  /\ CASE sop[t].op = "get" -> kvcache_put(k, ret[t])
       [] sop[t].op = "put" /\ ret[t] = "ok" -> kvcache_put(k, sop[t].val)
       [] OTHER -> UNCHANGED cache
  /\ reply' = [reply EXCEPT ![t] = ret[t]]
  /\ UNCHANGED <<sop, alive, apart>>

\* The store call returns: a successful get or put goes into the cache.
StoreReturns(t) ==
  LET k == sop[t].key IN
  /\ alive /\ Finish(t)
  /\ CASE sop[t].op = "get" /\ ret[t] \in Values -> kvcache_put(k, ret[t])
       [] sop[t].op = "put" /\ ret[t] = "ok" -> kvcache_put(k, sop[t].val)
       [] OTHER -> UNCHANGED cache
  /\ reply' = [reply EXCEPT ![t] = ret[t]]
  /\ UNCHANGED <<sop, alive, apart>>

\* kvserver_handle sends the response; the worker is free again.
Respond(t) ==
  /\ alive /\ reply[t] # None
  /\ sop' = [sop EXCEPT ![t] = NoReq]
  /\ reply' = [reply EXCEPT ![t] = None]
  /\ UNCHANGED <<vars, cache, alive, apart>>

ServerNext ==
  \E t \in Threads :
    \/ \E k \in Keys : kvserver_get(t, k) \/ kvserver_del(t, k)
    \/ \E k \in Keys : \E v \in Offered[k] : kvserver_put(t, k, v)
    \/ StoreStep(t) \/ StoreReturns(t) \/ Respond(t)

ServerSpec == ServerInit /\ [][ServerNext]_allvars

-----------------------------------------------------------------------------
ServerTypeOK ==
  /\ \A s \in Sets :
       /\ cache[s].num \in 0..ElemPerSet
       /\ \A i \in 1..Len(cache[s].entries) :
            cache[s].entries[i] \in [key : Keys, val : Values, ref : BOOLEAN]
  /\ sop \in [Threads -> Requests]
  /\ reply \in [Threads -> Codes \cup Values \cup {None}]
  /\ alive \in BOOLEAN /\ apart \in BOOLEAN

(* kvserver.h: "The cache should write-through; that is, when a new entry  *)
(* is stored, it should be written to both the cache and the store".  When *)
(* no request is in progress, what the cache holds is what the store       *)
(* holds.                                                                  *)
CacheCoherent ==
  (\A t \in Threads : Idle(t)) =>
    \A s \in Sets : \A i \in 1..Len(cache[s].entries) :
      LET e == cache[s].entries[i] IN map[e.key] = e.val

(* It is so, whatever is evicted, until requests for one chain overlap.    *)
ApartCacheCoherent == apart => CacheCoherent

(* A get answers with a value some client put under that key, whatever     *)
(* requests overlap.                                                       *)
NoInventedValue ==
  \A t \in Threads :
    (sop[t].op = "get" /\ reply[t] \in Values)
      => reply[t] \in Offered[sop[t].key]

\* What the worker answers, as far as the abstract map knows of it.
serverAnswer ==
  [t \in Threads |-> IF /\ sop[t].op \in {"get", "del"}
                        /\ reply[t] \notin {"keylen", "access"}
                     THEN IF reply[t] # None THEN <<sop[t].key, reply[t]>>
                          ELSE answer[t]
                     ELSE None]

Service == INSTANCE KVMap WITH answer <- serverAnswer

(* Until two requests for one chain overlap, cache and store together      *)
(* answer like a map, whatever the requests for other keys evict.          *)
ServerIsMap ==
  Service!Init /\ [][~apart' \/ Service!Next]_<<map, serverAnswer>>

(* However requests overlap, the server's state keeps its types and a get  *)
(* answers only with values that were put under its key.                   *)
AnswersSound == ServerTypeOK /\ NoInventedValue
=============================================================================
