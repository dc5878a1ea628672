--------------------------- MODULE KVStoreProofs ---------------------------
(***************************************************************************)
(* For any number of threads, keys and values: the inductive invariant of  *)
(* kvstore.c, that it keeps the chains of entry files sound, what a client *)
(* sees, and what a fault costs.                                           *)
(***************************************************************************)
EXTENDS KVStore, TLAPS

(* The empty file that fopen(.., "w") leaves at position p of chain h.     *)
Torn(h, p) == [hash |-> h, pos |-> p, key |-> None, val |-> None]
(* The chain of the key that thread t is called with.                      *)
Chain(t) == HashOf[req[t].key]

(* What a thread has in hand at each place of kvstore_put and kvstore_del, *)
(* and that the write lock is held exactly while an entry is written.      *)
Control ==
  \A t \in Threads :
    /\ pc[t] \in {"find", "lock", "write"} =>
         /\ req[t].key \in Keys /\ req[t].op \in {"get", "put", "del"}
         /\ req[t].op = "put" => req[t].val \in Values
    /\ pc[t] = "lock" => req[t].op # "get"
    /\ pc[t] = "lock" /\ req[t].op = "del" => pos[t] \in Positions
    /\ pc[t] = "write" =>
         req[t].op = "put" /\ pos[t] \in Positions /\ Torn(Chain(t), pos[t]) \in files
    /\ pc[t] = "write" <=> writer = t
    /\ pc[t] # "done" => ret[t] = None

(* A name is used once, and a written entry is in the chain of its key.    *)
DirInv ==
  /\ \A f, g \in files : f.hash = g.hash /\ f.pos = g.pos => f = g
  /\ \A f \in files : /\ f.key = None => f.val = None
                      /\ f.key # None => f.hash = HashOf[f.key] /\ f.val \in Values

(* What the history variable overlap records.                              *)
Apart ==
  ~overlap => \A t, u \in Threads : \A h \in Hashes :
                Writing(t, h) /\ Writing(u, h) => t = u

(* A key has at most one entry.                                            *)
OnceEach == \A f, g \in files : (f.key = g.key /\ f.key # None) => f = g

(* An empty file is the one a put has opened and will write.               *)
TornIsWritten ==
  \A f \in files : f.key = None =>
    \E t \in Threads : pc[t] = "write" /\ f.hash = Chain(t) /\ f.pos = pos[t]

(* A key whose last completed write was a put has an entry, or a put is    *)
(* rewriting it.                                                           *)
StoredKept ==
  \A k \in stored : \/ \E f \in files : f.key = k
                    \/ \E t \in Threads : pc[t] = "write" /\ req[t].key = k

(* The position that find_entry returned is not stale when it is used.     *)
PositionFresh ==
  \A t \in Threads :
    /\ pc[t] = "lock" /\ pos[t] = None => \A f \in files : f.key # req[t].key
    /\ pc[t] = "lock" /\ pos[t] # None =>
         \E f \in files : f.key = req[t].key /\ f.pos = pos[t]
    /\ pc[t] = "write" => \A f \in files : f.key # req[t].key

(* What kvstore_put and kvstore_del rely on while no two writes to one     *)
(* chain overlap and nothing has failed.                                   *)
CalmInv == Calm => ChainComplete /\ OnceEach /\ TornIsWritten /\ StoredKept /\ PositionFresh

(* The inductive invariant. ChainsSound alone is not inductive: a put or a *)
(* del uses the position that find_entry returned under a lock it has      *)
(* released since.                                                         *)
IInv == TypeOK /\ Control /\ DirInv /\ Apart /\ CalmInv

(* A step between two states in which nothing has failed is no fault.      *)
LEMMA CalmFaultless == ASSUME Calm, Calm', NEW kind PROVE ~Fault(kind)
  BY DEF Calm, Fault

(* What one thread assigns to its own variable leaves the others' alone.   *)
LEMMA OneChanged ==
  ASSUME NEW S, NEW f \in [Threads -> S], NEW t \in Threads, NEW v
  PROVE  /\ [f EXCEPT ![t] = v][t] = v
         /\ \A u \in Threads : u # t => [f EXCEPT ![t] = v][u] = f[u]
  OBVIOUS

(* An empty directory satisfies the invariant.                             *)
LEMMA InitIInv == Init => IInv
<1> SUFFICES ASSUME Init PROVE IInv
    OBVIOUS
<1> USE KVStoreAssumption
<1>1. TypeOK
  <2>1. dir \in BOOLEAN /\ overlap \in BOOLEAN
        BY Zenon DEF Init
  <2>2. NoReq \in Requests
        BY DEF NoReq, Requests
  <2>3. QED
        BY <2>1, <2>2 DEF Init, TypeOK
<1>2. Control /\ DirInv /\ Apart
      BY DEF Init, Control, DirInv, Apart, Writing
<1>3. CalmInv
      BY DEF Init, CalmInv, ChainComplete, OnceEach, TornIsWritten, StoredKept, PositionFresh
<1>4. QED
      BY <1>1, <1>2, <1>3 DEF IInv

(* A step that leaves the files and the threads at the lock alone keeps    *)
(* what a calm store relies on.                                            *)
LEMMA CalmKept ==
  ASSUME CalmInv, UNCHANGED <<files, stored>>, Calm' => Calm,
         \A u \in Threads :
           pc[u] \in {"lock", "write"} \/ pc'[u] \in {"lock", "write"} =>
             pc'[u] = pc[u] /\ req'[u] = req[u] /\ pos'[u] = pos[u]
  PROVE  CalmInv'
<1> SUFFICES ASSUME Calm' PROVE ChainComplete' /\ OnceEach' /\ TornIsWritten' /\ StoredKept' /\ PositionFresh'
    BY Zenon DEF CalmInv
<1>0. ChainComplete /\ OnceEach /\ TornIsWritten /\ StoredKept /\ PositionFresh
      BY Zenon DEF CalmInv
<1>1. \A u \in Threads :
        pc[u] = "write" \/ pc'[u] = "write" \/ pc'[u] = "lock" =>
          pc'[u] = pc[u] /\ req'[u] = req[u] /\ pos'[u] = pos[u]
      BY Zenon
<1>2. files' = files /\ stored' = stored
      BY Zenon
<1>3. ChainComplete'
      BY <1>0, <1>2, Zenon DEF ChainComplete, Exists
<1>4. OnceEach'
      BY <1>0, <1>2, Zenon DEF OnceEach
<1>5. TornIsWritten'
  <2> SUFFICES ASSUME NEW f \in files, f.key = None
               PROVE  \E u \in Threads : pc'[u] = "write" /\ f.hash = HashOf[req'[u].key] /\ f.pos = pos'[u]
      BY <1>2, Zenon DEF TornIsWritten, Chain
  <2>1. PICK u \in Threads : pc[u] = "write" /\ f.hash = HashOf[req[u].key] /\ f.pos = pos[u]
        BY <1>0, Zenon DEF TornIsWritten, Chain
  <2>2. pc'[u] = pc[u] /\ req'[u] = req[u] /\ pos'[u] = pos[u]
        BY <1>1, <2>1, Zenon
  <2>3. QED
        BY <2>1, <2>2, Zenon
<1>6. StoredKept'
      BY <1>0, <1>1, <1>2, Zenon DEF StoredKept
<1>7. PositionFresh'
  <2> SUFFICES ASSUME NEW u \in Threads
               PROVE  /\ pc'[u] = "lock" /\ pos'[u] = None => \A f \in files : f.key # req'[u].key
                      /\ pc'[u] = "lock" /\ pos'[u] # None =>
                           \E f \in files : f.key = req'[u].key /\ f.pos = pos'[u]
                      /\ pc'[u] = "write" => \A f \in files : f.key # req'[u].key
      BY <1>2, Zenon DEF PositionFresh
  <2>1. CASE pc'[u] = "lock" \/ pc'[u] = "write"
    <3>1. pc'[u] = pc[u] /\ req'[u] = req[u] /\ pos'[u] = pos[u]
          BY <1>1, <2>1, Zenon
    <3>2. QED
          BY <1>0, <3>1, Zenon DEF PositionFresh
  <2>2. QED
        BY <2>1, Zenon
<1>8. QED
      BY <1>3, <1>4, <1>5, <1>6, <1>7, Zenon

(* The call of kvstore_get, kvstore_put or kvstore_del, which may refuse a *)
(* long key, preserves the invariant.                                      *)
LEMMA BeginStep ==
  ASSUME IInv, NEW t \in Threads, NEW op \in Ops, NEW k \in Keys, NEW v \in Values \cup {None},
         Begin(t, op, k, v)
  PROVE  IInv'
<1> USE KVStoreAssumption
<1>0. /\ pc[t] = "idle" /\ op \in {"get", "put", "del"} /\ (op = "put" => v \in Values)
      /\ req' = [req EXCEPT ![t] = [op |-> op, key |-> k, val |-> v]]
      /\ UNCHANGED <<dir, files, writer, pos, faults, stored>>
      /\ \/ ret' = [ret EXCEPT ![t] = "keylen"] /\ pc' = [pc EXCEPT ![t] = "done"]
         \/ pc' = [pc EXCEPT ![t] = "find"] /\ UNCHANGED ret
      BY DEF Begin, Return
<1>1. TypeOK'
  <2>1. dir' \in BOOLEAN /\ overlap' \in BOOLEAN
        BY <1>0 DEF IInv, TypeOK, Begin
  <2>2. [op |-> op, key |-> k, val |-> v] \in Requests
        BY DEF Requests
  <2>3. req' \in [Threads -> Requests]
        BY <1>0, <2>2 DEF IInv, TypeOK
  <2>4. ret' \in [Threads -> Codes \cup Values \cup {None}]
        BY <1>0 DEF IInv, TypeOK, Codes
  <2>5. QED
        BY <1>0, <2>1, <2>3, <2>4 DEF IInv, TypeOK
<1>2. Control'
      BY <1>0 DEF IInv, TypeOK, Control, Requests, Chain
<1>3. DirInv'
      BY <1>0 DEF IInv, DirInv
<1>4. Apart'
      BY <1>0 DEF IInv, TypeOK, Apart, Writing, Begin, Requests
<1>5. CalmInv'
  <2>1. Calm' => Calm
        BY <1>0, Zenon DEF Begin, Calm
  <2>2. \A u \in Threads : u # t => pc'[u] = pc[u] /\ req'[u] = req[u]
        BY <1>0, Zenon DEF IInv, TypeOK
  <2>3. pc'[t] \in {"find", "done"}
        BY <1>0, Zenon DEF IInv, TypeOK
  <2>4. \A u \in Threads :
          pc[u] \in {"lock", "write"} \/ pc'[u] \in {"lock", "write"} =>
            pc'[u] = pc[u] /\ req'[u] = req[u] /\ pos'[u] = pos[u]
        BY <1>0, <2>2, <2>3
  <2>5. QED
        BY <1>0, <2>1, <2>4, CalmKept, Zenon DEF IInv
<1>6. QED
      BY <1>1, <1>2, <1>3, <1>4, <1>5 DEF IInv

(* In a calm store no entry is torn unless a put is writing it, so that    *)
(* find_entry compares keys only.                                          *)
LEMMA CalmSearch ==
  ASSUME IInv, Calm, writer = None, NEW k \in Keys
  PROVE  Candidates(k) = {f \in files : f.key = k}
<1> USE KVStoreAssumption
<1>1. \A f \in files : f.key # None
      BY DEF IInv, Control, CalmInv, TornIsWritten
<1>2. \A f \in files : \A q \in 0..f.pos : Exists(f.hash, q)
      BY DEF IInv, CalmInv, ChainComplete
<1>3. \A f \in files : f.key = k => f.hash = HashOf[k]
      BY <1>1 DEF IInv, DirInv
<1>4. QED
      BY <1>1, <1>2, <1>3 DEF Candidates

(* What find_entry leaves behind: the call is over, or its position is the *)
(* place of the key in its chain.                                          *)
CallOver(t) ==
  \E c \in Codes \cup Values \cup {None} :
    /\ ret' = [ret EXCEPT ![t] = c] /\ pc' = [pc EXCEPT ![t] = "done"]
    /\ pos' = pos \/ pos' = [pos EXCEPT ![t] = None]

(* find_entry hands kvstore_put or kvstore_del a position, or kvstore_put  *)
(* the absence of the key, which in a calm store is true of the files.     *)
PositionInHand(t) ==
  \E p \in Positions \cup {None} :
    /\ req[t].op # "get" /\ (p = None => req[t].op = "put")
    /\ pos' = [pos EXCEPT ![t] = p] /\ pc' = [pc EXCEPT ![t] = "lock"] /\ UNCHANGED ret
    /\ Calm' /\ p = None => \A f \in files : f.key # req[t].key
    /\ Calm' /\ p # None => \E f \in files : f.key = req[t].key /\ f.pos = p

(* find_entry stops at a file: a get returns what it read, the others keep *)
(* its position, which in a calm store is that of the key.                 *)
LEMMA FoundOutcome ==
  ASSUME IInv, NEW t \in Threads, pc[t] = "find", writer = None, EntryFound(t), UNCHANGED overlap
  PROVE  CallOver(t) \/ PositionInHand(t)
<1> USE KVStoreAssumption
<1> DEFINE k == req[t].key
<1>0. k \in Keys /\ UNCHANGED faults /\ (Calm' => Calm)
      BY DEF IInv, Control, EntryFound, Calm
<1>1. PICK f \in Found(k) :
       IF req[t].op = "get"
       THEN /\ \E v \in ReadValues(f) : Return(t, v)
            /\ UNCHANGED pos
       ELSE /\ \E p \in PositionsFrom(f) : pos' = [pos EXCEPT ![t] = p]
            /\ pc' = [pc EXCEPT ![t] = "lock"]
            /\ UNCHANGED ret
      BY DEF EntryFound
<1>2. f \in files /\ f \in Candidates(k)
      BY DEF Found, Candidates
<1>3. f.pos \in Positions /\ f.val \in Values \cup {None}
      BY <1>2 DEF IInv, TypeOK, Files
<1>4. CASE req[t].op = "get"
  <2>1. PICK v \in ReadValues(f) : Return(t, v)
        BY <1>1, <1>4
  <2>2. v \in Values \cup {None}
        BY <1>3 DEF ReadValues
  <2>3. QED
        BY <1>1, <1>4, <2>1, <2>2, Zenon DEF Return, CallOver
<1>5. CASE req[t].op # "get"
  <2>1. PICK p \in PositionsFrom(f) : pos' = [pos EXCEPT ![t] = p]
        BY <1>1, <1>5
  <2>2. p \in Positions /\ p # None
        BY <1>3 DEF PositionsFrom
  <2>3. Calm' => f.key = k /\ p = f.pos
    <3>1. Calm' => f.key = k
          BY <1>0, <1>2, CalmSearch
    <3>2. QED
          BY <1>0, <3>1 DEF PositionsFrom
  <2>4. QED
        BY <1>1, <1>2, <1>5, <2>1, <2>2, <2>3, Zenon DEF PositionInHand
<1>6. QED
      BY <1>4, <1>5

(* Every way out of find_entry, its error returns included, ends the call  *)
(* or leaves the caller a position.                                        *)
LEMMA FindOutcome ==
  ASSUME IInv, NEW t \in Threads, find_entry(t)
  PROVE  /\ pc[t] = "find" /\ UNCHANGED <<dir, files, writer, req, stored, overlap>>
         /\ faults' \in 0..MaxFaults /\ (Calm' => Calm)
         /\ CallOver(t) \/ PositionInHand(t)
<1> USE KVStoreAssumption
<1>1. pc[t] = "find" /\ UNCHANGED <<dir, files, writer, req, stored, overlap>>
      BY DEF find_entry
<1>2. faults \in 0..MaxFaults /\ req[t].key \in Keys /\ MaxFaults \in Nat
      BY <1>1, Zenon DEF IInv, TypeOK, Control
<1>3. CASE Return(t, "access") /\ UNCHANGED <<pos, faults>>
  <2>1. CallOver(t)
        BY <1>3, Zenon DEF Return, Codes, CallOver
  <2>2. QED
        BY <1>1, <1>2, <1>3, <2>1 DEF Calm
<1>4. CASE writer = None /\ EntryFound(t)
  <2>1. UNCHANGED faults
        BY <1>4 DEF EntryFound
  <2>2. QED
        BY <1>1, <1>2, <1>4, <2>1, FoundOutcome DEF Calm
<1>5. CASE writer = None /\ NotFound(req[t].key) /\ NoEntry(t, "nokey") /\ UNCHANGED faults
  <2>1. Calm' => Calm
        BY <1>1, <1>5 DEF Calm
  <2>2. Calm' => \A f \in files : f.key # req[t].key
        BY <1>2, <1>5, <2>1, CalmSearch DEF NotFound
  <2>3. req[t].op = "put" => PositionInHand(t)
        BY <1>5, <2>2, Zenon DEF NoEntry, PositionInHand
  <2>4. req[t].op # "put" => CallOver(t)
        BY <1>5 DEF NoEntry, CallOver, Return, Codes
  <2>5. QED
        BY <1>1, <1>2, <1>5, <2>1, <2>3, <2>4
<1>6. CASE Fault("open") /\ NoEntry(t, "access")
  <2>1. faults' \in 0..MaxFaults /\ ~Calm'
        BY <1>2, <1>6 DEF Fault, Calm
  <2>2. req[t].op = "put" => PositionInHand(t)
        BY <1>6, <2>1, Zenon DEF NoEntry, PositionInHand
  <2>3. req[t].op # "put" => CallOver(t)
        BY <1>6, Zenon DEF NoEntry, CallOver, Return, Codes
  <2>4. QED
        BY <1>1, <2>1, <2>2, <2>3
<1>7. QED
      BY <1>3, <1>4, <1>5, <1>6 DEF find_entry

(* find_entry, under the read lock, preserves the invariant.               *)
LEMMA FindStep ==
  ASSUME IInv, NEW t \in Threads, find_entry(t)
  PROVE  IInv'
<1> USE KVStoreAssumption
<1>0. /\ pc[t] = "find" /\ UNCHANGED <<dir, files, writer, req, stored, overlap>>
      /\ faults' \in 0..MaxFaults /\ (Calm' => Calm)
      /\ CallOver(t) \/ PositionInHand(t)
      BY FindOutcome
<1>1. TypeOK'
  <2>1. dir' \in BOOLEAN /\ overlap' \in BOOLEAN
        BY <1>0 DEF IInv, TypeOK
  <2>2. CASE CallOver(t)
        BY <1>0, <2>1, <2>2 DEF IInv, TypeOK, CallOver
  <2>3. CASE PositionInHand(t)
        BY <1>0, <2>1, <2>3 DEF IInv, TypeOK, PositionInHand
  <2>4. QED
        BY <1>0, <2>2, <2>3
<1>2. Control'
  <2>1. CASE CallOver(t)
        BY <1>0, <2>1 DEF IInv, TypeOK, Control, Chain, CallOver
  <2>2. CASE PositionInHand(t)
        BY <1>0, <2>2 DEF IInv, TypeOK, Control, Chain, PositionInHand
  <2>3. QED
        BY <1>0, <2>1, <2>2
<1>3. DirInv'
      BY <1>0, Zenon DEF IInv, DirInv
<1>4. Apart'
      BY <1>0 DEF IInv, TypeOK, Apart, Writing, CallOver, PositionInHand
<1>5. CalmInv'
  <2> SUFFICES ASSUME Calm' PROVE (ChainComplete /\ OnceEach /\ TornIsWritten /\ StoredKept /\ PositionFresh)'
      BY DEF CalmInv
  <2>1. ChainComplete /\ OnceEach /\ TornIsWritten /\ StoredKept /\ PositionFresh
        BY <1>0 DEF IInv, CalmInv
  <2>2. ChainComplete' /\ OnceEach'
        BY <1>0, <2>1 DEF ChainComplete, Exists, OnceEach
  <2>3. /\ \A u \in Threads : pc'[u] = "write" <=> pc[u] = "write"
        /\ \A u \in Threads : u # t => pc'[u] = pc[u] /\ pos'[u] = pos[u]
        BY <1>0 DEF IInv, TypeOK, CallOver, PositionInHand
  <2>4. TornIsWritten' /\ StoredKept'
        BY <1>0, <2>1, <2>3 DEF TornIsWritten, StoredKept, Chain
  <2>5. PositionFresh'
        BY <1>0, <2>1, <2>3 DEF IInv, TypeOK, PositionFresh, CallOver, PositionInHand
  <2>6. QED
        BY <2>2, <2>4, <2>5
<1>6. QED
      BY <1>1, <1>2, <1>3, <1>4, <1>5 DEF IInv

(* Replacing the file of one name leaves the names as they were, and adds  *)
(* that one.                                                               *)
LEMMA ReplaceFile ==
  ASSUME files \subseteq Files, DirInv, NEW h \in Hashes, NEW p \in Positions, NEW new \in Files,
         new.hash = h, new.pos = p, files' = Others(h, p) \cup {new},
         new.key = None => new.val = None,
         new.key # None => new.hash = HashOf[new.key] /\ new.val \in Values
  PROVE  /\ files' \subseteq Files /\ DirInv'
         /\ \A f \in files : \E g \in files' : g.hash = f.hash /\ g.pos = f.pos
<1>1. files' \subseteq Files
      BY DEF Others
<1>2. DirInv'
      BY DEF DirInv, Others
<1>3. \A f \in files : \E g \in files' : g.hash = f.hash /\ g.pos = f.pos
      BY DEF Others
<1>4. QED
      BY <1>1, <1>2, <1>3

(* Two calls that change one chain overlap, by the history variable.       *)
LEMMA OtherChain ==
  ASSUME IInv, Calm, NEW t \in Threads, NEW u \in Threads, u # t,
         pc[t] \in {"lock", "write"}, pc[u] \in {"lock", "write"}
  PROVE  Chain(u) # Chain(t) /\ req[u].key # req[t].key
<1> USE KVStoreAssumption
<1>1. /\ req[t].op \in {"put", "del"} /\ req[u].op \in {"put", "del"}
      /\ Chain(t) \in Hashes /\ Chain(u) \in Hashes
      BY Zenon DEF IInv, Control, Chain
<1>2. Writing(t, Chain(t)) /\ Writing(u, Chain(u))
      BY <1>1 DEF Writing, Chain
<1>3. Chain(u) # Chain(t)
      BY <1>1, <1>2, Zenon DEF IInv, Apart, Calm
<1>4. QED
      BY <1>3, Zenon DEF Chain

(* kvstore_put opens its file in a calm store: the one its key is in, or   *)
(* the first free position of the chain; the chain stays complete.         *)
LEMMA OpenCalm ==
  ASSUME IInv, Calm, NEW t \in Threads, pc[t] = "lock", req[t].op = "put", writer = None,
         NEW p \in Positions, IF pos[t] # None THEN p = pos[t] ELSE IsEnd(Chain(t), 0, p),
         files' = Truncated(Chain(t), p), pos' = [pos EXCEPT ![t] = p],
         pc' = [pc EXCEPT ![t] = "write"], UNCHANGED <<req, stored>>
  PROVE  /\ (ChainComplete /\ OnceEach /\ TornIsWritten /\ StoredKept /\ PositionFresh)'
         /\ \A f \in files : f.key # req[t].key => f \in files'
         /\ \A f \in files' : f.key # None => f \in files /\ f.key # req[t].key
<1> USE KVStoreAssumption
<1> DEFINE k == req[t].key
           h == Chain(t)
<1>0. /\ k \in Keys /\ h \in Hashes /\ k # None /\ p \in Nat
      /\ ChainComplete /\ OnceEach /\ TornIsWritten /\ StoredKept /\ PositionFresh /\ DirInv
      /\ pc \in [Threads -> {"idle", "find", "lock", "write", "done"}]
      /\ pos \in [Threads -> Positions \cup {None}] /\ files \subseteq Files
      BY DEF IInv, TypeOK, Control, CalmInv, Chain
<1> DEFINE new == Torn(h, p)
<1>1. new \in Files /\ new.hash = h /\ new.pos = p /\ new.key = None /\ new.val = None
      BY <1>0, Zenon DEF Torn, Files
<1>2. files' = Others(h, p) \cup {new}
      BY Zenon DEF Truncated, Torn
<1> HIDE DEF new
<1>3. \A f \in files : \E g \in files' : g.hash = f.hash /\ g.pos = f.pos
      BY <1>0, <1>1, <1>2, ReplaceFile
<1>4. /\ \A f \in files : f.hash = h /\ f.pos = p => f.key = k
      /\ \A f \in Others(h, p) : f \in files /\ f.key # k
      /\ \A q \in 0..p : q = p \/ Exists(h, q)
  <2>1. CASE pos[t] = None
    <3>1. ~Exists(h, p) /\ \A q \in 0..p : q = p \/ Exists(h, q)
          BY <2>1, Zenon DEF IsEnd
    <3>2. \A f \in files : f.key # k
          BY <1>0, <2>1, Zenon DEF PositionFresh
    <3>3. QED
          BY <3>1, <3>2, Zenon DEF Exists, Others
  <2>2. CASE pos[t] # None
    <3>1. PICK f \in files : f.key = k /\ f.pos = p
          BY <1>0, <2>2, Zenon DEF PositionFresh
    <3>2. f.hash = h
          BY <1>0, <3>1, Zenon DEF DirInv, Chain
    <3>3. \A q \in 0..p : Exists(h, q)
          BY <1>0, <3>1, <3>2, Zenon DEF ChainComplete
    <3>4. \A g \in files : g.hash = h /\ g.pos = p => g = f
          BY <1>0, <3>1, <3>2 DEF DirInv
    <3>5. \A g \in Others(h, p) : g \in files /\ g.key # k
          BY <1>0, <3>1, <3>2, Zenon DEF OnceEach, Others
    <3>6. QED
          BY <3>1, <3>3, <3>4, <3>5, Zenon
  <2>3. QED
        BY <2>1, <2>2, Zenon
<1>5. \A u \in Threads : pc[u] # "write"
      BY Zenon DEF IInv, Control
<1>6. /\ pc'[t] = "write" /\ pos'[t] = p /\ Chain(t)' = h
      /\ \A u \in Threads : u # t => pc'[u] = pc[u] /\ pos'[u] = pos[u]
      BY <1>0, Zenon DEF Chain
<1>7. ChainComplete'
  <2> SUFFICES ASSUME NEW f \in files', NEW q \in 0..f.pos
               PROVE  \E g \in files' : g.hash = f.hash /\ g.pos = q
      BY Zenon DEF ChainComplete, Exists
  <2>1. CASE f = new
        BY <1>1, <1>2, <1>3, <1>4, <2>1 DEF Exists
  <2>2. CASE f # new
        BY <1>0, <1>2, <1>3, <2>2 DEF ChainComplete, Others, Exists
  <2>3. QED
        BY <2>1, <2>2, Zenon
<1>8. OnceEach'
      BY <1>0, <1>1, <1>2, Zenon DEF OnceEach, Others
<1>9. TornIsWritten'
      BY <1>0, <1>1, <1>2, <1>5, <1>6, Zenon DEF TornIsWritten, Others
<1>10. StoredKept'
  <2> SUFFICES ASSUME NEW j \in stored
               PROVE  \/ \E f \in files' : f.key = j
                      \/ \E u \in Threads : pc'[u] = "write" /\ req[u].key = j
      BY Zenon DEF StoredKept
  <2>1. PICK f \in files : f.key = j
        BY <1>0, <1>5, Zenon DEF StoredKept
  <2>2. CASE f.hash = h /\ f.pos = p
        BY <1>4, <1>6, <2>1, <2>2, Zenon
  <2>3. CASE ~(f.hash = h /\ f.pos = p)
        BY <1>2, <2>1, <2>3, Zenon DEF Others
  <2>4. QED
        BY <2>2, <2>3, Zenon
<1>11. PositionFresh'
  <2> SUFFICES ASSUME NEW u \in Threads
               PROVE  /\ pc'[u] = "lock" /\ pos'[u] = None => \A f \in files' : f.key # req[u].key
                      /\ pc'[u] = "lock" /\ pos'[u] # None =>
                           \E f \in files' : f.key = req[u].key /\ f.pos = pos'[u]
                      /\ pc'[u] = "write" => \A f \in files' : f.key # req[u].key
      BY Zenon DEF PositionFresh
  <2>1. CASE u = t
        BY <1>0, <1>1, <1>2, <1>4, <1>6, <2>1, Zenon
  <2>2. CASE u # t /\ pc[u] = "lock"
    <3>1. Chain(u) # h /\ req[u].key # k /\ req[u].key \in Keys
          BY <2>2, OtherChain, Zenon DEF IInv, Control
    <3>2. \A f \in files : f.key = req[u].key => f \in Others(h, p)
          BY <1>0, <3>1 DEF DirInv, Chain, Others
    <3>3. pc'[u] = "lock" /\ pos'[u] = pos[u]
          BY <1>6, <2>2, Zenon
    <3>4. \A f \in files' : f = new \/ f \in files
          BY <1>2, Zenon DEF Others
    <3>5. QED
          BY <1>0, <1>1, <1>2, <2>2, <3>1, <3>2, <3>3, <3>4 DEF PositionFresh
  <2>3. CASE u # t /\ pc[u] # "lock"
        BY <1>5, <1>6, <2>3, Zenon
  <2>4. QED
        BY <2>1, <2>2, <2>3, Zenon
<1>12. \A f \in files : f.key # k => f \in files'
       BY <1>2, <1>4, Zenon DEF Others
<1>13. \A f \in files' : f.key # None => f \in files /\ f.key # k
       BY <1>1, <1>2, <1>4, Zenon
<1>14. QED
       BY <1>7, <1>8, <1>9, <1>10, <1>11, <1>12, <1>13, Zenon
(* kvstore_put up to fopen, which may fail, preserves the invariant.       *)
LEMMA OpenStep ==
  ASSUME IInv, NEW t \in Threads, PutOpen(t)
  PROVE  IInv'
<1> USE KVStoreAssumption
<1> DEFINE h == Chain(t)
<1>0. /\ pc[t] = "lock" /\ req[t].op = "put" /\ writer = None
      /\ UNCHANGED <<dir, req, stored, overlap>>
      /\ req[t].key \in Keys /\ h \in Hashes /\ req[t].val \in Values
      /\ faults \in 0..MaxFaults /\ files \subseteq Files /\ DirInv
      BY Zenon DEF PutOpen, IInv, TypeOK, Control, Chain
<1>1. dir' \in BOOLEAN /\ overlap' \in BOOLEAN
      BY <1>0 DEF IInv, TypeOK
<1>2. ASSUME NEW p \in Positions, IF pos[t] # None THEN p = pos[t] ELSE IsEnd(h, 0, p),
             pos' = [pos EXCEPT ![t] = p], files' = Truncated(h, p), writer' = t,
             pc' = [pc EXCEPT ![t] = "write"], UNCHANGED <<ret, faults>>
      PROVE  IInv'
  <2> DEFINE new == Torn(h, p)
  <2>1. new \in Files /\ new.hash = h /\ new.pos = p /\ new.key = None /\ new.val = None
        BY <1>0, Zenon DEF Torn, Files
  <2>2. files' = Others(h, p) \cup {new}
        BY <1>2, Zenon DEF Truncated, Torn
  <2> HIDE DEF new
  <2>3. files' \subseteq Files /\ DirInv'
        BY <1>0, <2>1, <2>2, ReplaceFile, Zenon
  <2>4. TypeOK'
        BY <1>0, <1>1, <1>2, <2>3, Zenon DEF IInv, TypeOK
  <2>5. Control'
    <3>1. Torn(Chain(t), p)' \in files'
          BY <1>0, <2>2, Zenon DEF new, Torn, Chain
    <3>2. QED
          BY <1>0, <1>2, <3>1 DEF IInv, TypeOK, Control, Chain, Torn
  <2>6. Apart'
        BY <1>0, <1>2 DEF IInv, TypeOK, Apart, Writing
  <2>7. CalmInv'
    <3>1. Calm' => Calm
          BY <1>0, <1>2, Zenon DEF Calm
    <3>2. QED
          BY <1>0, <1>2, <3>1, OpenCalm, Zenon DEF CalmInv
  <2>8. QED
        BY <2>3, <2>4, <2>5, <2>6, <2>7, Zenon DEF IInv
<1>3. ASSUME Fault("open"), Return(t, "access"), UNCHANGED <<pos, files, writer>>
      PROVE  IInv'
  <2>1. faults' \in 0..MaxFaults /\ ~Calm'
        BY <1>0, <1>3 DEF Fault, Calm
  <2>2. TypeOK'
        BY <1>0, <1>1, <1>3, <2>1, Zenon DEF IInv, TypeOK, Return, Codes
  <2>3. Control' /\ DirInv' /\ Apart'
        BY <1>0, <1>3 DEF IInv, TypeOK, Control, Chain, DirInv, Apart, Writing, Return
  <2>4. QED
        BY <2>1, <2>2, <2>3 DEF IInv, CalmInv
<1>4. QED
      BY <1>2, <1>3, Zenon DEF PutOpen, Chain

(* kvstore_put writes the file it has opened in a calm store: the key has  *)
(* this one entry from then on.                                            *)
LEMMA WriteCalm ==
  ASSUME IInv, Calm, NEW t \in Threads, pc[t] = "write",
         files' = Written(Chain(t), pos[t], req[t].key, req[t].val),
         pc' = [pc EXCEPT ![t] = "done"], UNCHANGED <<req, pos>>,
         stored' = stored \cup {req[t].key}
  PROVE  /\ (ChainComplete /\ OnceEach /\ TornIsWritten /\ StoredKept /\ PositionFresh)'
         /\ \A f \in files : f.key # None => f \in files' /\ f.key # req[t].key
         /\ \A f \in files' : f.key # req[t].key => f \in files
         /\ \E f \in files' : f.key = req[t].key /\ f.val = req[t].val
<1> USE KVStoreAssumption
<1> DEFINE k == req[t].key
           h == Chain(t)
           p == pos[t]
           new == [hash |-> h, pos |-> p, key |-> k, val |-> req[t].val]
<1>0. /\ k \in Keys /\ h \in Hashes /\ k # None /\ p \in Positions /\ req[t].val \in Values
      /\ ChainComplete /\ OnceEach /\ TornIsWritten /\ StoredKept /\ PositionFresh /\ DirInv
      /\ pc \in [Threads -> {"idle", "find", "lock", "write", "done"}] /\ files \subseteq Files
      BY DEF IInv, TypeOK, Control, CalmInv, Chain
<1>1. new \in Files /\ new.hash = h /\ new.pos = p /\ new.key = k /\ new.val \in Values /\ h = HashOf[k]
      BY <1>0, Zenon DEF Files, Chain
<1>2. files' = Others(h, p) \cup {new}
      BY Zenon DEF Written
<1> HIDE DEF new
<1>3. \A f \in files : \E g \in files' : g.hash = f.hash /\ g.pos = f.pos
      BY <1>1, <1>2, Zenon DEF Others
<1>4. Torn(h, p) \in files /\ \A f \in files : f.hash = h /\ f.pos = p => f.key = None
      BY <1>0 DEF IInv, Control, DirInv, Torn
<1>5. \A f \in files : f.key # k
      BY <1>0, Zenon DEF PositionFresh
<1>6. /\ \A u \in Threads : u # t => pc'[u] = pc[u] /\ pc[u] # "write"
      /\ pc'[t] = "done"
      BY <1>0, Zenon DEF IInv, Control
<1>7. ChainComplete'
  <2> SUFFICES ASSUME NEW f \in files', NEW q \in 0..f.pos
               PROVE  \E g \in files' : g.hash = f.hash /\ g.pos = q
      BY Zenon DEF ChainComplete, Exists
  <2>1. PICK g \in files : g.hash = f.hash /\ g.pos = f.pos
        BY <1>1, <1>2, <1>4, Zenon DEF Others, Torn
  <2>2. QED
        BY <1>0, <1>3, <2>1 DEF ChainComplete, Exists
<1>8. OnceEach'
      BY <1>0, <1>1, <1>2, <1>5, Zenon DEF OnceEach, Others
<1>9. TornIsWritten'
  <2>1. \A f \in files : f.key = None => f.hash = h /\ f.pos = p
        BY <1>0, <1>6, Zenon DEF TornIsWritten
  <2>2. \A f \in files' : f.key # None
        BY <1>0, <1>1, <1>2, <2>1, Zenon DEF Others
  <2>3. QED
        BY <2>2, Zenon DEF TornIsWritten
<1>10. StoredKept'
  <2> SUFFICES ASSUME NEW j \in stored \cup {k} PROVE \E f \in files' : f.key = j
      BY Zenon DEF StoredKept
  <2>1. CASE j = k
        BY <1>1, <1>2, <2>1, Zenon
  <2>2. CASE j # k /\ j \in stored
    <3>1. PICK f \in files : f.key = j
          BY <1>0, <1>6, <2>2, Zenon DEF StoredKept
    <3>2. j # None
          BY <2>2, Zenon DEF IInv, TypeOK
    <3>3. QED
          BY <1>2, <1>4, <3>1, <3>2, Zenon DEF Others
  <2>3. QED
        BY <2>1, <2>2, Zenon
<1>11. PositionFresh'
  <2> SUFFICES ASSUME NEW u \in Threads
               PROVE  /\ pc'[u] = "lock" /\ pos[u] = None => \A f \in files' : f.key # req[u].key
                      /\ pc'[u] = "lock" /\ pos[u] # None =>
                           \E f \in files' : f.key = req[u].key /\ f.pos = pos[u]
                      /\ pc'[u] = "write" => \A f \in files' : f.key # req[u].key
      BY Zenon DEF PositionFresh
  <2>1. CASE u # t /\ pc[u] = "lock"
    <3>1. Chain(u) # h /\ req[u].key # k /\ req[u].key \in Keys
          BY <2>1, OtherChain, Zenon DEF IInv, Control
    <3>2. \A f \in files : f.key = req[u].key => f \in Others(h, p)
          BY <1>0, <3>1 DEF DirInv, Chain, Others
    <3>3. pc'[u] = "lock"
          BY <1>6, <2>1, Zenon
    <3>4. \A f \in files' : f = new \/ f \in files
          BY <1>2, Zenon DEF Others
    <3>5. QED
          BY <1>0, <1>1, <1>2, <2>1, <3>1, <3>2, <3>3, <3>4, Zenon DEF PositionFresh
  <2>2. CASE u = t \/ pc[u] # "lock"
        BY <1>6, <2>2, Zenon
  <2>3. QED
        BY <2>1, <2>2, Zenon
<1>12. \A f \in files : f.key # None => f \in files' /\ f.key # k
       BY <1>2, <1>4, <1>5, Zenon DEF Others
<1>13. \A f \in files' : f.key # k => f \in files
       BY <1>1, <1>2, Zenon DEF Others
<1>14. new \in files' /\ new.key = k /\ new.val = req[t].val
       BY <1>2, Zenon DEF new
<1>15. QED
       BY <1>7, <1>8, <1>9, <1>10, <1>11, <1>12, <1>13, <1>14, Zenon

(* kvstore_put from fwrite, which may fail, to its return preserves the    *)
(* invariant.                                                              *)
LEMMA WriteStep ==
  ASSUME IInv, NEW t \in Threads, PutWrite(t)
  PROVE  IInv'
<1> USE KVStoreAssumption
<1> DEFINE k == req[t].key
           h == Chain(t)
           p == pos[t]
           new == [hash |-> h, pos |-> p, key |-> k, val |-> req[t].val]
<1>0. /\ pc[t] = "write" /\ writer = t /\ writer' = None /\ stored' = stored \cup {k}
      /\ ret' = [ret EXCEPT ![t] = "ok"] /\ pc' = [pc EXCEPT ![t] = "done"]
      /\ UNCHANGED <<dir, req, pos, overlap>>
      /\ k \in Keys /\ h \in Hashes /\ p \in Positions /\ req[t].val \in Values /\ h = HashOf[k]
      /\ faults \in 0..MaxFaults /\ files \subseteq Files /\ DirInv
      BY Zenon DEF PutWrite, Return, IInv, TypeOK, Control, Chain
<1>1. dir' \in BOOLEAN /\ overlap' \in BOOLEAN
      BY <1>0, Zenon DEF IInv, TypeOK
<1>2. /\ files' \subseteq Files /\ DirInv' /\ faults' \in 0..MaxFaults
      /\ Calm' => Calm /\ files' = Written(h, p, k, req[t].val)
  <2>1. CASE files' = Written(h, p, k, req[t].val) /\ UNCHANGED faults
    <3>1. /\ new \in Files /\ new.hash = h /\ new.pos = p /\ new.key = k /\ new.val \in Values
          /\ k # None
          BY <1>0, Zenon DEF Files
    <3>2. files' = Others(h, p) \cup {new}
          BY <2>1, Zenon DEF Written
    <3> HIDE DEF new
    <3>3. files' \subseteq Files /\ DirInv'
          BY <1>0, <3>1, <3>2, ReplaceFile, Zenon
    <3>4. QED
          BY <1>0, <2>1, <3>3, Zenon DEF Calm
  <2>2. CASE Fault("write") /\ UNCHANGED files
        BY <1>0, <2>2 DEF Fault, Calm, DirInv
  <2>3. QED
        BY <2>1, <2>2, Zenon DEF PutWrite, Chain
<1>3. TypeOK'
      BY <1>0, <1>1, <1>2 DEF IInv, TypeOK, Codes
<1>4. Control'
  <2>1. \A u \in Threads : u # t => pc'[u] = pc[u] /\ pc[u] # "write"
        BY <1>0, Zenon DEF IInv, TypeOK, Control
  <2>2. QED
        BY <1>0, <2>1 DEF IInv, TypeOK, Control
<1>5. Apart'
      BY <1>0 DEF IInv, TypeOK, Apart, Writing
<1>6. CalmInv'
      BY <1>0, <1>2, WriteCalm, Zenon DEF CalmInv
<1>7. QED
      BY <1>2, <1>3, <1>4, <1>5, <1>6, Zenon DEF IInv
(* kvstore_del takes one file away and may move the last of the chain into *)
(* its place.                                                              *)
DelMoves(t, end) ==
  IF end = pos[t] + 1 THEN files' = Others(Chain(t), pos[t])
                      ELSE files' = Renamed(Chain(t), end - 1, pos[t])

(* kvstore_del has removed its file, the last one of the chain, or has     *)
(* moved the last one to its place.                                        *)
LEMMA DelOutcome ==
  ASSUME IInv, NEW t \in Threads, DelUnlink(t)
  PROVE  /\ pc[t] = "lock" /\ req[t].op = "del" /\ writer = None /\ pos[t] \in Positions
         /\ req[t].key \in Keys /\ Chain(t) \in Hashes
         /\ UNCHANGED <<dir, writer, req, pos, faults, overlap>>
         /\ pc' = [pc EXCEPT ![t] = "done"]
         /\ \E c \in {"ok", "errno"} :
              /\ ret' = [ret EXCEPT ![t] = c]
              /\ stored' = IF c = "ok" THEN stored \ {req[t].key} ELSE stored
              /\ Exists(Chain(t), pos[t]) => c = "ok"
         /\ \E end \in Int : IsEnd(Chain(t), pos[t] + 1, end) /\ DelMoves(t, end)
<1> USE KVStoreAssumption
<1>1. /\ pc[t] = "lock" /\ req[t].op = "del" /\ writer = None /\ pos[t] \in Positions
      /\ req[t].key \in Keys /\ Chain(t) \in Hashes /\ pos[t] \in Nat
      /\ UNCHANGED <<dir, writer, req, pos, faults, overlap>>
      BY Zenon DEF DelUnlink, IInv, Control, Chain
<1>2. PICK end \in {f.pos + 1 : f \in files} \cup {pos[t] + 1} :
       /\ IsEnd(Chain(t), pos[t] + 1, end)
       /\ \/ /\ end = pos[t] + 1
             /\ files' = Others(Chain(t), pos[t])
             /\ Return(t, IF Exists(Chain(t), pos[t]) THEN "ok" ELSE "errno")
          \/ /\ end # pos[t] + 1
             /\ files' = Renamed(Chain(t), end - 1, pos[t])
             /\ Return(t, "ok")
      BY Zenon DEF DelUnlink, Chain
<1>3. end \in Int
  <2>1. \A f \in files : f.pos \in Nat
        BY Zenon DEF IInv, TypeOK, Files
  <2>2. QED
        BY <1>1, <1>2, <2>1
<1>4. PICK c \in {"ok", "errno"} : Return(t, c) /\ (Exists(Chain(t), pos[t]) => c = "ok")
      BY <1>2, Zenon
<1>5. ret'[t] = c
      BY <1>4, Zenon DEF Return, IInv, TypeOK
<1>6. stored' = IF c = "ok" THEN stored \ {req[t].key} ELSE stored
      BY <1>5 DEF DelUnlink
<1>7. DelMoves(t, end)
      BY <1>2, Zenon DEF DelMoves
<1>8. QED
      BY <1>1, <1>2, <1>3, <1>4, <1>6, <1>7, Zenon DEF Return

(* kvstore_del in a calm store: the entry of the key goes, and every other *)
(* key of the chain keeps one, with no hole left in the chain.             *)
LEMMA DelCalm ==
  ASSUME IInv, Calm, NEW t \in Threads, pc[t] = "lock", req[t].op = "del", writer = None,
         NEW end \in Int, IsEnd(Chain(t), pos[t] + 1, end), DelMoves(t, end),
         Exists(Chain(t), pos[t]) => stored' = stored \ {req[t].key},
         pc' = [pc EXCEPT ![t] = "done"], UNCHANGED <<req, pos>>
  PROVE  /\ (ChainComplete /\ OnceEach /\ TornIsWritten /\ StoredKept /\ PositionFresh)'
         /\ \A f \in files' : f.key # req[t].key
         /\ \A f \in files : f.key # req[t].key => \E g \in files' : g.key = f.key /\ g.val = f.val
         /\ \A f \in files' : \E g \in files : g.key = f.key /\ g.val = f.val
<1> USE KVStoreAssumption
<1> DEFINE k == req[t].key
           h == Chain(t)
           p == pos[t]
<1>0. /\ k \in Keys /\ h \in Hashes /\ k # None /\ p \in Positions /\ p \in Nat
      /\ ChainComplete /\ OnceEach /\ TornIsWritten /\ StoredKept /\ PositionFresh /\ DirInv
      /\ pc \in [Threads -> {"idle", "find", "lock", "write", "done"}] /\ files \subseteq Files
      BY DEF IInv, TypeOK, Control, CalmInv, Chain
<1>1. \A f \in files : f.pos \in Nat
      BY <1>0, Zenon DEF Files
<1>2. PICK d \in files : d.key = k /\ d.pos = p
      BY <1>0, Zenon DEF PositionFresh
<1>3. /\ d.hash = h /\ \A f \in files : f.hash = h /\ f.pos = p => f = d
      /\ \A f \in files : f.key = k => f = d
      BY <1>0, <1>2 DEF DirInv, Chain, OnceEach
<1>4. stored' = stored \ {k}
      BY <1>2, <1>3, Zenon DEF Exists
<1>5. \A u \in Threads : pc[u] # "write" /\ pc'[u] # "write"
      BY <1>0, Zenon DEF IInv, Control
<1>6. \A f \in files : f.key # None
      BY <1>0, <1>5, Zenon DEF TornIsWritten
<1>7. end \in Nat /\ end >= p + 1 /\ ~Exists(h, end) /\ \A q \in p + 1..end : q = end \/ Exists(h, q)
      BY <1>0 DEF IsEnd
<1>8. \A f \in files : f.hash = h => f.pos < end
      BY <1>0, <1>1, <1>7 DEF ChainComplete
<1> DEFINE Shape(m) ==
        /\ \A g \in files' : g = m \/ (g \in files /\ g # d)
        /\ \A f \in files : f = d \/ f \in files' \/ (m \in files' /\ m.key = f.key /\ m.val = f.val)
        /\ m \in files' => \E f \in files : f # d /\ f.key = m.key /\ f.val = m.val
        /\ m \in files' => m.hash = h /\ m.pos = p
        /\ \A f \in files' : f.hash = h => f.pos \in Nat /\ f.pos < end - 1
        /\ \A f \in files : f.hash = h /\ f.pos < end - 1 => f \in files' \/ (m \in files' /\ f = d)
        /\ \A f \in files : f.hash # h => f \in files'
        /\ \A f, g \in files' : f.key = g.key => f = g
<1>9. PICK m : Shape(m)
  <2>1. CASE end = p + 1
    <3>1. files' = files \ {d}
          BY <1>2, <1>3, <2>1, Zenon DEF DelMoves, Others
    <3>2. \A f \in files' : f.hash = h => f.pos \in Nat /\ f.pos < end - 1
          BY <1>0, <1>1, <1>3, <1>8, <2>1, <3>1
    <3>3. \A f \in files : f.hash = h /\ f.pos < end - 1 => f # d
          BY <1>0, <1>2, <2>1
    <3>4. \A f, g \in files' : f.key = g.key => f = g
          BY <1>0, <1>6, <3>1, Zenon DEF OnceEach
    <3>5. Shape(d)
          BY ONLY <1>3, <3>1, <3>2, <3>3, <3>4
    <3>6. QED
          BY <3>5, Zenon
  <2>2. CASE end # p + 1
    <3> DEFINE q == end - 1
    <3>1. q \in Nat /\ q > p /\ end = q + 1
          BY <1>0, <1>7, <2>2
    <3>2. Exists(h, q)
          BY <1>0, <1>7, <3>1
    <3>3. PICK l \in files : l.hash = h /\ l.pos = q
          BY <3>2, Zenon DEF Exists
    <3>4. l # d /\ \A f \in files : f.hash = h /\ f.pos = q => f = l
          BY <1>0, <1>2, <3>1, <3>3 DEF DirInv
    <3> DEFINE m == [l EXCEPT !.pos = p]
    <3>5. m.hash = h /\ m.pos = p /\ m.key = l.key /\ m.val = l.val
          BY <1>0, <3>3 DEF Files
    <3>6. files \ Others(h, q) = {l}
          BY <3>3, <3>4, Zenon DEF Others
    <3>7. Others(h, p) \cap Others(h, q) = files \ {d, l}
          BY <1>2, <1>3, <3>3, <3>4 DEF Others
    <3>8. files' = (files \ {d, l}) \cup {m}
          BY <2>2, <3>6, <3>7, Zenon DEF DelMoves, Renamed
    <3> HIDE DEF m, q
    <3>10. \A f \in files' : f.hash = h => f.pos \in Nat /\ f.pos < q
      <4>1. \A f \in files \ {d, l} : f.hash = h => f.pos \in Nat /\ f.pos < q
            BY <1>1, <1>8, <3>1, <3>4
      <4>2. QED
            BY <1>0, <3>1, <3>5, <3>8, <4>1, Zenon
    <3>11. \A f \in files : f.hash = h /\ f.pos < q => f # l
          BY <3>1, <3>3
    <3>12. \A f, g \in files' : f.key = g.key => f = g
          BY <1>0, <1>6, <3>3, <3>5, <3>8 DEF OnceEach
    <3>13. Shape(m)
      <4>1. q = end - 1
            BY Zenon DEF q
      <4>2. \A f \in files : f.hash = h /\ f.pos < end - 1 => f \in files' \/ (m \in files' /\ f = d)
            BY <3>8, <3>11, <4>1, Zenon
      <4>3. \A f \in files : f = d \/ f \in files' \/ (m \in files' /\ m.key = f.key /\ m.val = f.val)
            BY <3>5, <3>8, Zenon
      <4>4. \A f \in files : f.hash # h => f \in files'
            BY <1>3, <3>3, <3>8, Zenon
      <4>5. \E f \in files : f # d /\ f.key = m.key /\ f.val = m.val
            BY <3>3, <3>4, <3>5, Zenon
      <4>6. QED
            BY ONLY <3>5, <3>8, <3>10, <3>12, <4>1, <4>2, <4>3, <4>4, <4>5
    <3>14. QED
          BY <3>13, Zenon
  <2>3. QED
        BY <2>1, <2>2, Zenon
<1>10. ChainComplete'
  <2> SUFFICES ASSUME NEW f \in files', NEW q \in 0..f.pos
               PROVE  \E g \in files' : g.hash = f.hash /\ g.pos = q
      BY Zenon DEF ChainComplete, Exists
  <2>1. CASE f.hash # h
    <3>1. f \in files
          BY <1>9, <2>1, Zenon
    <3>2. QED
          BY <1>0, <1>9, <2>1, <3>1 DEF ChainComplete, Exists
  <2>2. CASE f.hash = h
    <3>1. f.pos \in Nat /\ f.pos < end - 1 /\ q \in Nat /\ q < end - 1
          BY <1>7, <1>9, <2>2
    <3>2. Exists(h, q)
      <4>1. CASE f = m
            BY <1>0, <1>2, <1>3, <1>9, <3>1, <4>1 DEF ChainComplete
      <4>2. CASE f # m
            BY <1>0, <1>9, <2>2, <4>2, Zenon DEF ChainComplete
      <4>3. QED
            BY <4>1, <4>2
    <3>3. PICK g \in files : g.hash = h /\ g.pos = q
          BY <3>2, Zenon DEF Exists
    <3>4. QED
          BY <1>2, <1>9, <2>2, <3>1, <3>3, Zenon
  <2>3. QED
        BY <2>1, <2>2, Zenon
<1>11. OnceEach'
       BY <1>9, Zenon DEF OnceEach
<1>12. \A f \in files' : \E g \in files : g.key = f.key /\ g.val = f.val
       BY <1>9, Zenon
<1>13. TornIsWritten'
       BY <1>6, <1>12 DEF TornIsWritten
<1>14. \A f \in files : f.key # k => \E g \in files' : g.key = f.key /\ g.val = f.val
       BY <1>2, <1>9, Zenon
<1>15. \A f \in files' : f.key # k
       BY <1>3, <1>9
<1>16. StoredKept'
  <2> SUFFICES ASSUME NEW j \in stored \ {k} PROVE \E f \in files' : f.key = j
      BY <1>4 DEF StoredKept
  <2>1. QED
        BY <1>0, <1>5, <1>14 DEF StoredKept
<1>17. PositionFresh'
  <2> SUFFICES ASSUME NEW u \in Threads, pc'[u] = "lock"
               PROVE  /\ pos[u] = None => \A f \in files' : f.key # req[u].key
                      /\ pos[u] # None => \E f \in files' : f.key = req[u].key /\ f.pos = pos[u]
      BY <1>5, Zenon DEF PositionFresh
  <2>1. u # t /\ pc[u] = "lock"
        BY <1>0, Zenon
  <2>2. Chain(u) # h /\ req[u].key # k /\ req[u].key \in Keys
        BY <2>1, OtherChain DEF IInv, Control
  <2>3. \A f \in files : f.key = req[u].key => f \in files'
        BY <1>0, <1>9, <2>2 DEF DirInv, Chain
  <2>4. QED
        BY <1>0, <1>12, <2>1, <2>3 DEF PositionFresh
<1>18. QED
       BY <1>10, <1>11, <1>12, <1>13, <1>14, <1>15, <1>16, <1>17, Zenon
(* kvstore_del under the write lock preserves the invariant.               *)
LEMMA DelStep ==
  ASSUME IInv, NEW t \in Threads, DelUnlink(t)
  PROVE  IInv'
<1> USE KVStoreAssumption
<1> DEFINE h == Chain(t)
           p == pos[t]
<1>0. /\ pc[t] = "lock" /\ req[t].op = "del" /\ writer = None /\ p \in Positions
      /\ req[t].key \in Keys /\ h \in Hashes
      /\ UNCHANGED <<dir, writer, req, pos, faults, overlap>>
      /\ pc' = [pc EXCEPT ![t] = "done"]
      BY DelOutcome, Zenon
<1>1. PICK c \in {"ok", "errno"} :
              /\ ret' = [ret EXCEPT ![t] = c]
              /\ stored' = IF c = "ok" THEN stored \ {req[t].key} ELSE stored
              /\ Exists(Chain(t), pos[t]) => c = "ok"
      BY DelOutcome, Zenon
<1>2. PICK end \in Int : IsEnd(Chain(t), pos[t] + 1, end) /\ DelMoves(t, end)
      BY DelOutcome, Zenon
<1>3. dir' \in BOOLEAN /\ overlap' \in BOOLEAN
      BY <1>0, Zenon DEF IInv, TypeOK
<1>4. files' \subseteq Files /\ DirInv'
  <2>1. CASE end = p + 1
        BY <2>1, <1>2, Zenon DEF DelMoves, Others, IInv, TypeOK, DirInv
  <2>2. CASE end # p + 1
    <3>1. files \subseteq Files /\ DirInv /\ files' = Renamed(h, end - 1, p)
          BY <1>2, <2>2 DEF DelMoves, IInv, TypeOK
    <3> DEFINE Moved(f) == [f EXCEPT !.pos = p]
    <3>2. \A f \in files : /\ Moved(f) \in Files /\ Moved(f).pos = p /\ Moved(f).hash = f.hash
                           /\ Moved(f).key = f.key /\ Moved(f).val = f.val
          BY <1>0, <3>1 DEF Files
    <3>a. \A g \in files' : \/ g \in files /\ ~(g.hash = h /\ g.pos = p)
                            \/ \E f \in files : f.hash = h /\ f.pos = end - 1 /\ g = Moved(f)
          BY <3>1, Zenon DEF Renamed, Others
    <3> HIDE DEF Moved
    <3>3. files' \subseteq Files
          BY <3>1, <3>2, <3>a, Zenon
    <3>4. \A f \in files' : /\ f.key = None => f.val = None
                            /\ f.key # None => f.hash = HashOf[f.key] /\ f.val \in Values
          BY <3>1, <3>2, <3>a DEF DirInv
    <3>5. ASSUME NEW f \in files', NEW g \in files', f.hash = g.hash, f.pos = g.pos
          PROVE  f = g
          BY <3>1, <3>2, <3>5, <3>a DEF DirInv
    <3>6. QED
          BY <3>3, <3>4, <3>5, Zenon DEF DirInv
  <2>3. QED
        BY <2>1, <2>2, Zenon
<1>5. TypeOK'
      BY <1>0, <1>1, <1>3, <1>4 DEF IInv, TypeOK, Codes
<1>6. Control'
  <2>1. \A u \in Threads : pc[u] # "write"
        BY <1>0, Zenon DEF IInv, Control
  <2>2. QED
        BY <1>0, <1>1, <2>1 DEF IInv, TypeOK, Control
<1>7. Apart'
      BY <1>0 DEF IInv, TypeOK, Apart, Writing
<1>8. CalmInv'
  <2>1. Calm' => Calm
        BY <1>0, Zenon DEF Calm
  <2>2. Exists(h, p) => stored' = stored \ {req[t].key}
        BY <1>1, Zenon
  <2>3. QED
        BY <1>0, <1>2, <2>1, <2>2, DelCalm, Zenon DEF CalmInv
<1>9. QED
      BY <1>4, <1>5, <1>6, <1>7, <1>8, Zenon DEF IInv

(* The return of a call to its caller preserves the invariant.             *)
LEMMA FinishStep ==
  ASSUME IInv, NEW t \in Threads, Finish(t)
  PROVE  IInv'
<1> USE KVStoreAssumption
<1>0. /\ pc[t] = "done" /\ pc' = [pc EXCEPT ![t] = "idle"] /\ req' = [req EXCEPT ![t] = NoReq]
      /\ pos' = [pos EXCEPT ![t] = None] /\ ret' = [ret EXCEPT ![t] = None]
      /\ UNCHANGED <<dir, files, writer, faults, stored, overlap>>
      BY Zenon DEF Finish
<1>1. TypeOK'
  <2>1. dir' \in BOOLEAN /\ overlap' \in BOOLEAN
        BY <1>0, Zenon DEF IInv, TypeOK
  <2>2. NoReq \in Requests
        BY Zenon DEF NoReq, Requests
  <2>3. QED
        BY <1>0, <2>1, <2>2, Zenon DEF IInv, TypeOK
<1>2. \A u \in Threads : u # t => pc'[u] = pc[u] /\ req'[u] = req[u] /\ pos'[u] = pos[u] /\ ret'[u] = ret[u]
      BY <1>0, Zenon DEF IInv, TypeOK
<1>3. pc'[t] = "idle" /\ ret'[t] = None
      BY <1>0, Zenon DEF IInv, TypeOK
<1>4. Control'
      BY <1>0, <1>2, <1>3 DEF IInv, Control, Chain
<1>5. DirInv' /\ Apart'
      BY <1>0, <1>2, <1>3 DEF IInv, DirInv, Apart, Writing
<1>6. CalmInv'
  <2>1. Calm' => Calm
        BY <1>0, Zenon DEF Calm
  <2>2. \A u \in Threads :
          pc[u] \in {"lock", "write"} \/ pc'[u] \in {"lock", "write"} =>
            pc'[u] = pc[u] /\ req'[u] = req[u] /\ pos'[u] = pos[u]
        BY <1>0, <1>2, <1>3
  <2>3. QED
        BY <1>0, <2>1, <2>2, CalmKept, Zenon DEF IInv
<1>7. QED
      BY <1>1, <1>4, <1>5, <1>6, Zenon DEF IInv

(* kvstore_clean, kvstore_init and a crash find or leave every thread idle.*)
LEMMA RestStep ==
  ASSUME IInv, kvstore_clean \/ kvstore_init \/ Crash
  PROVE  IInv'
<1> USE KVStoreAssumption
<1>1. CASE kvstore_clean
  <2>1. dir' \in BOOLEAN /\ overlap' \in BOOLEAN
        BY <1>1, Zenon DEF kvstore_clean, IInv, TypeOK
  <2>2. TypeOK'
        BY <1>1, <2>1, Zenon DEF kvstore_clean, IInv, TypeOK
  <2>3. Control' /\ DirInv' /\ Apart'
        BY <1>1, Zenon DEF kvstore_clean, IInv, Control, DirInv, Apart, Writing
  <2>4. CalmInv'
        BY <1>1, Zenon DEF kvstore_clean, IInv, CalmInv, ChainComplete, OnceEach, TornIsWritten, StoredKept, PositionFresh
  <2>5. QED
        BY <2>2, <2>3, <2>4, Zenon DEF IInv
<1>2. CASE kvstore_init
  <2>1. dir' \in BOOLEAN /\ overlap' \in BOOLEAN
        BY <1>2, Zenon DEF kvstore_init, IInv, TypeOK
  <2>2. TypeOK'
        BY <1>2, <2>1, Zenon DEF kvstore_init, IInv, TypeOK
  <2>3. Control' /\ DirInv' /\ Apart'
        BY <1>2, Zenon DEF kvstore_init, IInv, Control, Chain, DirInv, Apart, Writing
  <2>4. CalmInv'
    <3>1. UNCHANGED <<files, pc, req, pos, faults, stored, overlap>>
          BY <1>2, Zenon DEF kvstore_init
    <3>2. Calm' => Calm
          BY <3>1, Zenon DEF Calm
    <3>3. QED
          BY <3>1, <3>2, CalmKept, Zenon DEF IInv
  <2>5. QED
        BY <2>2, <2>3, <2>4 DEF IInv
<1>3. CASE Crash
  <2>1. dir' \in BOOLEAN /\ overlap' \in BOOLEAN
        BY <1>3, Zenon DEF Crash, IInv, TypeOK
  <2>2. faults' \in 0..MaxFaults /\ ~Calm'
        BY <1>3 DEF Crash, Fault, Calm, IInv, TypeOK
  <2>3. NoReq \in Requests
        BY Zenon DEF NoReq, Requests
  <2>4. TypeOK'
        BY <1>3, <2>1, <2>2, <2>3 DEF Crash, IInv, TypeOK
  <2>5. Control' /\ DirInv' /\ Apart'
        BY <1>3, Zenon DEF Crash, IInv, Control, DirInv, Apart, Writing
  <2>6. QED
        BY <2>2, <2>4, <2>5, Zenon DEF IInv, CalmInv
<1>4. QED
      BY <1>1, <1>2, <1>3, Zenon

(* Nothing happens.                                                        *)
LEMMA Stutter == IInv /\ UNCHANGED vars => IInv'
<1> SUFFICES ASSUME IInv, UNCHANGED vars PROVE IInv'
    OBVIOUS
<1>1. UNCHANGED <<dir, files, writer, pc, req, pos, ret, faults, stored, overlap>>
      BY DEF vars
<1>2. TypeOK'
      BY <1>1 DEF IInv, TypeOK
<1>3. Control' /\ DirInv' /\ Apart'
      BY <1>1, Zenon DEF IInv, Control, Chain, DirInv, Apart, Writing
<1>4. CalmInv'
  <2>1. Calm' => Calm
        BY <1>1, Zenon DEF Calm
  <2>2. QED
        BY <1>1, <2>1, CalmKept, Zenon DEF IInv
<1>5. QED
      BY <1>2, <1>3, <1>4 DEF IInv

(* Every step of the store preserves the invariant.                        *)
LEMMA StepIInv == IInv /\ [Next]_vars => IInv'
      BY BeginStep, FindStep, OpenStep, WriteStep, DelStep, FinishStep, RestStep, Stutter, Zenon DEF Next, Step

(* The invariant holds in every state of the store.                        *)
LEMMA AlwaysIInv == Spec => []IInv
      BY InitIInv, StepIInv, PTL DEF Spec

(* The invariant implies that the chains are sound: a stored key is a      *)
(* candidate of find_entry because the chain below it is complete.         *)
LEMMA IInvSound == IInv => ChainsSound
<1> SUFFICES ASSUME IInv PROVE ChainsSound
    OBVIOUS
<1>1. CalmChainComplete /\ UniqueKeys
      BY DEF IInv, CalmInv, CalmChainComplete, UniqueKeys, OnceEach
<1>2. CalmEntriesAvailable
  <2> SUFFICES ASSUME Calm, NEW k \in stored, \A t \in Threads : ~(pc[t] = "write" /\ req[t].key = k)
               PROVE  \E f \in Candidates(k) : f.key = k
      BY Zenon DEF CalmEntriesAvailable, EntriesAvailable
  <2>1. k \in Keys /\ k # None
        BY KVStoreAssumption, Zenon DEF IInv, TypeOK
  <2>2. PICK f \in files : f.key = k
        BY Zenon DEF IInv, CalmInv, StoredKept
  <2>3. f.hash = HashOf[k] /\ \A q \in 0..f.pos : Exists(f.hash, q)
        BY <2>1, <2>2 DEF IInv, DirInv, CalmInv, ChainComplete
  <2>4. QED
        BY <2>2, <2>3, Zenon DEF Candidates
<1>3. QED
      BY <1>1, <1>2 DEF IInv, ChainsSound

(* For any threads, keys, values and hash function, the chains of          *)
(* kvstore.c are sound: until two writes to one chain overlap or a fault   *)
(* happens they are complete, a key is in them once, and find_entry        *)
(* reaches every stored key.                                               *)
THEOREM ChainsAlwaysSound == Spec => []ChainsSound
      BY AlwaysIInv, IInvSound, PTL

-----------------------------------------------------------------------------
(* The value of a key: that of the put in progress, else that of its file. *)
BeingPut(k) == \E t \in Threads : pc[t] = "write" /\ req[t].key = k

(* v is the value of k that the next operation on k would see.             *)
IsValue(k, v) ==
  \/ \E t \in Threads : pc[t] = "write" /\ req[t].key = k /\ v = req[t].val
  \/ ~BeingPut(k) /\ \E f \in files : f.key = k /\ v = f.val
  \/ ~BeingPut(k) /\ (\A f \in files : f.key # k) /\ v = None

(* In a calm store map gives every key the one value it has.               *)
LEMMA MapIsValue ==
  IInv /\ Calm =>
    /\ map \in [Keys -> Values \cup {None}]
    /\ \A k \in Keys : IsValue(k, map[k])
    /\ \A k \in Keys : \A v \in Values \cup {None} : IsValue(k, v) => map[k] = v
<1> SUFFICES ASSUME IInv, Calm
             PROVE  /\ map \in [Keys -> Values \cup {None}]
                    /\ \A k \in Keys : IsValue(k, map[k])
                    /\ \A k \in Keys : \A v \in Values \cup {None} : IsValue(k, v) => map[k] = v
    OBVIOUS
<1> USE KVStoreAssumption
<1>1. \A k \in Keys : \A t \in Threads :
        pc[t] = "write" /\ req[t].key = k => map[k] = req[t].val /\ req[t].val \in Values
  <2> SUFFICES ASSUME NEW k \in Keys, NEW t \in Threads, pc[t] = "write", req[t].key = k
               PROVE  map[k] = req[t].val /\ req[t].val \in Values
      OBVIOUS
  <2>1. \A u \in Threads : pc[u] = "write" => u = t
        BY DEF IInv, Control
  <2>2. (CHOOSE u \in Threads : pc[u] = "write" /\ req[u].key = k) = t
        BY <2>1
  <2>3. QED
        BY <2>2 DEF map, IInv, Control
<1>2. \A k \in Keys : \A f \in files :
        f.key = k /\ ~BeingPut(k) => map[k] = f.val /\ f.val \in Values
  <2> SUFFICES ASSUME NEW k \in Keys, NEW f \in files, f.key = k, ~BeingPut(k)
               PROVE  map[k] = f.val /\ f.val \in Values
      OBVIOUS
  <2>1. k # None /\ f.val \in Values
        BY DEF IInv, DirInv
  <2>2. \A g \in files : g.key = k => g = f
        BY <2>1 DEF IInv, CalmInv, OnceEach
  <2>3. (CHOOSE g \in files : g.key = k) = f
        BY <2>2
  <2>4. QED
        BY <2>1, <2>3, Zenon DEF map, BeingPut
<1>3. \A k \in Keys : ~BeingPut(k) /\ (\A f \in files : f.key # k) => map[k] = None
      BY DEF map, BeingPut
<1>4. \A k \in Keys : IsValue(k, map[k]) /\ map[k] \in Values \cup {None}
      BY <1>1, <1>2, <1>3 DEF IsValue, BeingPut
<1>5. \A k \in Keys : \A v : IsValue(k, v) => map[k] = v
      BY <1>1, <1>2, <1>3 DEF IsValue
<1>6. map \in [Keys -> Values \cup {None}]
      BY <1>4 DEF map
<1>7. QED
      BY <1>4, <1>5, <1>6

(* The same after a step.                                                  *)
LEMMA MapIsValuePrimed ==
  IInv' /\ Calm' =>
    /\ map' \in [Keys -> Values \cup {None}]
    /\ \A k \in Keys : \A v \in Values \cup {None} : IsValue(k, v)' => map'[k] = v
<1>1. (IInv /\ Calm)' => 
         (/\ map \in [Keys -> Values \cup {None}]
          /\ \A k \in Keys : IsValue(k, map[k])
          /\ \A k \in Keys : \A v \in Values \cup {None} : IsValue(k, v) => map[k] = v)'
      BY MapIsValue, PTL
<1>2. QED
      BY <1>1

(* Only the value of one key changes, if that of every other stays.        *)
LEMMA MapStep ==
  ASSUME IInv, Calm, IInv', Calm', NEW k \in Keys, NEW w \in Values \cup {None}, IsValue(k, w)',
         \A j \in Keys : \A v \in Values \cup {None} : j # k /\ IsValue(j, v) => IsValue(j, v)'
  PROVE  map' = [map EXCEPT ![k] = w]
<1>1. map \in [Keys -> Values \cup {None}] /\ \A j \in Keys : IsValue(j, map[j])
      BY MapIsValue
<1>2. map' \in [Keys -> Values \cup {None}]
      BY MapIsValuePrimed
<1>3. map'[k] = w
      BY MapIsValuePrimed
<1>4. \A j \in Keys : j # k => map'[j] = map[j]
      BY <1>1, MapIsValuePrimed
<1>5. QED
      BY <1>1, <1>2, <1>3, <1>4

(* No value changes, if that of every key stays.                           *)
LEMMA MapKept ==
  ASSUME IInv, Calm, IInv', Calm',
         \A j \in Keys : \A v \in Values \cup {None} : IsValue(j, v) => IsValue(j, v)'
  PROVE  map' = map
<1>1. map \in [Keys -> Values \cup {None}] /\ \A j \in Keys : IsValue(j, map[j])
      BY MapIsValue
<1>2. map' \in [Keys -> Values \cup {None}]
      BY MapIsValuePrimed
<1>3. \A j \in Keys : map'[j] = map[j]
      BY <1>1, MapIsValuePrimed
<1>4. QED
      BY <1>1, <1>2, <1>3
(* The values of the keys depend on the files and the puts in progress.    *)
LEMMA SameFilesSameMap ==
  ASSUME IInv, Calm, IInv', Calm', UNCHANGED files,
         \A t \in Threads : /\ pc'[t] = "write" <=> pc[t] = "write"
                            /\ pc[t] = "write" => req'[t] = req[t]
  PROVE  map' = map
<1>1. ASSUME NEW j \in Keys, NEW v \in Values \cup {None}, IsValue(j, v)
      PROVE  IsValue(j, v)'
      BY <1>1 DEF IsValue, BeingPut
<1>2. QED
      BY <1>1, MapKept

(* What a thread has been answered depends on its own call.                *)
LEMMA AnswerStep ==
  ASSUME NEW t \in Threads, \A u \in Threads : u # t => req'[u] = req[u] /\ ret'[u] = ret[u]
  PROVE  answer' = [answer EXCEPT ![t] = answer'[t]]
<1>1. \A u \in Threads : u # t => answer'[u] = answer[u]
      BY DEF answer
<1>2. answer' = [u \in Threads |-> answer'[u]] /\ answer = [u \in Threads |-> answer[u]]
      BY DEF answer
<1>3. QED
      BY <1>1, <1>2

(* A call that is only begun, or is refused, or is a put, answers nothing. *)
LEMMA NoAnswer ==
  ASSUME NEW t \in Threads, \A u \in Threads : u # t => req'[u] = req[u] /\ ret'[u] = ret[u],
         ret[t] = None, ret'[t] \in {None, "keylen", "access"} \/ req'[t].op = "put"
  PROVE  answer' = answer
<1>1. \A u \in Threads : answer'[u] = answer[u]
      BY DEF answer
<1>2. answer' = [u \in Threads |-> answer'[u]] /\ answer = [u \in Threads |-> answer[u]]
      BY DEF answer
<1>3. QED
      BY <1>1, <1>2

(* A step of the abstract map, or none.                                    *)
MapNext == Abstract!Next \/ UNCHANGED <<map, answer>>

(* The call of an operation is no step of the map.                         *)
LEMMA BeginIsMap ==
  ASSUME IInv, Calm, IInv', Calm', NEW t \in Threads, NEW op \in Ops, NEW k \in Keys,
         NEW v \in Values \cup {None}, Begin(t, op, k, v)
  PROVE  UNCHANGED <<map, answer>>
<1>1. /\ pc[t] = "idle" /\ UNCHANGED files /\ ret[t] = None
      /\ req' = [req EXCEPT ![t] = [op |-> op, key |-> k, val |-> v]]
      /\ \/ ret' = [ret EXCEPT ![t] = "keylen"] /\ pc' = [pc EXCEPT ![t] = "done"]
         \/ pc' = [pc EXCEPT ![t] = "find"] /\ UNCHANGED ret
      BY DEF Begin, Return, IInv, Control
<1>2. \A u \in Threads : u # t => req'[u] = req[u] /\ ret'[u] = ret[u] /\ pc'[u] = pc[u]
      BY <1>1 DEF IInv, TypeOK
<1>3. pc'[t] # "write" /\ ret'[t] \in {None, "keylen"}
      BY <1>1 DEF IInv, TypeOK
<1>4. map' = map
      BY <1>1, <1>2, <1>3, SameFilesSameMap
<1>5. answer' = answer
      BY <1>1, <1>2, <1>3, NoAnswer
<1>6. QED
      BY <1>4, <1>5, Zenon

(* find_entry is where a get takes effect, and a del of a key that is not  *)
(* there.                                                                  *)
LEMMA FindIsMap ==
  ASSUME IInv, Calm, IInv', Calm', NEW t \in Threads, find_entry(t)
  PROVE  MapNext
<1> USE KVStoreAssumption
<1> DEFINE k == req[t].key
<1>0. /\ pc[t] = "find" /\ UNCHANGED <<files, req>> /\ ret[t] = None /\ k \in Keys
      /\ CallOver(t) \/ PositionInHand(t)
      BY FindOutcome, Zenon DEF IInv, Control
<1>1. /\ \A u \in Threads : u # t => req'[u] = req[u] /\ ret'[u] = ret[u] /\ pc'[u] = pc[u]
      /\ pc'[t] # "write"
  <2>1. \E p \in {"done", "lock"} : pc' = [pc EXCEPT ![t] = p]
        BY <1>0, Zenon DEF CallOver, PositionInHand
  <2>2. ret' = ret \/ \E c : ret' = [ret EXCEPT ![t] = c]
        BY <1>0, Zenon DEF CallOver, PositionInHand
  <2>3. /\ pc \in [Threads -> {"idle", "find", "lock", "write", "done"}]
        /\ ret \in [Threads -> Codes \cup Values \cup {None}]
        BY Zenon DEF IInv, TypeOK
  <2>4. PICK p \in {"done", "lock"} : pc' = [pc EXCEPT ![t] = p]
        BY <2>1, Zenon
  <2>5. pc'[t] = p /\ \A u \in Threads : u # t => pc'[u] = pc[u]
        BY <2>3, <2>4, OneChanged, Zenon
  <2>6. p # "write"
        OBVIOUS
  <2>7. \A u \in Threads : u # t => ret'[u] = ret[u]
        BY <2>2, <2>3, OneChanged, Zenon
  <2>8. QED
        BY <1>0, <2>5, <2>6, <2>7, Zenon
<1>2. map' = map
      BY <1>0, <1>1, SameFilesSameMap
<1>3. ASSUME Return(t, "access") \/ UNCHANGED ret PROVE MapNext
  <2>1. ret'[t] \in {None, "access"}
        BY <1>0, <1>3, Zenon DEF Return, IInv, TypeOK
  <2>2. answer' = answer
        BY <1>0, <1>1, <2>1, NoAnswer
  <2>3. QED
        BY <1>2, <2>2 DEF MapNext
<1>4. ASSUME writer = None, NEW f \in Found(k), req[t].op = "get", NEW v \in ReadValues(f), Return(t, v)
      PROVE  MapNext
  <2>1. f \in files /\ f.key = k
        BY <1>0, <1>4, CalmSearch DEF Found
  <2>2. f.val \in Values /\ k # None
        BY <1>0, <2>1 DEF IInv, DirInv
  <2>3. v = f.val
        BY <1>4, <2>1, <2>2, Zenon DEF ReadValues
  <2>4. ~BeingPut(k)
        BY <1>4, Zenon DEF IInv, Control, BeingPut
  <2>5. map[k] = v
        BY <1>0, <2>1, <2>2, <2>3, <2>4, MapIsValue, Zenon DEF IsValue
  <2>6. ret'[t] = v /\ v \notin Codes /\ v # None
        BY <1>4, <2>2, <2>3 DEF Return, IInv, TypeOK
  <2>7. answer'[t] = <<k, v>>
        BY <1>0, <1>4, <2>6, Zenon DEF answer, Codes
  <2>8. answer' = [answer EXCEPT ![t] = <<k, IF map[k] = None THEN "nokey" ELSE map[k]>>]
        BY <1>1, <2>5, <2>6, <2>7, AnswerStep
  <2>9. Abstract!Get(t, k)
        BY <1>2, <2>8, Zenon DEF Abstract!Get
  <2>10. QED
        BY <1>0, <2>9 DEF MapNext, Abstract!Next
<1>5. ASSUME writer = None, NotFound(k), NoEntry(t, "nokey") PROVE MapNext
  <2>1. \A f \in files : f.key # k
        BY <1>0, <1>5, CalmSearch, Zenon DEF NotFound
  <2>2. ~BeingPut(k)
        BY <1>5 DEF IInv, Control, BeingPut
  <2>3. map[k] = None
        BY <1>0, <2>1, <2>2, MapIsValue, Zenon DEF IsValue
  <2>4. CASE req[t].op = "put"
        BY <1>3, <1>5, <2>4, Zenon DEF NoEntry
  <2>5. CASE req[t].op \in {"get", "del"}
    <3>1. ret'[t] = "nokey"
          BY <1>5, <2>5 DEF NoEntry, Return, IInv, TypeOK
    <3>2. answer'[t] = <<k, "nokey">>
          BY <1>0, <2>5, <3>1, Zenon DEF answer, Codes
    <3>3. answer' = [answer EXCEPT ![t] = <<k, "nokey">>]
          BY <1>1, <3>2, AnswerStep
    <3>4. CASE req[t].op = "get"
      <4>1. Abstract!Get(t, k)
            BY <1>2, <2>3, <3>3 DEF Abstract!Get
      <4>2. QED
            BY <1>0, <4>1, Zenon DEF MapNext, Abstract!Next
    <3>5. CASE req[t].op = "del"
      <4>1. map' = [map EXCEPT ![k] = None]
            BY <1>0, <1>2, <2>3, MapIsValue, Zenon
      <4>2. Abstract!Del(t, k)
            BY <2>3, <3>3, <4>1 DEF Abstract!Del
      <4>3. QED
            BY <1>0, <4>2, Zenon DEF MapNext, Abstract!Next
    <3>6. QED
          BY <2>5, <3>4, <3>5
  <2>6. QED
        BY <1>0, <2>4, <2>5, Zenon DEF IInv, Control
<1>6. CASE EntryFound(t) /\ writer = None
  <2>1. CASE req[t].op = "get"
        BY <1>4, <1>6, <2>1, Zenon DEF EntryFound
  <2>2. CASE req[t].op # "get"
        BY <1>3, <1>6, <2>2, Zenon DEF EntryFound
  <2>3. QED
        BY <2>1, <2>2, Zenon
<1>7. ~Fault("open")
      BY CalmFaultless, Zenon
<1>8. QED
      BY <1>3, <1>5, <1>6, <1>7, Zenon DEF find_entry
(* The opening of its file is where a put takes effect: the key has the    *)
(* new value for everybody who takes the lock afterwards.                  *)
LEMMA OpenIsMap ==
  ASSUME IInv, Calm, IInv', Calm', NEW t \in Threads, PutOpen(t)
  PROVE  MapNext
<1> USE KVStoreAssumption
<1> DEFINE k == req[t].key
           w == req[t].val
<1>0. /\ pc[t] = "lock" /\ req[t].op = "put" /\ writer = None /\ UNCHANGED <<req, stored>>
      /\ ret[t] = None /\ k \in Keys /\ w \in Values /\ k # None
  <2>1. pc[t] = "lock" /\ req[t].op = "put" /\ writer = None /\ UNCHANGED <<req, stored>>
        BY Zenon DEF PutOpen
  <2>2. Control
        BY Zenon DEF IInv
  <2>3. k \in Keys /\ ret[t] = None /\ w \in Values
        BY <2>1, <2>2, Zenon DEF Control
  <2>4. QED
        BY <2>1, <2>3, Zenon
<1>1. ~Fault("open")
      BY CalmFaultless, Zenon
<1>2. PICK p \in Positions :
          /\ IF pos[t] # None THEN p = pos[t] ELSE IsEnd(Chain(t), 0, p)
          /\ pos' = [pos EXCEPT ![t] = p]
          /\ files' = Truncated(Chain(t), p)
          /\ pc' = [pc EXCEPT ![t] = "write"]
          /\ UNCHANGED ret
      BY <1>1, Zenon DEF PutOpen, Chain
<1>3. /\ \A f \in files : f.key # k => f \in files'
      /\ \A f \in files' : f.key # None => f \in files /\ f.key # k
      BY <1>0, <1>2, OpenCalm, Zenon
<1>4. /\ \A u \in Threads : pc[u] # "write"
      /\ \A u \in Threads : pc'[u] = "write" => u = t
      /\ pc'[t] = "write"
  <2>1. Control /\ pc \in [Threads -> {"idle", "find", "lock", "write", "done"}]
        BY Zenon DEF IInv, TypeOK
  <2>2. \A u \in Threads : pc[u] # "write"
        BY <1>0, <2>1, Zenon DEF Control
  <2>3. pc'[t] = "write" /\ \A u \in Threads : u # t => pc'[u] = pc[u]
        BY <1>2, <2>1, OneChanged, Zenon
  <2>4. QED
        BY <2>2, <2>3, Zenon
<1>5. IsValue(k, w)'
      BY <1>0, <1>4 DEF IsValue
<1>6. ASSUME NEW j \in Keys, NEW v \in Values \cup {None}, j # k, IsValue(j, v)
      PROVE  IsValue(j, v)'
      BY <1>0, <1>3, <1>4, <1>6, Zenon DEF IsValue, BeingPut
<1>7. map' = [map EXCEPT ![k] = w]
      BY <1>0, <1>5, <1>6, MapStep, Zenon
<1>8. answer' = answer
      BY <1>0, <1>2, NoAnswer
<1>9. Abstract!Put(k, w)
      BY <1>7, <1>8 DEF Abstract!Put
<1>10. QED
      BY <1>0, <1>9, Zenon DEF MapNext, Abstract!Next

(* The writing of the entry is no step of the map.                         *)
LEMMA WriteIsMap ==
  ASSUME IInv, Calm, IInv', Calm', NEW t \in Threads, PutWrite(t)
  PROVE  UNCHANGED <<map, answer>>
<1> USE KVStoreAssumption
<1> DEFINE k == req[t].key
<1>0. /\ pc[t] = "write" /\ req[t].op = "put" /\ UNCHANGED <<req, pos>> /\ stored' = stored \cup {k}
      /\ ret[t] = None /\ k \in Keys /\ k # None /\ req[t].val \in Values
      /\ ret' = [ret EXCEPT ![t] = "ok"] /\ pc' = [pc EXCEPT ![t] = "done"]
  <2>1. /\ pc[t] = "write" /\ UNCHANGED <<req, pos>> /\ stored' = stored \cup {k}
        /\ ret' = [ret EXCEPT ![t] = "ok"] /\ pc' = [pc EXCEPT ![t] = "done"]
        BY Zenon DEF PutWrite, Return
  <2>2. Control
        BY Zenon DEF IInv
  <2>3. req[t].op = "put" /\ k \in Keys /\ ret[t] = None /\ req[t].val \in Values
        BY <2>1, <2>2, Zenon DEF Control
  <2>4. QED
        BY <2>1, <2>3, Zenon
<1>1. ~Fault("write")
      BY CalmFaultless, Zenon
<1>2. files' = Written(Chain(t), pos[t], k, req[t].val)
      BY <1>1, Zenon DEF PutWrite, Chain
<1>3. /\ \A f \in files : f.key # None => f \in files' /\ f.key # k
      /\ \A f \in files' : f.key # k => f \in files
      /\ \E f \in files' : f.key = k /\ f.val = req[t].val
      BY <1>0, <1>2, WriteCalm, Zenon
<1>4. /\ \A u \in Threads : pc[u] = "write" => u = t
      /\ \A u \in Threads : pc'[u] # "write"
      BY <1>0 DEF IInv, TypeOK, Control
<1>5. ASSUME NEW j \in Keys, NEW v \in Values \cup {None}, IsValue(j, v)
      PROVE  IsValue(j, v)'
  <2>1. CASE j = k
    <3>1. v = req[t].val
          BY <1>0, <1>4, <1>5, <2>1, Zenon DEF IsValue, BeingPut
    <3>2. QED
          BY <1>3, <1>4, <2>1, <3>1 DEF IsValue, BeingPut
  <2>2. CASE j # k
        BY <1>0, <1>3, <1>4, <1>5, <2>2, Zenon DEF IsValue, BeingPut
  <2>3. QED
        BY <2>1, <2>2, Zenon
<1>6. map' = map
      BY <1>5, MapKept, Zenon
<1>7. \A u \in Threads : u # t => req'[u] = req[u] /\ ret'[u] = ret[u]
      BY <1>0 DEF IInv, TypeOK
<1>8. answer' = answer
      BY <1>0, <1>7, NoAnswer, Zenon
<1>9. QED
      BY <1>6, <1>8, Zenon

(* kvstore_del takes effect when it removes or replaces the file.          *)
LEMMA DelIsMap ==
  ASSUME IInv, Calm, IInv', Calm', NEW t \in Threads, DelUnlink(t)
  PROVE  MapNext
<1> USE KVStoreAssumption
<1> DEFINE k == req[t].key
<1>0. /\ pc[t] = "lock" /\ req[t].op = "del" /\ writer = None /\ UNCHANGED <<req, pos>>
      /\ k \in Keys /\ k # None /\ pc' = [pc EXCEPT ![t] = "done"]
      BY DelOutcome, Zenon
<1>1. PICK c \in {"ok", "errno"} :
              /\ ret' = [ret EXCEPT ![t] = c]
              /\ stored' = IF c = "ok" THEN stored \ {k} ELSE stored
              /\ Exists(Chain(t), pos[t]) => c = "ok"
      BY DelOutcome, Zenon
<1>2. PICK end \in Int : IsEnd(Chain(t), pos[t] + 1, end) /\ DelMoves(t, end)
      BY DelOutcome, Zenon
<1>3. PICK d \in files : d.key = k /\ d.pos = pos[t]
  <2>1. pos[t] \in Positions /\ PositionFresh
        BY <1>0, Zenon DEF IInv, Control, CalmInv
  <2>2. pos[t] # None
        BY <2>1, Zenon
  <2>3. QED
        BY <1>0, <2>1, <2>2, Zenon DEF PositionFresh
<1>4. Exists(Chain(t), pos[t]) /\ c = "ok" /\ d.val \in Values
      BY <1>0, <1>1, <1>3, Zenon DEF IInv, DirInv, Exists, Chain
<1>5. /\ \A f \in files' : f.key # k
      /\ \A f \in files : f.key # k => \E g \in files' : g.key = f.key /\ g.val = f.val
      /\ \A f \in files' : \E g \in files : g.key = f.key /\ g.val = f.val
      BY <1>0, <1>1, <1>2, <1>4, DelCalm, Zenon
<1>6. \A u \in Threads : pc[u] # "write" /\ pc'[u] # "write"
      BY <1>0 DEF IInv, TypeOK, Control
<1>7. IsValue(k, None)'
      BY <1>0, <1>5, <1>6 DEF IsValue, BeingPut
<1>8. ASSUME NEW j \in Keys, NEW v \in Values \cup {None}, j # k, IsValue(j, v)
      PROVE  IsValue(j, v)'
      BY <1>5, <1>6, <1>8 DEF IsValue, BeingPut
<1>9. map' = [map EXCEPT ![k] = None]
      BY <1>0, <1>7, <1>8, MapStep, Zenon
<1>10. map[k] = d.val
      BY <1>0, <1>3, <1>4, <1>6, MapIsValue, Zenon DEF IsValue, BeingPut
<1>11. /\ \A u \in Threads : u # t => req'[u] = req[u] /\ ret'[u] = ret[u]
       /\ ret'[t] = "ok"
      BY <1>0, <1>1, <1>4 DEF IInv, TypeOK
<1>12. answer'[t] = <<k, "ok">>
      BY <1>0, <1>11, Zenon DEF answer, Codes
<1>13. answer' = [answer EXCEPT ![t] = <<k, IF map[k] = None THEN "nokey" ELSE "ok">>]
  <2>1. map[k] # None
        BY <1>4, <1>10, Zenon
  <2>2. answer' = [answer EXCEPT ![t] = answer'[t]]
        BY <1>11, AnswerStep, Zenon
  <2>3. QED
        BY <1>12, <2>1, <2>2, Zenon
<1>14. Abstract!Del(t, k)
      BY <1>9, <1>13, Zenon DEF Abstract!Del
<1>15. QED
      BY <1>0, <1>14, Zenon DEF MapNext, Abstract!Next

(* The return of a call takes its answer back.                             *)
LEMMA FinishIsMap ==
  ASSUME IInv, Calm, IInv', Calm', NEW t \in Threads, Finish(t)
  PROVE  MapNext
<1>0. /\ pc[t] = "done" /\ pc' = [pc EXCEPT ![t] = "idle"] /\ req' = [req EXCEPT ![t] = NoReq]
      /\ ret' = [ret EXCEPT ![t] = None] /\ UNCHANGED files
      BY DEF Finish
<1>1. /\ \A u \in Threads : u # t => req'[u] = req[u] /\ ret'[u] = ret[u] /\ pc'[u] = pc[u]
      /\ pc'[t] # "write" /\ ret'[t] = None
      BY <1>0, Zenon DEF IInv, TypeOK
<1>2. map' = map
      BY <1>0, <1>1, SameFilesSameMap, Zenon
<1>3. answer'[t] = None
      BY <1>1, Zenon DEF answer
<1>4. answer' = [answer EXCEPT ![t] = None]
      BY <1>1, <1>3, AnswerStep
<1>5. Abstract!Return(t)
      BY <1>2, <1>4 DEF Abstract!Return
<1>6. QED
      BY <1>5 DEF MapNext, Abstract!Next

(* kvstore_clean empties the map.                                          *)
LEMMA CleanIsMap ==
  ASSUME IInv, Calm, IInv', Calm', kvstore_clean
  PROVE  MapNext
<1>0. (\A t \in Threads : pc[t] = "idle") /\ files' = {} /\ UNCHANGED <<pc, req, ret>>
      BY DEF kvstore_clean
<1>1. \A k \in Keys : IsValue(k, None)'
      BY <1>0 DEF IsValue, BeingPut
<1>2. map' = [k \in Keys |-> None]
      BY <1>1, MapIsValuePrimed, Zenon
<1>3. answer' = answer
      BY <1>0 DEF answer
<1>4. Abstract!Clean
      BY <1>2, <1>3 DEF Abstract!Clean
<1>5. QED
      BY <1>4 DEF MapNext, Abstract!Next

(* A calm state was calm before.                                           *)
LEMMA CalmBefore ==
  ASSUME IInv, [Next]_vars, Calm'
  PROVE  Calm
<1>1. faults \in Nat /\ overlap \in BOOLEAN
      BY DEF IInv, TypeOK
<1>2. \A kind : Fault(kind) => faults' # 0
      BY <1>1 DEF Fault
<1>3. faults' = 0 => faults = 0
      BY <1>1, <1>2 DEF Next, Step, Begin, find_entry, EntryFound, PutOpen, PutWrite, DelUnlink, Finish,
            kvstore_clean, kvstore_init, Crash, vars
<1>4. ~overlap' => ~overlap
      BY <1>1 DEF Next, Step, Begin, find_entry, PutOpen, PutWrite, DelUnlink, Finish,
            kvstore_clean, kvstore_init, Crash, vars
<1>5. QED
      BY <1>3, <1>4 DEF Calm

(* Every step of a calm store is a step of the abstract map or none.       *)
LEMMA StepIsMap == IInv /\ IInv' /\ [Next]_vars => [~Calm' \/ Abstract!Next]_<<map, answer>>
<1> SUFFICES ASSUME IInv, IInv', [Next]_vars, Calm' PROVE MapNext
    BY DEF MapNext
<1>1. Calm
      BY CalmBefore
<1>2. CASE kvstore_init
  <2>1. map' = map
        BY <1>1, <1>2, SameFilesSameMap, Zenon DEF kvstore_init
  <2>2. answer' = answer
        BY <1>2, Zenon DEF kvstore_init, answer
  <2>3. QED
        BY <2>1, <2>2 DEF MapNext
<1>3. CASE UNCHANGED vars
  <2>1. map' = map
        BY <1>1, <1>3, SameFilesSameMap, Zenon DEF vars
  <2>2. answer' = answer
        BY <1>3, Zenon DEF vars, answer
  <2>3. QED
        BY <2>1, <2>2 DEF MapNext
<1>4. ~Crash
      BY <1>1 DEF Crash, Fault, Calm, IInv, TypeOK
<1>5. ASSUME NEW t \in Threads, NEW op \in Ops, NEW k \in Keys, NEW v \in Values \cup {None}, Begin(t, op, k, v)
      PROVE  MapNext
      BY <1>1, <1>5, BeginIsMap DEF MapNext
<1>6. ASSUME NEW t \in Threads, PutWrite(t) PROVE MapNext
      BY <1>1, <1>6, WriteIsMap DEF MapNext
<1>7. QED
      BY <1>1, <1>2, <1>3, <1>4, <1>5, <1>6, FindIsMap, OpenIsMap, DelIsMap, FinishIsMap, CleanIsMap, Zenon DEF Next, Step

(* An empty directory is an empty map that has answered nobody.            *)
LEMMA InitIsMap == Init => Abstract!Init
<1> SUFFICES ASSUME Init PROVE Abstract!Init
    OBVIOUS
<1>1. map = [k \in Keys |-> None]
      BY Zenon DEF Init, map
<1>2. answer = [t \in Threads |-> None]
      BY DEF Init, answer, NoReq
<1>3. QED
      BY <1>1, <1>2 DEF Abstract!Init

(* For any threads, keys, values and hash function, kvstore.c implements a *)
(* map with indivisible operations, gets overlapping anything, until two   *)
(* writes to one chain overlap or a fault happens.                         *)
THEOREM StoreIsMap == Spec => IsMap
      BY InitIsMap, StepIsMap, AlwaysIInv, PTL DEF Spec, IsMap

-----------------------------------------------------------------------------
INSTANCE FiniteSetTheorems

(* The threads that are writing an entry: the holder of the write lock.    *)
LEMMA Writers ==
  IInv => LET W == {t \in Threads : pc[t] = "write"}
          IN  /\ writer = None => Cardinality(W) = 0
              /\ writer # None => Cardinality(W) = 1
<1> SUFFICES ASSUME IInv
             PROVE  /\ writer = None => Cardinality({t \in Threads : pc[t] = "write"}) = 0
                    /\ writer # None => Cardinality({t \in Threads : pc[t] = "write"}) = 1
    OBVIOUS
<1>1. writer = None => {t \in Threads : pc[t] = "write"} = {}
      BY KVStoreAssumption DEF IInv, Control
<1>2. writer # None => {t \in Threads : pc[t] = "write"} = {writer}
      BY DEF IInv, TypeOK, Control
<1>3. QED
      BY <1>1, <1>2, FS_EmptySet, FS_Singleton, Zenon

(* The empty files.                                                        *)
TornFiles == {f \in files : f.key = None}
(* There is one empty file per fault at most, besides that of the thread   *)
(* that holds the write lock.                                              *)
TornCounted ==
  /\ IsFiniteSet(TornFiles)
  /\ writer = None => Cardinality(TornFiles) <= faults
  /\ writer # None => Cardinality(TornFiles) <= faults + 1

(* A subset of a finite set is finite and no larger.                       *)
LEMMA Fewer ==
  ASSUME NEW S, IsFiniteSet(S), NEW T, T \subseteq S
  PROVE  IsFiniteSet(T) /\ Cardinality(T) <= Cardinality(S)
      BY FS_Subset, FS_CardinalityType, Zenon

(* fopen(.., "w") adds at most one empty file.                             *)
LEMMA OneMore ==
  ASSUME NEW S, IsFiniteSet(S), NEW T, NEW x, T \subseteq S \cup {x}
  PROVE  IsFiniteSet(T) /\ Cardinality(T) <= Cardinality(S) + 1
<1>1. IsFiniteSet(S \cup {x}) /\ Cardinality(S \cup {x}) <= Cardinality(S) + 1
  <2>1. Cardinality(S) \in Nat
        BY FS_CardinalityType, Zenon
  <2>2. IsFiniteSet(S \cup {x})
        BY FS_AddElement, Zenon
  <2>3. Cardinality(S \cup {x}) = Cardinality(S) \/ Cardinality(S \cup {x}) = Cardinality(S) + 1
        BY FS_AddElement, Zenon
  <2>4. QED
        BY <2>1, <2>2, <2>3
<1>2. IsFiniteSet(T) /\ Cardinality(T) <= Cardinality(S \cup {x})
      BY <1>1, Fewer, Zenon
<1>3. QED
      BY <1>1, <1>2, FS_CardinalityType

(* Writing an empty file leaves one empty file less.                       *)
LEMMA OneLess ==
  ASSUME NEW S, IsFiniteSet(S), NEW T, NEW x \in S, T \subseteq S \ {x}
  PROVE  IsFiniteSet(T) /\ Cardinality(T) <= Cardinality(S) - 1
<1>1. IsFiniteSet(S \ {x}) /\ Cardinality(S \ {x}) = Cardinality(S) - 1
      BY FS_RemoveElement, Zenon
<1>2. QED
      BY <1>1, Fewer, Zenon

(* An empty directory has no empty file.                                   *)
LEMMA InitTorn == Init => TornCounted
<1> SUFFICES ASSUME Init PROVE TornCounted
    OBVIOUS
<1>1. TornFiles = {}
      BY Zenon DEF Init, TornFiles
<1>2. QED
      BY <1>1, FS_EmptySet DEF TornCounted, Init
(* Opening a file tears at most one more entry; writing it mends it unless *)
(* the write fails; deleting moves an entry as it is; a crash frees the    *)
(* lock and counts as a fault.                                             *)
LEMMA StepTorn == IInv /\ TornCounted /\ [Next]_vars => TornCounted'
<1> SUFFICES ASSUME IInv, TornCounted, [Next]_vars PROVE TornCounted'
    OBVIOUS
<1> USE KVStoreAssumption
<1>0. /\ faults \in Nat /\ IsFiniteSet(TornFiles) /\ Cardinality(TornFiles) \in Nat
      /\ writer = None => Cardinality(TornFiles) <= faults
      /\ writer # None => Cardinality(TornFiles) <= faults + 1
      BY FS_CardinalityType DEF IInv, TypeOK, TornCounted
<1>1. ASSUME TornFiles' \subseteq TornFiles, faults' \in Nat, faults' >= faults, UNCHANGED writer
      PROVE  TornCounted'
  <2>1. IsFiniteSet(TornFiles') /\ Cardinality(TornFiles') <= Cardinality(TornFiles)
        BY <1>0, <1>1, Fewer, Zenon
  <2>2. Cardinality(TornFiles') \in Nat
        BY <2>1, FS_CardinalityType, Zenon
  <2>3. QED
        BY <1>0, <1>1, <2>1, <2>2 DEF TornCounted
<1>2. ASSUME NEW t \in Threads, PutOpen(t) PROVE TornCounted'
  <2>1. CASE Fault("open") /\ UNCHANGED <<pos, files, writer>>
    <3>1. faults' \in Nat /\ faults' >= faults
          BY <1>0, <2>1 DEF Fault
    <3>2. QED
          BY <1>1, <2>1, <3>1, Zenon DEF TornFiles
  <2>2. ASSUME NEW p \in Positions, files' = Truncated(Chain(t), p), writer = None, writer' = t,
               UNCHANGED faults
        PROVE  TornCounted'
    <3>1. TornFiles' \subseteq TornFiles \cup {Torn(Chain(t), p)}
          BY <2>2, Zenon DEF TornFiles, Truncated, Others, Torn
    <3>2. IsFiniteSet(TornFiles') /\ Cardinality(TornFiles') <= Cardinality(TornFiles) + 1
          BY <1>0, <3>1, OneMore, Zenon
    <3>3. Cardinality(TornFiles') \in Nat
          BY <3>2, FS_CardinalityType, Zenon
    <3>4. QED
          BY <1>0, <2>2, <3>2, <3>3 DEF TornCounted
  <2>3. QED
        BY <1>2, <2>1, <2>2, Zenon DEF PutOpen, Chain
<1>3. ASSUME NEW t \in Threads, PutWrite(t) PROVE TornCounted'
  <2>0. writer = t /\ writer' = None /\ Torn(Chain(t), pos[t]) \in files
        BY <1>3, Zenon DEF PutWrite, IInv, Control
  <2>1. CASE Fault("write") /\ UNCHANGED files
    <3>1. faults' = faults + 1 /\ TornFiles' = TornFiles
          BY <2>1, Zenon DEF Fault, TornFiles
    <3>2. QED
          BY <1>0, <2>0, <3>1, Zenon DEF TornCounted
  <2>2. CASE files' = Written(Chain(t), pos[t], req[t].key, req[t].val) /\ UNCHANGED faults
    <3> DEFINE x == Torn(Chain(t), pos[t])
    <3>1. x \in TornFiles /\ x.hash = Chain(t) /\ x.pos = pos[t]
          BY <2>0, Zenon DEF TornFiles, Torn
    <3>2. req[t].key # None
          BY <1>3, Zenon DEF PutWrite, IInv, Control
    <3>3. TornFiles' \subseteq TornFiles \ {x}
      <4> HIDE DEF x
      <4>1. \A f \in files' : f.key = None => f \in Others(Chain(t), pos[t])
            BY <2>2, <3>2 DEF Written
      <4>2. QED
            BY <3>1, <4>1, Zenon DEF TornFiles, Others
    <3>4. IsFiniteSet(TornFiles') /\ Cardinality(TornFiles') <= Cardinality(TornFiles) - 1
          BY <1>0, <3>1, <3>3, OneLess, Zenon
    <3>5. Cardinality(TornFiles') \in Nat
          BY <3>4, FS_CardinalityType, Zenon
    <3>6. QED
          BY <1>0, <2>0, <2>2, <3>4, <3>5 DEF TornCounted
  <2>3. QED
        BY <1>3, <2>1, <2>2 DEF PutWrite, Chain
<1>4. ASSUME NEW t \in Threads, DelUnlink(t) PROVE TornCounted'
  <2>1. PICK end \in Int : DelMoves(t, end)
        BY <1>4, DelOutcome, Zenon
  <2>2. UNCHANGED <<writer, faults>> /\ pos[t] \in Positions /\ pos[t] \in Nat
        BY <1>4, DelOutcome, Zenon
  <2> DEFINE h == Chain(t)
             p == pos[t]
             q == end - 1
  <2>3. CASE end = p + 1
    <3>1. TornFiles' \subseteq TornFiles
          BY <2>1, <2>3, Zenon DEF DelMoves, Others, TornFiles
    <3>2. QED
          BY <1>0, <1>1, <2>2, <3>1
  <2>4. CASE end # p + 1 /\ \A f \in TornFiles : ~(f.hash = h /\ f.pos = q)
    <3>1. files \subseteq Files
          BY DEF IInv, TypeOK
    <3> DEFINE Moved(f) == [f EXCEPT !.pos = p]
    <3>2. \A f \in files : Moved(f).key = f.key
          BY <3>1, Zenon DEF Files
    <3>3. \A g \in files' : g \in files \/ \E f \in files : f.hash = h /\ f.pos = q /\ g = Moved(f)
          BY <2>1, <2>4 DEF DelMoves, Renamed, Others
    <3> HIDE DEF Moved
    <3>a. TornFiles' \subseteq TornFiles
          BY <2>4, <3>2, <3>3, Zenon DEF TornFiles
    <3>4. QED
          BY <1>0, <1>1, <2>2, <3>a
  <2>5. ASSUME end # p + 1, NEW l \in TornFiles, l.hash = h, l.pos = q PROVE TornCounted'
    <3> DEFINE m == [l EXCEPT !.pos = p]
    <3>1. l \in files /\ \A f \in files : f.hash = h /\ f.pos = q => f = l
          BY <2>5, Zenon DEF IInv, DirInv, TornFiles
    <3>2. files \ Others(h, q) = {l}
          BY <2>5, <3>1 DEF Others
    <3>3. files' \subseteq (files \ {l}) \cup {m}
          BY <2>1, <2>5, <3>1, <3>2 DEF DelMoves, Renamed, Others
    <3> HIDE DEF m
    <3>4. TornFiles' \subseteq (TornFiles \ {l}) \cup {m}
          BY <3>3, Zenon DEF TornFiles
    <3>5. IsFiniteSet(TornFiles \ {l}) /\ Cardinality(TornFiles \ {l}) <= Cardinality(TornFiles) - 1
          BY <1>0, OneLess, Zenon
    <3>6. IsFiniteSet(TornFiles') /\ Cardinality(TornFiles') <= Cardinality(TornFiles \ {l}) + 1
          BY <3>4, <3>5, OneMore, Zenon
    <3>7. Cardinality(TornFiles') \in Nat /\ Cardinality(TornFiles \ {l}) \in Nat
          BY <3>5, <3>6, FS_CardinalityType, Zenon
    <3>8. QED
          BY <1>0, <2>2, <3>5, <3>6, <3>7 DEF TornCounted
  <2>6. QED
        BY <2>3, <2>4, <2>5, Zenon
<1>5. CASE Crash
  <2>1. faults' = faults + 1 /\ writer' = None /\ TornFiles' = TornFiles
        BY <1>5 DEF Crash, Fault, TornFiles
  <2>2. QED
        BY <1>0, <2>1 DEF TornCounted
<1>6. CASE kvstore_clean
  <2>1. TornFiles' \subseteq TornFiles /\ UNCHANGED <<writer, faults>>
        BY <1>6, Zenon DEF kvstore_clean, TornFiles
  <2>2. QED
        BY <1>0, <1>1, <2>1
<1>7. ASSUME NEW t \in Threads, find_entry(t) PROVE TornCounted'
  <2>1. UNCHANGED <<files, writer>>
        BY <1>7, FindOutcome, Zenon
  <2>2. faults' = faults \/ faults' = faults + 1
        BY <1>7, Zenon DEF find_entry, EntryFound, Fault
  <2>3. faults' \in Nat /\ faults' >= faults
        BY <1>0, <2>2
  <2>4. QED
        BY <1>1, <2>1, <2>3, Zenon DEF TornFiles
<1>8. ASSUME UNCHANGED <<files, writer, faults>> PROVE TornCounted'
      BY <1>0, <1>1, <1>8 DEF TornFiles
<1>9. QED
      BY <1>2, <1>3, <1>4, <1>5, <1>6, <1>7, <1>8, Zenon DEF Next, Step, Begin, Finish, kvstore_init, vars

(* For any threads, keys and values, and however writes overlap, a crash   *)
(* or a failed write tears at most the one entry that was being written.   *)
THEOREM FaultsTearOneFileEach == Spec => []OneTornFilePerFault
<1>1. TornCounted /\ IInv => OneTornFilePerFault
  <2> SUFFICES ASSUME TornCounted, IInv PROVE OneTornFilePerFault
      OBVIOUS
  <2>1. faults \in Nat
        BY DEF IInv, TypeOK
  <2>2. QED
        BY <2>1, Writers DEF TornCounted, TornFiles, OneTornFilePerFault
<1>2. Spec => []TornCounted
      BY AlwaysIInv, InitTorn, StepTorn, PTL DEF Spec
<1>3. QED
      BY <1>1, <1>2, AlwaysIInv, PTL
=============================================================================
