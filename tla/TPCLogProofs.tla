--------------------------- MODULE TPCLogProofs ---------------------------
(***************************************************************************)
(* The log of a slave, for any number of threads, messages, ids and        *)
(* crashes.  An entry that was written is never changed, overlapping and   *)
(* interrupted clears included.  Until a clear is overlapped or cut short  *)
(* the files are numbered without a gap and hold what was logged, in       *)
(* order, and an iteration returns all of it.                              *)
(***************************************************************************)
EXTENDS TPCLog, SequenceTheorems, WellFoundedInduction, FiniteSetTheorems, TLAPS

\* The write lock is held by the thread that writes or removes files.
WriterInv == \A t \in Threads : pc[t] \in {"write", "clear"} => writer = t

\* The file that a tpclog_log is going to write is there and empty.
FreshInv == \A t \in Threads :
              pc[t] = "write" => id[t] \in DOMAIN file /\ file[id[t]] = Torn

FunctionsInv ==
  /\ file = [i \in DOMAIN file |-> file[i]]
  /\ pc = [t \in Threads |-> pc[t]]
  /\ id = [t \in Threads |-> id[t]]

LogInv == FunctionsInv /\ WriterInv /\ FreshInv

\* What a step may not do to the directory.
Kept == \A i \in LogIds : file[i] # Torn => i \notin LogIds' \/ file'[i] = file[i]

-----------------------------------------------------------------------------
(* The empty directory of a new server satisfies the invariant: no thread  *)
(* is in tpclog_log or tpclog_clear_log.                                   *)
LEMMA LogInitInv == LogInit => LogInv
<1>1. LogInit => FunctionsInv
  BY DEF LogInit, FunctionsInv
<1>2. LogInit => \A t \in Threads : pc[t] = "idle"
  BY Zenon DEF LogInit
<1>3. LogInit => WriterInv /\ FreshInv
  BY <1>2, Zenon DEF WriterInv, FreshInv
<1> QED
  BY <1>1, <1>3 DEF LogInv

(* Every step of tpclog.c preserves the invariant and keeps what was       *)
(* written.  A thread writes only the file it created under the write      *)
(* lock, and nothing else touches that file until the lock is released.    *)
LEMMA LogStepKeeps == LogInv /\ [LogNext]_logVars => LogInv' /\ Kept
<1> SUFFICES ASSUME LogInv, [LogNext]_logVars
             PROVE  LogInv' /\ Kept
  OBVIOUS
<1> USE DEF LogInv, FunctionsInv, WriterInv, FreshInv, Kept, LogIds
<1>1. NoMessage \notin Threads
  BY TPCLogAssumption
<1>2. ASSUME NEW t \in Threads, NEW m \in Messages, LogOpen(t, m)
      PROVE  LogInv' /\ Kept
  <2>1. \A u \in Threads : pc[u] \notin {"write", "clear"}
    BY <1>1, <1>2 DEF LogOpen
  <2>2. CASE nextid \in LogIds
    BY <1>2, <2>1, <2>2 DEF LogOpen
  <2>3. CASE nextid \notin LogIds
    <3>1. /\ file' = [i \in LogIds \cup {nextid} |->
                        IF i = nextid THEN Torn ELSE file[i]]
          /\ writer' = t
          /\ pc' = [pc EXCEPT ![t] = "write"]
          /\ id' = [id EXCEPT ![t] = nextid]
      BY <1>2, <2>3 DEF LogOpen
    <3>2. FunctionsInv' /\ Kept
      BY <2>3, <3>1, Zenon
    <3>3. WriterInv' /\ FreshInv'
      BY <2>1, <3>1
    <3> QED
      BY <3>2, <3>3
  <2> QED
    BY <2>2, <2>3
<1>3. ASSUME NEW t \in Threads, LogWrite(t)
      PROVE  LogInv' /\ Kept
  <2>1. \A u \in Threads \ {t} : pc[u] \notin {"write", "clear"}
    BY <1>3 DEF LogWrite
  <2>2. /\ file' = [file EXCEPT ![id[t]] = msg[t]] /\ file[id[t]] = Torn
        /\ pc' = [pc EXCEPT ![t] = "idle"]
        /\ id' = [id EXCEPT ![t] = 0]
    BY <1>3 DEF LogWrite
  <2>3. FunctionsInv' /\ Kept
    BY <2>2, Zenon
  <2> QED
    BY <2>1, <2>2, <2>3
<1>4. ASSUME NEW t \in Threads, LogFails(t)
      PROVE  LogInv' /\ Kept
  BY <1>4, Zenon DEF LogFails
<1>5. ASSUME NEW t \in Threads, ClearLock(t)
      PROVE  LogInv' /\ Kept
  BY <1>1, <1>5 DEF ClearLock
<1>6. ASSUME NEW t \in Threads, ClearRemove(t)
      PROVE  LogInv' /\ Kept
  <2>1. \A u \in Threads \ {t} : pc[u] \notin {"write", "clear"}
    BY <1>6 DEF ClearRemove
  <2>2. pc[t] = "clear"
    BY <1>6 DEF ClearRemove
  <2>3. CASE id[t] \in LogIds
    <3>1. /\ file' = [i \in LogIds \ {id[t]} |-> file[i]]
          /\ id' = [id EXCEPT ![t] = @ + 1]
          /\ writer' = writer /\ pc' = pc
      BY <1>6, <2>3 DEF ClearRemove
    <3> QED
      BY <2>1, <2>2, <3>1
  <2>4. CASE id[t] \notin LogIds
    BY <1>6, <2>1, <2>4 DEF ClearRemove
  <2> QED
    BY <2>3, <2>4
<1>7. ASSUME NEW t \in Threads, ClearReset(t)
      PROVE  LogInv' /\ Kept
  BY <1>7 DEF ClearReset
<1>8. ASSUME NEW t \in Threads, iterate_begin(t) \/ iterate_next(t) \/ iterate_end(t)
      PROVE  LogInv' /\ Kept
  BY <1>8 DEF iterate_begin, iterate_next, iterate_end
<1>9. CASE Crash
  BY <1>9 DEF Crash
<1>10. CASE UNCHANGED logVars
  BY <1>10 DEF logVars
<1> QED
  BY <1>2, <1>3, <1>4, <1>5, <1>6, <1>7, <1>8, <1>9, <1>10 DEF LogNext

-----------------------------------------------------------------------------
(* tpclog_log never writes to a file that holds an entry: what it opens it *)
(* has just created, and only the holder of the write lock writes, also    *)
(* when nextid was reset without the lock or a crash cut a clear short.    *)
THEOREM EntriesNeverOverwritten == LogSpec => EntriesImmutable
<1>1. LogInv /\ [LogNext]_logVars =>
        LogInv' /\ [\A i \in LogIds :
                    file[i] # Torn => i \notin LogIds' \/ file'[i] = file[i]]_logVars
  BY LogStepKeeps DEF Kept
<1> QED
  BY <1>1, LogInitInv, PTL DEF LogSpec, EntriesImmutable

-----------------------------------------------------------------------------
(* The log in order *)

\* An idle thread has no file; one that writes has a message.
ThreadsInv ==
  \A t \in Threads : /\ pc[t] \in {"idle", "reset"} => id[t] = 0
                     /\ pc[t] = "write" => msg[t] \in Messages

\* logged is what the files hold.
InOrder == /\ Len(logged) = Cardinality(Readable)
           /\ \A i \in Readable : logged[Place(i)] = file[i]

\* The number of entries an iteration has passed.
Passed == Cardinality({j \in Readable : j < iterpos})

\* A clear has the log for itself.
ClearInv ==
  \A t \in Threads :
    /\ pc[t] \in {"clear", "reset"} => /\ iter = NoMessage /\ logged = <<>>
                                       /\ \A u \in Threads \ {t} : pc[u] = "idle"
    /\ pc[t] = "clear" => LogIds = id[t] .. nextid - 1
    /\ pc[t] = "reset" => LogIds = {}

\* An iteration has returned the entries it has passed.
IterInv ==
  iter # NoMessage => /\ iterpos <= nextid /\ atBegin <= Len(logged)
                      /\ got = SubSeq(logged, 1, Passed)
                      /\ \A t \in Threads : pc[t] = "write" => iterpos <= id[t]

CalmInv ==
  calm => /\ ~refused
          /\ ~Clearing => LogIds = 0 .. nextid - 1 /\ InOrder
          /\ \A t \in Threads : pc[t] = "write" => id[t] = nextid - 1
          /\ ClearInv /\ IterInv

\* A non-empty set of naturals has a least element.
LEMMA LeastNatural ==
  ASSUME NEW T \in SUBSET Nat, T # {}
  PROVE  \E x \in T : \A y \in T : x <= y
  <1> DEFINE R == {ss \in Nat \X Nat : ss[1] < ss[2]}
  <1>1. IsWellFoundedOn(R, Nat)
    BY NatLessThanWellFounded DEF OpToRel
  <1>2. PICK x \in T : \A y \in T : <<y, x>> \notin R
    <2> HIDE DEF R
    <2> QED BY <1>1, WFMin, Zenon
  <1>3. \A y \in T : ~(y < x)
    BY <1>2, Zenon
  <1> QED BY <1>3

\* Where the loop of tpclog_init stops.
LEMMA FirstFreeFacts ==
  ASSUME LogIds \subseteq 0..MaxId
  PROVE  FirstFree \in 0..MaxId + 1 /\ FirstFree \notin LogIds
         /\ \A j \in 0..FirstFree - 1 : j \in LogIds
  <1> DEFINE T == {i \in Nat : i \notin LogIds}
             P(i) == i \notin LogIds /\ \A j \in 0..i : j = i \/ j \in LogIds
  <1>1. MaxId \in Nat
    BY TPCLogAssumption
  <1>2. T \in SUBSET Nat /\ MaxId + 1 \in T
    BY <1>1
  <1>3. PICK x \in T : \A y \in T : x <= y
    BY <1>2, LeastNatural, Zenon
  <1>4. x \in 0..MaxId + 1 /\ P(x)
    BY <1>1, <1>2, <1>3
  <1>5. FirstFree \in 0..MaxId + 1 /\ P(FirstFree)
    BY <1>4, Zenon DEF FirstFree
  <1> QED BY <1>1, <1>5

\* The types, and what an idle or a writing thread has.
LEMMA LogTypesInit == LogInit => LogTypeOK /\ ThreadsInv
<1> SUFFICES ASSUME LogInit PROVE LogTypeOK /\ ThreadsInv
  OBVIOUS
<1>1. MaxId \in Nat /\ MaxCrashes \in Nat
  BY TPCLogAssumption
<1>2. LogIds = {} /\ got \in Seq(Messages) /\ logged \in Seq(Messages)
  BY DEF LogInit, LogIds
<1>3. /\ pc \in [Threads -> {"idle", "write", "clear", "reset"}]
      /\ id \in [Threads -> 0..MaxId + 1] /\ msg \in [Threads -> Messages \cup {NoMessage}]
      /\ \A t \in Threads : pc[t] = "idle" /\ id[t] = 0
  BY <1>1 DEF LogInit
<1>4. /\ nextid = 0 /\ iterpos = 0 /\ writer = NoMessage /\ iter = NoMessage /\ atBegin = 0
      /\ refused = FALSE /\ crashes = 0 /\ calm = TRUE
  BY DEF LogInit
<1>5. ThreadsInv
  BY <1>3 DEF ThreadsInv
<1>6. refused \in BOOLEAN /\ calm \in BOOLEAN
  BY <1>4
<1>7. nextid \in 0..MaxId + 1 /\ iterpos \in 0..MaxId + 1 /\ crashes \in 0..MaxCrashes /\ atBegin \in Nat
  BY <1>1, <1>4
<1> QED
  BY <1>2, <1>3, <1>4, <1>5, <1>6, <1>7, Zenon DEF LogTypeOK

(* Every step of tpclog.c keeps the types; a thread that writes has a      *)
(* message, and one that is idle has no file.                              *)
LEMMA LogTypesKept ==
  LogTypeOK /\ ThreadsInv /\ [LogNext]_logVars => LogTypeOK' /\ ThreadsInv'
<1> SUFFICES ASSUME LogTypeOK, ThreadsInv, [LogNext]_logVars PROVE LogTypeOK' /\ ThreadsInv'
  OBVIOUS
<1> USE DEF LogTypeOK, ThreadsInv, LogIds
<1>1. MaxId \in Nat /\ MaxCrashes \in Nat
  BY TPCLogAssumption
<1>2. ASSUME NEW t \in Threads, NEW m \in Messages, LogOpen(t, m) PROVE LogTypeOK' /\ ThreadsInv'
  <2>1. CASE nextid \in LogIds
    BY <1>1, <1>2, <2>1 DEF LogOpen, iterVars
  <2>2. CASE nextid \notin LogIds
    <3>1. /\ file' = [i \in LogIds \cup {nextid} |-> IF i = nextid THEN Torn ELSE file[i]]
          /\ nextid <= MaxId /\ nextid' = nextid + 1 /\ writer' = t
          /\ pc' = [pc EXCEPT ![t] = "write"] /\ id' = [id EXCEPT ![t] = nextid]
          /\ msg' = [msg EXCEPT ![t] = m] /\ calm' = (calm /\ ~Clearing)
          /\ UNCHANGED <<iterpos, iter, got, atBegin, refused, logged, crashes>>
      BY <1>2, <2>2 DEF LogOpen, iterVars
    <3>2. LogIds' \subseteq 0..MaxId /\ \A i \in LogIds' : file'[i] \in Messages \cup {Torn}
      BY <1>1, <3>1
    <3>3. /\ pc' \in [Threads -> {"idle", "write", "clear", "reset"}]
          /\ id' \in [Threads -> 0..MaxId + 1] /\ msg' \in [Threads -> Messages \cup {NoMessage}]
          /\ nextid' \in 0..MaxId + 1
      BY <1>1, <3>1
    <3>4. calm' \in BOOLEAN
      BY <3>1
    <3>5. ThreadsInv'
      BY <3>1
    <3> QED
      BY <3>1, <3>2, <3>3, <3>4, <3>5
  <2> QED
    BY <2>1, <2>2
<1>3. ASSUME NEW t \in Threads, LogWrite(t) PROVE LogTypeOK' /\ ThreadsInv'
  BY <1>1, <1>3 DEF LogWrite, iterVars
<1>4. ASSUME NEW t \in Threads, LogFails(t) PROVE LogTypeOK' /\ ThreadsInv'
  BY <1>1, <1>4 DEF LogFails, iterVars
<1>5. ASSUME NEW t \in Threads, ClearLock(t) PROVE LogTypeOK' /\ ThreadsInv'
  BY <1>1, <1>5 DEF ClearLock, iterVars
<1>6. ASSUME NEW t \in Threads, ClearRemove(t) PROVE LogTypeOK' /\ ThreadsInv'
  <2>1. CASE id[t] \in LogIds
    <3>1. /\ file' = [i \in LogIds \ {id[t]} |-> file[i]] /\ id' = [id EXCEPT ![t] = @ + 1]
          /\ pc[t] = "clear"
          /\ UNCHANGED <<writer, pc, nextid, iterpos, iter, got, atBegin, msg, logged, refused,
                         crashes, calm>>
      BY <1>6, <2>1 DEF ClearRemove, iterVars
    <3>2. LogIds' \subseteq 0..MaxId /\ \A i \in LogIds' : file'[i] \in Messages \cup {Torn}
      BY <3>1
    <3>3. id' \in [Threads -> 0..MaxId + 1]
      BY <1>1, <2>1, <3>1
    <3>4. ThreadsInv'
      BY <3>1
    <3> QED
      BY <3>1, <3>2, <3>3, <3>4
  <2>2. CASE id[t] \notin LogIds
    <3>1. /\ writer' = NoMessage /\ pc' = [pc EXCEPT ![t] = "reset"] /\ id' = [id EXCEPT ![t] = 0]
          /\ pc[t] = "clear"
          /\ UNCHANGED <<file, nextid, iterpos, iter, got, atBegin, msg, logged, refused,
                         crashes, calm>>
      BY <1>6, <2>2 DEF ClearRemove, iterVars
    <3>2. /\ id' \in [Threads -> 0..MaxId + 1]
          /\ pc' \in [Threads -> {"idle", "write", "clear", "reset"}]
      BY <1>1, <3>1
    <3>3. ThreadsInv'
      BY <3>1
    <3> QED
      BY <3>1, <3>2, <3>3
  <2> QED
    BY <2>1, <2>2
<1>7. ASSUME NEW t \in Threads, ClearReset(t) PROVE LogTypeOK' /\ ThreadsInv'
  BY <1>1, <1>7 DEF ClearReset, iterVars
<1>8. ASSUME NEW t \in Threads, iterate_begin(t) PROVE LogTypeOK' /\ ThreadsInv'
  BY <1>1, <1>8 DEF iterate_begin
<1>9. ASSUME NEW t \in Threads, iterate_next(t) PROVE LogTypeOK' /\ ThreadsInv'
  BY <1>1, <1>9 DEF iterate_next
<1>10. ASSUME NEW t \in Threads, iterate_end(t) PROVE LogTypeOK' /\ ThreadsInv'
  BY <1>1, <1>10 DEF iterate_end
<1>11. CASE Crash
  BY <1>1, <1>11, FirstFreeFacts DEF Crash
<1>12. CASE UNCHANGED logVars
  BY <1>12 DEF logVars
<1> QED
  BY <1>2, <1>3, <1>4, <1>5, <1>6, <1>7, <1>8, <1>9, <1>10, <1>11, <1>12 DEF LogNext

-----------------------------------------------------------------------------
(* The entries in the directory, counted *)

\* The readable files are finitely many.
LEMMA ReadableFinite ==
  ASSUME LogIds \subseteq 0..MaxId
  PROVE  /\ Readable \subseteq Nat
         /\ \A S \in SUBSET Readable :
              IsFiniteSet(S) /\ Cardinality(S) \in Nat /\ Cardinality(S) <= Cardinality(Readable)
<1>1. IsFiniteSet(0..MaxId)
  BY TPCLogAssumption, FS_Interval
<1>2. Readable \in SUBSET (0..MaxId)
  BY DEF Readable
<1>3. IsFiniteSet(Readable)
  BY <1>1, <1>2, FS_Subset
<1>4. Readable \subseteq Nat
  BY <1>2
<1> QED
  BY <1>3, <1>4, FS_Subset, FS_CardinalityType, Zenon

\* The place of an entry is one of the places.
LEMMA PlaceInside ==
  ASSUME LogIds \subseteq 0..MaxId, NEW i \in Readable
  PROVE  Place(i) \in 1..Cardinality(Readable)
<1> DEFINE S == {j \in Readable : j <= i}
<1>1. i \in S /\ S \in SUBSET Readable
  BY ReadableFinite
<1>2. IsFiniteSet(S) /\ Cardinality(S) \in Nat /\ Cardinality(S) <= Cardinality(Readable)
  BY <1>1, ReadableFinite, Zenon
<1>3. Cardinality(S) # 0
  BY <1>1, <1>2, FS_EmptySet, Zenon
<1>4. Cardinality(Readable) \in Nat
  BY ReadableFinite, Zenon
<1> HIDE DEF S
<1>5. Cardinality(S) \in 1..Cardinality(Readable)
  BY <1>2, <1>3, <1>4
<1> QED
  BY <1>5, Zenon DEF S, Place

\* A number above all of a set of them goes to its end.
LEMMA AddLast ==
  ASSUME NEW R \in SUBSET Nat, NEW x \in Nat, IsFiniteSet(R), \A j \in R : j < x
  PROVE  /\ Cardinality(R \cup {x}) = Cardinality(R) + 1
         /\ \A i \in R : {j \in R \cup {x} : j <= i} = {j \in R : j <= i}
         /\ {j \in R \cup {x} : j <= x} = R \cup {x}
         /\ \A n \in Nat : n <= x => {j \in R \cup {x} : j < n} = {j \in R : j < n}
<1>1. x \notin R
  OBVIOUS
<1>2. Cardinality(R \cup {x}) = Cardinality(R) + 1
  BY <1>1, FS_AddElement, Zenon
<1>3. ASSUME NEW i \in R PROVE {j \in R \cup {x} : j <= i} = {j \in R : j <= i}
  <2>1. ~(x <= i)
    OBVIOUS
  <2> QED
    BY <2>1, Zenon
<1>4. {j \in R \cup {x} : j <= x} = R \cup {x}
  <2>1. \A j \in R \cup {x} : j <= x
    OBVIOUS
  <2> QED
    BY <2>1, Zenon
<1>5. \A n \in Nat : n <= x => {j \in R \cup {x} : j < n} = {j \in R : j < n}
  OBVIOUS
<1> QED
  BY <1>2, <1>3, <1>4, <1>5

\* A step that leaves the readable entries alone.
LEMMA SameEntries ==
  ASSUME Readable' = Readable, \A i \in Readable : file'[i] = file[i], logged' = logged
  PROVE  /\ InOrder' <=> InOrder
         /\ iterpos' = iterpos => Passed' = Passed
<1>1. \A i : Place(i)' = Place(i)
  BY Zenon DEF Place
<1> QED
  BY <1>1, Zenon DEF InOrder, Passed

-----------------------------------------------------------------------------
(* tpclog_log *)

\* tpclog_log makes a new file after the others.
LEMMA OpenCalm ==
  ASSUME LogTypeOK, WriterInv, CalmInv, NEW t \in Threads, NEW m \in Messages, LogOpen(t, m)
  PROVE  CalmInv'
<1> SUFFICES ASSUME calm' PROVE CalmInv'
  BY DEF CalmInv
<1>1. /\ calm /\ ~Clearing /\ pc[t] = "idle" /\ writer = NoMessage
      /\ UNCHANGED <<iterpos, iter, got, atBegin, logged>>
  BY DEF LogOpen, iterVars
<1>2. /\ LogIds = 0 .. nextid - 1 /\ InOrder /\ ~refused /\ IterInv
      /\ nextid \in Nat /\ iterpos \in Nat
  BY <1>1 DEF CalmInv, LogTypeOK
<1>3. nextid \notin LogIds
  BY <1>2
<1>4. /\ file' = [i \in LogIds \cup {nextid} |-> IF i = nextid THEN Torn ELSE file[i]]
      /\ nextid' = nextid + 1 /\ pc' = [pc EXCEPT ![t] = "write"]
      /\ id' = [id EXCEPT ![t] = nextid] /\ refused' = refused
  BY <1>3 DEF LogOpen
<1>5. \A u \in Threads : pc[u] \in {"idle"}
  BY <1>1, TPCLogAssumption DEF LogTypeOK, WriterInv, Clearing
<1>6. pc'[t] = "write" /\ id'[t] = nextid /\ \A u \in Threads \ {t} : pc'[u] = "idle"
  BY <1>4, <1>5 DEF LogTypeOK
<1>7. LogIds' = 0 .. nextid' - 1
  BY <1>2, <1>4 DEF LogIds
<1>8. Readable' = Readable /\ \A i \in Readable : file'[i] = file[i]
  BY <1>3, <1>4 DEF Readable, LogIds
<1>9. InOrder' /\ Passed' = Passed
  BY <1>1, <1>2, <1>8, SameEntries
<1>10. ClearInv'
  BY <1>6 DEF ClearInv
<1>11. IterInv'
  BY <1>1, <1>2, <1>4, <1>6, <1>9 DEF IterInv
<1>12. \A u \in Threads : pc'[u] = "write" => id'[u] = nextid' - 1
  BY <1>2, <1>4, <1>6
<1> QED
  BY <1>2, <1>4, <1>7, <1>9, <1>10, <1>11, <1>12 DEF CalmInv

\* tpclog_log ends: its file is the last, and holds the last entry.
LEMMA WriteCalm ==
  ASSUME LogTypeOK, ThreadsInv, WriterInv, FreshInv, CalmInv, NEW t \in Threads, LogWrite(t)
  PROVE  CalmInv'
<1> SUFFICES ASSUME calm' PROVE CalmInv'
  BY DEF CalmInv
<1>0. PICK x : x = id[t]
  OBVIOUS
<1>1. /\ calm /\ pc[t] = "write" /\ file' = [file EXCEPT ![x] = msg[t]]
      /\ logged' = Append(logged, msg[t]) /\ pc' = [pc EXCEPT ![t] = "idle"]
      /\ id' = [id EXCEPT ![t] = 0]
      /\ UNCHANGED <<nextid, iterpos, iter, got, atBegin, refused>>
  BY <1>0 DEF LogWrite, iterVars
<1>2. /\ \A u \in Threads \ {t} : pc[u] \notin {"write", "clear"}
      /\ pc \in [Threads -> {"idle", "write", "clear", "reset"}]
  BY <1>1 DEF WriterInv, LogTypeOK
<1>3. \A u \in Threads : pc[u] # "reset"
  BY <1>1 DEF CalmInv, ClearInv
<1>4. ~Clearing /\ \A u \in Threads : pc'[u] = "idle"
  BY <1>1, <1>2, <1>3 DEF Clearing
<1>5. /\ LogIds = 0 .. nextid - 1 /\ InOrder /\ ~refused /\ IterInv /\ nextid \in Nat
      /\ x = nextid - 1 /\ x \in LogIds /\ file[x] = Torn /\ msg[t] \in Messages
      /\ logged \in Seq(Messages) /\ LogIds \subseteq 0..MaxId /\ iterpos \in Nat
  BY <1>0, <1>1, <1>4 DEF CalmInv, LogTypeOK, FreshInv, ThreadsInv, LogIds
<1>6. msg[t] # Torn /\ x \in Nat
  BY <1>5, TPCLogAssumption
<1>7. LogIds' = LogIds /\ \A i \in LogIds : file'[i] = IF i = x THEN msg[t] ELSE file[i]
  BY <1>1, <1>5 DEF LogIds
<1>8. /\ Readable' = Readable \cup {x} /\ \A i \in Readable : i # x /\ file'[i] = file[i]
      /\ file'[x] = msg[t]
  BY <1>5, <1>6, <1>7 DEF Readable
<1>9. Readable \in SUBSET Nat /\ IsFiniteSet(Readable) /\ Cardinality(Readable) \in Nat
  BY <1>5, ReadableFinite
<1>10. \A j \in Readable : j < x
  BY <1>5, <1>8 DEF Readable
<1>11. /\ Cardinality(Readable \cup {x}) = Cardinality(Readable) + 1
       /\ \A i \in Readable : {j \in Readable \cup {x} : j <= i} = {j \in Readable : j <= i}
       /\ {j \in Readable \cup {x} : j <= x} = Readable \cup {x}
       /\ \A n \in Nat : n <= x =>
            {j \in Readable \cup {x} : j < n} = {j \in Readable : j < n}
  BY <1>6, <1>9, <1>10, AddLast, Zenon
<1>12. /\ \A i \in Readable : Place(i)' = Place(i)
       /\ Place(x)' = Cardinality(Readable) + 1
  BY <1>8, <1>11, Zenon DEF Place
<1>13. iterpos <= x => Passed' = Passed
  <2>1. iterpos' = iterpos
    BY <1>1
  <2> QED
    BY <1>5, <1>8, <1>11, <2>1, Zenon DEF Passed
<1>14. /\ Len(logged) = Cardinality(Readable) /\ logged' \in Seq(Messages)
       /\ Len(logged') = Cardinality(Readable) + 1
       /\ logged'[Cardinality(Readable) + 1] = msg[t]
       /\ \A i \in 1..Cardinality(Readable) : logged'[i] = logged[i]
  BY <1>1, <1>5, <1>9 DEF InOrder
<1>15. InOrder'
  <2>1. \A i \in Readable : Place(i) \in 1..Cardinality(Readable) /\ logged[Place(i)] = file[i]
    BY <1>5, PlaceInside DEF InOrder
  <2>2. \A i \in Readable : logged'[Place(i)'] = file'[i]
    BY <1>8, <1>12, <1>14, <2>1
  <2>3. logged'[Place(x)'] = file'[x]
    BY <1>8, <1>12, <1>14
  <2> QED
    BY <1>8, <1>11, <1>14, <2>2, <2>3, Zenon DEF InOrder
<1>16. ClearInv'
  BY <1>4 DEF ClearInv
<1>17. IterInv'
  <2>1. CASE iter # NoMessage
    <3>1. /\ iterpos <= nextid /\ atBegin <= Len(logged) /\ got = SubSeq(logged, 1, Passed)
          /\ iterpos <= x
      BY <1>0, <1>1, <1>5, <2>1 DEF IterInv
    <3>2. Passed \in Nat /\ Passed <= Len(logged) /\ Passed' = Passed
      <4>1. {j \in Readable : j < iterpos} \in SUBSET Readable
        OBVIOUS
      <4> QED
        BY <1>5, <1>13, <1>14, <3>1, <4>1, ReadableFinite DEF Passed
    <3>3. SubSeq(logged', 1, Passed) = SubSeq(logged, 1, Passed)
      BY <1>1, <1>5, <3>2
    <3>4. atBegin' <= Len(logged')
      BY <1>1, <1>5, <1>9, <1>14, <3>1 DEF LogTypeOK
    <3> QED
      BY <1>1, <1>4, <3>1, <3>2, <3>3, <3>4 DEF IterInv
  <2>2. CASE iter = NoMessage
    BY <1>1, <2>2 DEF IterInv
  <2> QED
    BY <2>1, <2>2
<1>18. LogIds' = 0 .. nextid' - 1 /\ ~refused'
  BY <1>1, <1>5, <1>7
<1> QED
  BY <1>4, <1>15, <1>16, <1>17, <1>18 DEF CalmInv

\* tpclog_log fails, and leaves a file that cannot be loaded.
LEMMA FailsCalm ==
  ASSUME LogTypeOK, WriterInv, CalmInv, NEW t \in Threads, LogFails(t)
  PROVE  CalmInv'
<1> SUFFICES ASSUME calm' PROVE CalmInv'
  BY DEF CalmInv
<1>1. /\ calm /\ pc[t] = "write" /\ pc' = [pc EXCEPT ![t] = "idle"]
      /\ UNCHANGED <<file, logged, nextid, iterpos, iter, got, atBegin, refused>>
  BY DEF LogFails, iterVars
<1>2. /\ \A u \in Threads \ {t} : pc[u] \notin {"write", "clear"}
      /\ pc \in [Threads -> {"idle", "write", "clear", "reset"}]
  BY <1>1 DEF WriterInv, LogTypeOK
<1>3. \A u \in Threads : pc[u] # "reset"
  BY <1>1 DEF CalmInv, ClearInv
<1>4. ~Clearing /\ \A u \in Threads : pc'[u] = "idle"
  BY <1>1, <1>2, <1>3 DEF Clearing
<1>5. LogIds = 0 .. nextid - 1 /\ InOrder /\ ~refused /\ IterInv
  BY <1>1, <1>4 DEF CalmInv
<1>6. LogIds' = LogIds /\ Readable' = Readable /\ \A i \in Readable : file'[i] = file[i]
  BY <1>1 DEF LogIds, Readable
<1>7. InOrder' /\ Passed' = Passed
  BY <1>1, <1>5, <1>6, SameEntries
<1>8. ClearInv'
  BY <1>4 DEF ClearInv
<1>9. IterInv'
  BY <1>1, <1>4, <1>5, <1>7 DEF IterInv
<1> QED
  BY <1>1, <1>4, <1>5, <1>6, <1>7, <1>8, <1>9 DEF CalmInv

-----------------------------------------------------------------------------
(* tpclog_clear_log *)

\* tpclog_clear_log takes the lock, with nobody else in a call.
LEMMA LockCalm ==
  ASSUME LogTypeOK, ThreadsInv, CalmInv, NEW t \in Threads, ClearLock(t)
  PROVE  CalmInv'
<1> SUFFICES ASSUME calm' PROVE CalmInv'
  BY DEF CalmInv
<1>1. /\ calm /\ iter = NoMessage /\ (\A u \in Threads : pc[u] = "idle")
      /\ pc' = [pc EXCEPT ![t] = "clear"] /\ logged' = <<>>
      /\ UNCHANGED <<file, nextid, iter, id, refused>>
  BY DEF ClearLock, iterVars
<1>2. pc'[t] = "clear" /\ \A u \in Threads \ {t} : pc'[u] = "idle"
  BY <1>1 DEF LogTypeOK
<1>3. LogIds = 0 .. nextid - 1 /\ ~refused /\ id[t] = 0
  BY <1>1 DEF CalmInv, Clearing, ThreadsInv
<1>4. LogIds' = LogIds
  BY <1>1 DEF LogIds
<1>5. ClearInv' /\ IterInv'
  BY <1>1, <1>2, <1>3, <1>4 DEF ClearInv, IterInv
<1>6. Clearing'
  BY <1>2 DEF Clearing
<1> QED
  BY <1>1, <1>2, <1>3, <1>5, <1>6 DEF CalmInv

\* It removes the first file that is left, or finds that none is.
LEMMA RemoveCalm ==
  ASSUME LogTypeOK, CalmInv, NEW t \in Threads, ClearRemove(t)
  PROVE  CalmInv'
<1> SUFFICES ASSUME calm' PROVE CalmInv'
  BY DEF CalmInv
<1>1. /\ calm /\ pc[t] = "clear"
      /\ UNCHANGED <<nextid, iterpos, iter, got, atBegin, logged, refused>>
  BY DEF ClearRemove, iterVars
<1>2. /\ iter = NoMessage /\ logged = <<>> /\ (\A u \in Threads \ {t} : pc[u] = "idle")
      /\ LogIds = id[t] .. nextid - 1 /\ ~refused
      /\ nextid \in Nat /\ id \in [Threads -> 0..MaxId + 1] /\ id[t] \in Nat
      /\ pc \in [Threads -> {"idle", "write", "clear", "reset"}]
  BY <1>1, TPCLogAssumption DEF CalmInv, ClearInv, LogTypeOK
<1>3. IterInv'
  BY <1>1, <1>2 DEF IterInv
<1>4. CASE id[t] \in LogIds
  <2>1. /\ file' = [i \in LogIds \ {id[t]} |-> file[i]] /\ id' = [id EXCEPT ![t] = @ + 1]
        /\ pc' = pc
    BY <1>4 DEF ClearRemove
  <2>2. LogIds' = id'[t] .. nextid' - 1
    BY <1>1, <1>2, <1>4, <2>1 DEF LogIds
  <2>3. ClearInv' /\ Clearing'
    BY <1>1, <1>2, <2>1, <2>2 DEF ClearInv, Clearing
  <2> QED
    BY <1>1, <1>2, <1>3, <2>1, <2>3 DEF CalmInv
<1>5. CASE id[t] \notin LogIds
  <2>1. file' = file /\ pc' = [pc EXCEPT ![t] = "reset"]
    BY <1>5 DEF ClearRemove
  <2>2. LogIds' = {}
    BY <1>1, <1>2, <1>5, <2>1 DEF LogIds
  <2>3. pc'[t] = "reset" /\ \A u \in Threads \ {t} : pc'[u] = "idle"
    BY <1>2, <2>1
  <2>4. ClearInv' /\ Clearing'
    BY <1>1, <1>2, <2>2, <2>3 DEF ClearInv, Clearing
  <2> QED
    BY <1>1, <1>2, <1>3, <2>3, <2>4 DEF CalmInv
<1> QED
  BY <1>4, <1>5

\* nextid is reset, and the log is empty.
LEMMA ResetCalm ==
  ASSUME LogTypeOK, CalmInv, NEW t \in Threads, ClearReset(t)
  PROVE  CalmInv'
<1> SUFFICES ASSUME calm' PROVE CalmInv'
  BY DEF CalmInv
<1>1. /\ calm /\ pc[t] = "reset" /\ nextid' = 0 /\ pc' = [pc EXCEPT ![t] = "idle"]
      /\ UNCHANGED <<file, iter, logged, refused>>
  BY DEF ClearReset, iterVars
<1>2. /\ iter = NoMessage /\ logged = <<>> /\ (\A u \in Threads \ {t} : pc[u] = "idle")
      /\ LogIds = {} /\ ~refused
  BY <1>1 DEF CalmInv, ClearInv
<1>3. \A u \in Threads : pc'[u] = "idle"
  BY <1>1, <1>2 DEF LogTypeOK
<1>4. LogIds' = {} /\ LogIds' = 0 .. nextid' - 1
  BY <1>1, <1>2 DEF LogIds
<1>5. Readable' = {} /\ Cardinality({}) = 0 /\ Len(logged') = 0
  BY <1>1, <1>2, <1>4, FS_EmptySet DEF Readable
<1>6. InOrder'
  BY <1>5 DEF InOrder
<1>7. ClearInv' /\ IterInv'
  BY <1>1, <1>2, <1>3 DEF ClearInv, IterInv
<1> QED
  BY <1>1, <1>2, <1>3, <1>4, <1>6, <1>7 DEF CalmInv

-----------------------------------------------------------------------------
(* The iterator, and a crash *)

\* tpclog_iterate_begin
LEMMA BeginCalm ==
  ASSUME LogTypeOK, CalmInv, NEW t \in Threads, iterate_begin(t)
  PROVE  CalmInv'
<1> SUFFICES ASSUME calm' PROVE CalmInv'
  BY DEF CalmInv
<1>1. /\ calm /\ ~Clearing /\ iterpos' = 0 /\ got' = <<>> /\ atBegin' = Len(logged)
      /\ UNCHANGED <<file, nextid, pc, id, logged, refused>>
  BY DEF iterate_begin
<1>2. /\ LogIds = 0 .. nextid - 1 /\ InOrder /\ ~refused
      /\ \A u \in Threads : pc[u] = "write" => id[u] = nextid - 1
  BY <1>1 DEF CalmInv
<1>3. LogIds' = LogIds /\ Readable' = Readable /\ \A i \in Readable : file'[i] = file[i]
  BY <1>1 DEF LogIds, Readable
<1>4. InOrder'
  BY <1>1, <1>2, <1>3, SameEntries
<1>5. Passed' = 0
  <2>1. {j \in Readable' : j < iterpos'} = {}
    BY <1>1, <1>3, ReadableFinite DEF LogTypeOK
  <2> QED
    BY <2>1, FS_EmptySet, Zenon DEF Passed
<1>6. ~Clearing' /\ ClearInv'
  BY <1>1 DEF Clearing, ClearInv
<1>7. /\ nextid \in Nat /\ id \in [Threads -> 0..MaxId + 1] /\ logged \in Seq(Messages)
      /\ MaxId \in Nat
  BY TPCLogAssumption DEF LogTypeOK
<1>8. IterInv'
  BY <1>1, <1>5, <1>7 DEF IterInv
<1> QED
  BY <1>1, <1>2, <1>3, <1>4, <1>6, <1>8 DEF CalmInv

\* The first entries of a list, and one more.
LEMMA OneMore ==
  ASSUME NEW S, NEW s \in Seq(S), NEW n \in Nat, n + 1 <= Len(s)
  PROVE  Append(SubSeq(s, 1, n), s[n + 1]) = SubSeq(s, 1, n + 1)
  OBVIOUS

\* tpclog_iterate_next returns the entry after those it has passed.
LEMMA NextCalm ==
  ASSUME LogTypeOK, WriterInv, CalmInv, NEW t \in Threads, iterate_next(t)
  PROVE  CalmInv'
<1> SUFFICES ASSUME calm' PROVE CalmInv'
  BY DEF CalmInv
<1>0. PICK x : x = iterpos
  OBVIOUS
<1>1. /\ calm /\ iter = t /\ writer = NoMessage /\ x \in LogIds /\ iterpos' = x + 1
      /\ got' = IF file[x] = Torn THEN got ELSE Append(got, file[x])
      /\ UNCHANGED <<file, nextid, pc, id, iter, atBegin, logged, refused>>
  BY <1>0 DEF iterate_next
<1>2. iter # NoMessage
  BY <1>1, TPCLogAssumption
<1>3. ~Clearing /\ \A u \in Threads : pc[u] # "write"
  BY <1>1, <1>2, TPCLogAssumption DEF CalmInv, ClearInv, Clearing, WriterInv
<1>4. /\ LogIds = 0 .. nextid - 1 /\ InOrder /\ ~refused /\ nextid \in Nat
      /\ atBegin <= Len(logged) /\ got = SubSeq(logged, 1, Passed)
      /\ logged \in Seq(Messages) /\ LogIds \subseteq 0..MaxId
  BY <1>1, <1>2, <1>3 DEF CalmInv, IterInv, LogTypeOK
<1>5. LogIds' = LogIds /\ Readable' = Readable /\ \A i \in Readable : file'[i] = file[i]
  BY <1>1 DEF LogIds, Readable
<1>6. InOrder'
  BY <1>1, <1>4, <1>5, SameEntries
<1>7. ~Clearing' /\ ClearInv'
  BY <1>1, <1>3 DEF Clearing, ClearInv
<1>8. x \in Nat /\ x + 1 <= nextid
  BY <1>1, <1>4
<1> DEFINE B == {j \in Readable : j < x}
<1>9. /\ Passed = Cardinality(B) /\ IsFiniteSet(B) /\ Cardinality(B) \in Nat
      /\ Cardinality(B) <= Len(logged)
  <2>1. B \in SUBSET Readable
    OBVIOUS
  <2>2. Passed = Cardinality(B)
    BY <1>0, Zenon DEF Passed
  <2>3. Len(logged) = Cardinality(Readable)
    BY <1>4 DEF InOrder
  <2> QED
    BY <1>4, <2>1, <2>2, <2>3, ReadableFinite, Zenon
<1>10. Passed' = Cardinality({j \in Readable : j < x + 1})
  BY <1>1, <1>5, Zenon DEF Passed
<1>11. got' = SubSeq(logged', 1, Passed')
  <2>1. Readable \subseteq Nat
    BY <1>4, ReadableFinite
  <2>2. CASE file[x] = Torn
    <3>1. x \notin Readable
      BY <2>2 DEF Readable
    <3>2. \A j \in Readable : j < x + 1 <=> j < x
      BY <1>8, <2>1, <3>1
    <3>3. {j \in Readable : j < x + 1} = B
      BY <3>2, Zenon
    <3> QED
      BY <1>1, <1>4, <1>9, <1>10, <2>2, <3>3, Zenon
  <2>3. CASE file[x] # Torn
    <3>1. x \in Readable
      BY <1>1, <2>3 DEF Readable
    <3>2. {j \in Readable : j < x + 1} = B \cup {x} /\ {j \in Readable : j <= x} = B \cup {x}
      <4>1. /\ \A j \in Readable : (j < x + 1 <=> j < x \/ j = x) /\ (j <= x <=> j < x \/ j = x)
            /\ x < x + 1 /\ x <= x
        BY <1>8, <2>1
      <4> QED
        BY <3>1, <4>1, Zenon
    <3>3. x \notin B
      BY <1>8
    <3>4. Cardinality(B \cup {x}) = Cardinality(B) + 1
      BY <1>9, <3>3, FS_AddElement, Zenon
    <3>5. Place(x) = Cardinality(B) + 1 /\ Passed' = Cardinality(B) + 1
      BY <1>10, <3>2, <3>4, Zenon DEF Place
    <3>6. logged[Place(x)] = file[x] /\ Place(x) \in 1..Len(logged)
      BY <1>4, <3>1, PlaceInside DEF InOrder
    <3> HIDE DEF B
    <3>7. Cardinality(B) + 1 <= Len(logged)
      BY <1>9, <3>5, <3>6
    <3>8. Append(SubSeq(logged, 1, Cardinality(B)), file[x]) = SubSeq(logged, 1, Cardinality(B) + 1)
      BY <1>4, <1>9, <3>5, <3>6, <3>7, OneMore, Zenon
    <3> QED
      BY <1>1, <1>4, <1>9, <2>3, <3>5, <3>8, Zenon
  <2> QED
    BY <2>2, <2>3
<1>12. IterInv'
  BY <1>1, <1>3, <1>4, <1>8, <1>11 DEF IterInv
<1> QED
  BY <1>1, <1>3, <1>4, <1>5, <1>6, <1>7, <1>12 DEF CalmInv

\* The caller's loop ends.
LEMMA EndCalm ==
  ASSUME LogTypeOK, CalmInv, NEW t \in Threads, iterate_end(t)
  PROVE  CalmInv'
<1> SUFFICES ASSUME calm' PROVE CalmInv'
  BY DEF CalmInv
<1>1. /\ calm /\ iter' = NoMessage /\ UNCHANGED <<file, nextid, pc, id, logged, refused>>
  BY DEF iterate_end
<1>2. LogIds' = LogIds /\ Readable' = Readable /\ \A i \in Readable : file'[i] = file[i]
  BY <1>1 DEF LogIds, Readable
<1>3. InOrder' <=> InOrder
  BY <1>1, <1>2, SameEntries
<1>4. IterInv' /\ (Clearing' <=> Clearing) /\ ClearInv'
  BY <1>1, <1>2 DEF IterInv, Clearing, ClearInv, CalmInv
<1> QED
  BY <1>1, <1>2, <1>3, <1>4 DEF CalmInv

\* tpclog_init finds the end of the files that are there.
LEMMA CrashCalm ==
  ASSUME LogTypeOK, CalmInv, Crash
  PROVE  CalmInv'
<1> SUFFICES ASSUME calm' PROVE CalmInv'
  BY DEF CalmInv
<1>1. /\ calm /\ ~Clearing /\ nextid' = FirstFree /\ pc' = [t \in Threads |-> "idle"]
      /\ iter' = NoMessage /\ UNCHANGED <<file, logged, refused>>
  BY DEF Crash
<1>2. /\ LogIds = 0 .. nextid - 1 /\ InOrder /\ ~refused /\ nextid \in Nat
      /\ LogIds \subseteq 0..MaxId
  BY <1>1 DEF CalmInv, LogTypeOK
<1>3. /\ FirstFree \in 0..MaxId + 1 /\ FirstFree \notin LogIds
      /\ \A j \in 0..FirstFree - 1 : j \in LogIds
  BY <1>2, FirstFreeFacts, Zenon
<1>4. FirstFree = nextid
  BY <1>2, <1>3, TPCLogAssumption
<1>5. LogIds' = LogIds /\ Readable' = Readable /\ \A i \in Readable : file'[i] = file[i]
  BY <1>1 DEF LogIds, Readable
<1>6. InOrder'
  BY <1>1, <1>2, <1>5, SameEntries
<1>7. \A u \in Threads : pc'[u] = "idle"
  BY <1>1
<1>8. IterInv' /\ ClearInv'
  BY <1>1, <1>7 DEF IterInv, ClearInv
<1> QED
  BY <1>1, <1>2, <1>4, <1>5, <1>6, <1>7, <1>8 DEF CalmInv

(* The empty directory of a new server is in order.                        *)
LEMMA InitCalm == LogInit => CalmInv
<1> SUFFICES ASSUME LogInit PROVE CalmInv
  OBVIOUS
<1>1. LogIds = {} /\ nextid = 0 /\ logged = <<>> /\ ~refused /\ iter = NoMessage
  BY DEF LogInit, LogIds
<1>2. \A t \in Threads : pc[t] = "idle"
  BY DEF LogInit
<1>3. Readable = {} /\ Cardinality({}) = 0 /\ Len(logged) = 0 /\ LogIds = 0 .. nextid - 1
  BY <1>1, FS_EmptySet DEF Readable
<1> QED
  BY <1>1, <1>2, <1>3 DEF CalmInv, InOrder, ClearInv, IterInv

\* Every step of tpclog.c keeps the log in order.
LEMMA StepCalm ==
  ASSUME LogTypeOK, ThreadsInv, WriterInv, FreshInv, CalmInv, [LogNext]_logVars
  PROVE  CalmInv'
<1>1. CASE UNCHANGED logVars
  <2>1. UNCHANGED <<file, nextid, iterpos, pc, id, iter, got, atBegin, logged, refused, calm>>
    BY <1>1 DEF logVars
  <2>2. LogIds' = LogIds /\ Readable' = Readable /\ \A i \in Readable : file'[i] = file[i]
    BY <2>1 DEF LogIds, Readable
  <2>3. (InOrder' <=> InOrder) /\ Passed' = Passed
    BY <2>1, <2>2, SameEntries
  <2> QED
    BY <2>1, <2>2, <2>3, Zenon DEF CalmInv, ClearInv, IterInv, Clearing
<1> QED
  BY <1>1, OpenCalm, WriteCalm, FailsCalm, LockCalm, RemoveCalm, ResetCalm, BeginCalm, NextCalm,
     EndCalm, CrashCalm DEF LogNext

\* The invariant says what the properties say.
LEMMA CalmSays ==
  ASSUME LogTypeOK, CalmInv PROVE LogSurvives /\ IterationComplete
<1>1. ASSUME calm, \A t \in Threads : pc[t] # "clear"
      PROVE  InOrder /\ \A i \in LogIds : \A j \in 0..i : j \in LogIds
  <2>1. CASE Clearing
    <3>1. LogIds = {} /\ logged = <<>>
      BY <1>1, <2>1 DEF CalmInv, Clearing, ClearInv
    <3>2. Readable = {} /\ Cardinality({}) = 0 /\ Len(logged) = 0
      BY <3>1, FS_EmptySet DEF Readable
    <3> QED
      BY <3>1, <3>2 DEF InOrder
  <2>2. CASE ~Clearing
    <3>1. LogIds = 0 .. nextid - 1 /\ InOrder /\ nextid \in Nat
      BY <1>1, <2>2 DEF CalmInv, LogTypeOK
    <3> QED
      BY <3>1
  <2> QED
    BY <2>1, <2>2
<1>2. LogSurvives
  BY <1>1 DEF LogSurvives, CalmSequential, Sequential, EntriesKept, NeverRefused, InOrder, CalmInv
<1>3. ASSUME calm, iter # NoMessage, iterpos \notin LogIds
      PROVE  IsPrefix(got, logged) /\ Len(got) >= atBegin
  <2>1. ~Clearing
    BY <1>3 DEF CalmInv, ClearInv, Clearing
  <2>2. /\ LogIds = 0 .. nextid - 1 /\ InOrder /\ nextid \in Nat /\ iterpos \in Nat
        /\ atBegin <= Len(logged) /\ got = SubSeq(logged, 1, Passed)
        /\ logged \in Seq(Messages)
    BY <1>3, <2>1 DEF CalmInv, IterInv, LogTypeOK
  <2>3. {j \in Readable : j < iterpos} = Readable
    <3>1. \A j \in Readable : j < iterpos
      BY <1>3, <2>2 DEF Readable
    <3> QED
      BY <3>1, Zenon
  <2>4. Passed = Len(logged)
    BY <2>2, <2>3, Zenon DEF Passed, InOrder
  <2>5. got = logged
    BY <2>2, <2>4
  <2>6. Len(logged) \in Nat /\ Len(logged) <= Len(logged) /\ Len(logged) >= atBegin
    BY <2>2 DEF LogTypeOK
  <2> QED
    BY <2>5, <2>6, Zenon DEF IsPrefix
<1> QED
  BY <1>2, <1>3 DEF IterationComplete

-----------------------------------------------------------------------------
(* The log survives what comes between: until a call overlaps a clear or a *)
(* crash cuts one short, the files of tpclog.c are numbered from 0 without *)
(* a gap, hold exactly the entries logged since the last clear, in order,  *)
(* whatever tpclog_logs failed and wherever the process died and ran       *)
(* tpclog_init again, and no tpclog_log finds its file taken; for any      *)
(* number of threads, messages, ids and crashes.                           *)
THEOREM LogAlwaysSurvives == LogSpec => []LogSurvives
<1> DEFINE I == LogInv /\ LogTypeOK /\ ThreadsInv /\ CalmInv
<1>1. LogInit => I
  BY LogInitInv, LogTypesInit, InitCalm
<1>2. I /\ [LogNext]_logVars => I'
  BY LogStepKeeps, LogTypesKept, StepCalm DEF LogInv
<1>3. I => LogSurvives
  BY CalmSays
<1> QED
  BY <1>1, <1>2, <1>3, PTL DEF LogSpec

(* tpclog_iterate_next returns every entry logged before the iteration     *)
(* began, oldest first, and then those logged meanwhile, although the lock *)
(* is released between its calls and files that cannot be loaded are among *)
(* the others, until a clear is overlapped or cut short.                   *)
THEOREM IterationsAlwaysComplete == LogSpec => []IterationComplete
<1> DEFINE I == LogInv /\ LogTypeOK /\ ThreadsInv /\ CalmInv
<1>1. LogInit => I
  BY LogInitInv, LogTypesInit, InitCalm
<1>2. I /\ [LogNext]_logVars => I'
  BY LogStepKeeps, LogTypesKept, StepCalm DEF LogInv
<1>3. I => IterationComplete
  BY CalmSays
<1> QED
  BY <1>1, <1>2, <1>3, PTL DEF LogSpec

=============================================================================
