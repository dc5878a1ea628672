------------------------------- MODULE TPCLog -------------------------------
(***************************************************************************)
(* The log of a TPC server, kvstore/src/server/tpclog.c: one file per      *)
(* entry, named by an increasing id.  Threads log, clear and iterate;      *)
(* tpclog_log creates its file, then writes it, and tpclog_clear_log       *)
(* removes the files one by one and resets nextid after it has released    *)
(* the lock.  A crash may come between any two of these steps.             *)
(***************************************************************************)
EXTENDS Integers, Sequences, SequencesExt

CONSTANTS Threads, Messages, NoMessage,
          Torn,        \* content of a file that was created but not written
          MaxId,       \* bound on the ids
          MaxCrashes

ASSUME TPCLogAssumption ==
  /\ MaxId \in Nat /\ MaxCrashes \in Nat
  /\ NoMessage \notin Threads \cup Messages /\ Torn \notin Messages

VARIABLES file,     \* id -> content, for the files that exist
          nextid,   \* log->nextid
          iterpos,  \* log->iterpos
          writer,   \* holder of the write lock
          pc, id, msg,  \* each thread: where it is, its file, its message
          iter,     \* the thread iterating, if any
          got,      \* what that iteration has returned
          atBegin,  \* history: number of entries when it began
          logged,   \* history: the entries logged since the last clear
          refused,  \* history: a tpclog_log returned ERRFILACCESS
          crashes,
          calm      \* history: no call overlapped a clear, no crash hit one

logVars == <<file, nextid, iterpos, writer, pc, id, msg, iter, got, atBegin,
          logged, refused, crashes, calm>>
iterVars == <<iterpos, iter, got, atBegin>>

LogIds == DOMAIN file

Clearing == \E t \in Threads : pc[t] \in {"clear", "reset"}

\* The first id that has no file: where the loop of tpclog_init stops.
FirstFree == CHOOSE i \in 0..MaxId + 1 :
               i \notin LogIds /\ \A j \in 0..i : j = i \/ j \in LogIds

LogInit ==
  /\ file = <<>>
  /\ nextid = 0 /\ iterpos = 0
  /\ writer = NoMessage
  /\ pc = [t \in Threads |-> "idle"]
  /\ id = [t \in Threads |-> 0]
  /\ msg = [t \in Threads |-> NoMessage]
  /\ iter = NoMessage /\ got = <<>> /\ atBegin = 0
  /\ logged = <<>> /\ refused = FALSE
  /\ crashes = 0 /\ calm = TRUE

-----------------------------------------------------------------------------
\* The file is created writable: an existing one is opened and overwritten.
LogOpen_Writable(t, m) ==
  /\ pc[t] = "idle" /\ writer = NoMessage /\ iter # t
  /\ nextid <= MaxId
  /\ calm' = (calm /\ ~Clearing)
  /\ file' = [i \in LogIds \cup {nextid} |->
                IF i = nextid THEN Torn ELSE file[i]]
  /\ nextid' = nextid + 1
  /\ writer' = t
  /\ pc' = [pc EXCEPT ![t] = "write"]
  /\ id' = [id EXCEPT ![t] = nextid]
  /\ msg' = [msg EXCEPT ![t] = m]
  /\ UNCHANGED <<iterVars, logged, refused, crashes>>

\* nextid is advanced before the file is opened, and not taken back.
LogOpen_EarlyIncrement(t, m) ==
  /\ pc[t] = "idle" /\ writer = NoMessage /\ iter # t
  /\ nextid < MaxId
  /\ calm' = (calm /\ ~Clearing)
  /\ file' = [i \in LogIds \cup {nextid + 1} |->
                IF i = nextid + 1 THEN Torn ELSE file[i]]
  /\ nextid' = nextid + 1
  /\ writer' = t
  /\ pc' = [pc EXCEPT ![t] = "write"]
  /\ id' = [id EXCEPT ![t] = nextid + 1]
  /\ msg' = [msg EXCEPT ![t] = m]
  /\ UNCHANGED <<iterVars, logged, refused, crashes>>

\* tpclog_log under the write lock, up to nextid++.  A file that exists
\* cannot be opened to write: it was created with mode S_IRUSR.
LogOpen(t, m) ==
  /\ pc[t] = "idle" /\ writer = NoMessage /\ iter # t
  /\ nextid <= MaxId
  /\ calm' = (calm /\ ~Clearing)
  /\ \/ /\ nextid \in LogIds
        /\ refused' = TRUE
        /\ UNCHANGED <<file, nextid, writer, pc, id, msg>>
     \/ /\ nextid \notin LogIds
        /\ file' = [i \in LogIds \cup {nextid} |->
                      IF i = nextid THEN Torn ELSE file[i]]
        /\ nextid' = nextid + 1
        /\ writer' = t
        /\ pc' = [pc EXCEPT ![t] = "write"]
        /\ id' = [id EXCEPT ![t] = nextid]
        /\ msg' = [msg EXCEPT ![t] = m]
        /\ UNCHANGED refused
  /\ UNCHANGED <<iterVars, logged, crashes>>

\* The entry is still in stdio's buffer when tpclog_log returns.
LogWrite_NotClosed(t) ==
  /\ pc[t] = "write"
  /\ logged' = Append(logged, msg[t])
  /\ writer' = NoMessage
  /\ pc' = [pc EXCEPT ![t] = "idle"]
  /\ id' = [id EXCEPT ![t] = 0]
  /\ msg' = [msg EXCEPT ![t] = NoMessage]
  /\ UNCHANGED <<file, nextid, iterVars, refused, crashes, calm>>

\* The rest of tpclog_log.
LogWrite(t) ==
  /\ pc[t] = "write"
  /\ file' = [file EXCEPT ![id[t]] = msg[t]]
  /\ logged' = Append(logged, msg[t])
  /\ writer' = NoMessage
  /\ pc' = [pc EXCEPT ![t] = "idle"]
  /\ id' = [id EXCEPT ![t] = 0]
  /\ msg' = [msg EXCEPT ![t] = NoMessage]
  /\ UNCHANGED <<nextid, iterVars, refused, crashes, calm>>

\* malloc or write fails: tpclog_log returns an error and leaves its file
\* without an entry.
LogFails(t) ==
  /\ pc[t] = "write"
  /\ writer' = NoMessage
  /\ pc' = [pc EXCEPT ![t] = "idle"]
  /\ id' = [id EXCEPT ![t] = 0]
  /\ msg' = [msg EXCEPT ![t] = NoMessage]
  /\ UNCHANGED <<file, nextid, iterVars, logged, refused, crashes, calm>>

-----------------------------------------------------------------------------
ClearLock(t) ==
  /\ pc[t] = "idle" /\ writer = NoMessage /\ iter # t
  /\ calm' = (calm /\ iter = NoMessage /\ \A u \in Threads : pc[u] = "idle")
  /\ writer' = t
  /\ pc' = [pc EXCEPT ![t] = "clear"]
  /\ logged' = <<>>
  /\ UNCHANGED <<file, nextid, iterVars, id, msg, refused, crashes>>

\* One round of the loop; its last one releases the lock.
ClearRemove(t) ==
  /\ pc[t] = "clear"
  /\ IF id[t] \in LogIds
     THEN /\ file' = [i \in LogIds \ {id[t]} |-> file[i]]
          /\ id' = [id EXCEPT ![t] = @ + 1]
          /\ UNCHANGED <<writer, pc>>
     ELSE /\ writer' = NoMessage
          /\ pc' = [pc EXCEPT ![t] = "reset"]
          /\ id' = [id EXCEPT ![t] = 0]
          /\ UNCHANGED file
  /\ UNCHANGED <<nextid, iterVars, msg, logged, refused, crashes, calm>>

\* nextid is reset to the id before the first one.
ClearReset_MinusOne(t) ==
  /\ pc[t] = "reset"
  /\ nextid' = -1
  /\ pc' = [pc EXCEPT ![t] = "idle"]
  /\ UNCHANGED <<file, iterVars, writer, id, msg, logged, refused, crashes, calm>>

\* nextid = 0, without the lock.
ClearReset(t) ==
  /\ pc[t] = "reset"
  /\ nextid' = 0
  /\ pc' = [pc EXCEPT ![t] = "idle"]
  /\ UNCHANGED <<file, iterVars, writer, id, msg, logged, refused, crashes, calm>>

-----------------------------------------------------------------------------
\* log->iterpos is shared: one thread iterates at a time.
iterate_begin(t) ==
  /\ pc[t] = "idle" /\ iter = NoMessage
  /\ calm' = (calm /\ ~Clearing)
  /\ iter' = t /\ iterpos' = 0 /\ got' = <<>>
  /\ atBegin' = Len(logged)
  /\ UNCHANGED <<file, nextid, writer, pc, id, msg, logged, refused, crashes>>

\* iterate_next gives up at an entry it cannot load.
iterate_next_StopAtTorn(t) ==
  /\ iter = t /\ writer = NoMessage /\ iterpos \in LogIds
  /\ IF file[iterpos] = Torn
     THEN iterpos' = MaxId + 1 /\ UNCHANGED got
     ELSE iterpos' = iterpos + 1 /\ got' = Append(got, file[iterpos])
  /\ UNCHANGED <<file, nextid, writer, pc, id, msg, iter, atBegin, logged,
                 refused, crashes, calm>>

\* tpclog_iterate_next, under the read lock; NULL for a torn entry, over
\* which iterpos moves all the same.
iterate_next(t) ==
  /\ iter = t /\ writer = NoMessage /\ iterpos \in LogIds
  /\ iterpos' = iterpos + 1
  /\ got' = IF file[iterpos] = Torn THEN got ELSE Append(got, file[iterpos])
  /\ UNCHANGED <<file, nextid, writer, pc, id, msg, iter, atBegin, logged,
                 refused, crashes, calm>>

\* tpclog_iterate_has_next is false: the caller's loop ends.
iterate_end(t) ==
  /\ iter = t /\ iterpos \notin LogIds
  /\ iter' = NoMessage /\ iterpos' = 0 /\ got' = <<>> /\ atBegin' = 0
  /\ UNCHANGED <<file, nextid, writer, pc, id, msg, logged, refused, crashes, calm>>

\* tpclog_init starts at 0 whatever the directory holds.
Crash_FromZero ==
  /\ crashes < MaxCrashes
  /\ crashes' = crashes + 1
  /\ calm' = (calm /\ ~Clearing)
  /\ nextid' = 0
  /\ writer' = NoMessage
  /\ pc' = [t \in Threads |-> "idle"]
  /\ id' = [t \in Threads |-> 0]
  /\ msg' = [t \in Threads |-> NoMessage]
  /\ iter' = NoMessage /\ iterpos' = 0 /\ got' = <<>> /\ atBegin' = 0
  /\ UNCHANGED <<file, logged, refused>>

\* The process dies; tpclog_init is run on what the directory holds.
Crash ==
  /\ crashes < MaxCrashes
  /\ crashes' = crashes + 1
  /\ calm' = (calm /\ ~Clearing)
  /\ nextid' = FirstFree
  /\ writer' = NoMessage
  /\ pc' = [t \in Threads |-> "idle"]
  /\ id' = [t \in Threads |-> 0]
  /\ msg' = [t \in Threads |-> NoMessage]
  /\ iter' = NoMessage /\ iterpos' = 0 /\ got' = <<>> /\ atBegin' = 0
  /\ UNCHANGED <<file, logged, refused>>

LogNext ==
  \/ \E t \in Threads :
       \/ \E m \in Messages : LogOpen(t, m)
       \/ LogWrite(t) \/ LogFails(t)
       \/ ClearLock(t) \/ ClearRemove(t) \/ ClearReset(t)
       \/ iterate_begin(t) \/ iterate_next(t) \/ iterate_end(t)
  \/ Crash

LogSpec == LogInit /\ [][LogNext]_logVars

-----------------------------------------------------------------------------
LogTypeOK ==
  /\ LogIds \subseteq 0..MaxId
  /\ \A i \in LogIds : file[i] \in Messages \cup {Torn}
  /\ nextid \in 0..MaxId + 1 /\ iterpos \in 0..MaxId + 1
  /\ writer \in Threads \cup {NoMessage} /\ iter \in Threads \cup {NoMessage}
  /\ pc \in [Threads -> {"idle", "write", "clear", "reset"}]
  /\ id \in [Threads -> 0..MaxId + 1]
  /\ msg \in [Threads -> Messages \cup {NoMessage}]
  /\ got \in Seq(Messages) /\ logged \in Seq(Messages)
  /\ atBegin \in Nat /\ crashes \in 0..MaxCrashes
  /\ refused \in BOOLEAN /\ calm \in BOOLEAN

(* tpclog.h: "Files should always be sequential; for example, there should *)
(* never be a filename of "2.log" without a filename of "1.log"", except   *)
(* while tpclog_clear_log is removing them.                                *)
Sequential ==
  (\A t \in Threads : pc[t] # "clear") =>
    \A i \in LogIds : \A j \in 0..i : j \in LogIds

(* They are, wherever crashes hit a tpclog_log, until a call overlaps a    *)
(* clear or a crash cuts one short.                                        *)
CalmSequential == calm => Sequential

\* The files that can be loaded, and the place of file i among them.
Readable == {i \in LogIds : file[i] # Torn}
Place(i) == Cardinality({j \in Readable : j <= i})

(* Every entry whose tpclog_log returned since the last clear is in the    *)
(* directory, in order, and nothing else is, whatever crashes happened:    *)
(* what a rebuild needs (as long as clears are undisturbed).               *)
EntriesKept ==
  (calm /\ \A t \in Threads : pc[t] # "clear") =>
    /\ Len(logged) = Cardinality(Readable)
    /\ \A i \in Readable : logged[Place(i)] = file[i]

(* tpclog_log never finds its file name taken: an id freed by a clear is   *)
(* reused only after its file is gone, and a restart skips the ids in use. *)
NeverRefused == calm => ~refused

(* A log entry that was written is never changed, only removed, whatever   *)
(* calls overlap and whenever the process dies: after a clear that was cut *)
(* short old entries are in the way of new ones, and their mode S_IRUSR is *)
(* what saves them.                                                        *)
EntriesImmutable ==
  [][\A i \in LogIds : file[i] # Torn => i \notin LogIds' \/ file'[i] = file[i]]_logVars

(* "use the functions tpclog_iterate_has_next and tpclog_iterate_next to   *)
(* iterate through all of the entries in LOG from oldest to most recent":  *)
(* when has_next answers no, everything logged before the iteration began  *)
(* has been returned in order, entries logged meanwhile following.         *)
IterationComplete ==
  (calm /\ iter # NoMessage /\ iterpos \notin LogIds) =>
    IsPrefix(got, logged) /\ Len(got) >= atBegin

(* The log survives what comes between: ids run from 0 without a gap until *)
(* a clear is overlapped or cut short, entries that were logged are kept   *)
(* across crashes, and tpclog_log is never refused its file.               *)
LogSurvives == LogTypeOK /\ CalmSequential /\ EntriesKept /\ NeverRefused
=============================================================================
