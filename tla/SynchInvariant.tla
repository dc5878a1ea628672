--------------------------- MODULE SynchInvariant ---------------------------
(***************************************************************************)
(* The inductive invariant of threads/thread.c, threads/synch.c and        *)
(* timer_sleep, and that the steps of the locks, the tids, the condition   *)
(* variables and the semaphores keep it.                                   *)
(*                                                                         *)
(* None of the properties of Synch is inductive: what a step does to a     *)
(* list depends on where in its call every thread is, on which of them     *)
(* hold which lock, and on who is being created.  Inv says it.             *)
(***************************************************************************)
EXTENDS Synch, TLAPS

(* The invariant is stated for any function td in place of todo: a call    *)
(* takes its first step in the same action that makes it, and the step is  *)
(* then one of a state in which td holds the whole call.                   *)

\* The first step of q is a.
Does(q, a) == q # <<>> /\ Head(q) = a
\* The first step of q is an op.
Doing(q, op) == q # <<>> /\ Head(q).op = op

-----------------------------------------------------------------------------
(* What a thread may have still to do: a call or what is left of one.      *)

\* What is left of a call of a semaphore.
SemaCode(q) ==
  \E s \in Semas : q \in {<<At("down", s)>>, <<At("trydown", s)>>, <<At("up", s)>>}

\* lock_acquire, lock_try_acquire and lock_release.
LockCode(q) ==
  \E l \in Locks \ {tid_lock} :
    q \in {<<At("down", l), At("hold", l)>>, <<At("trydown", l), At("hold", l)>>,
           <<At("hold", l)>>, <<At("unhold", l), At("up", l)>>, <<At("up", l)>>}

\* cond_wait, up to the sema_down of the waiter's own semaphore.
WaitCode(t, q) ==
  \E c \in Conds : LET l == LockOf[c] IN
    q \in {<<At("enqueue", c), At("unhold", l), At("up", l), At("down", t),
             At("down", l), At("hold", l)>>,
           <<At("unhold", l), At("up", l), At("down", t), At("down", l), At("hold", l)>>,
           <<At("up", l), At("down", t), At("down", l), At("hold", l)>>,
           <<At("down", t), At("down", l), At("hold", l)>>}

\* cond_signal and cond_broadcast, which up the waiters' semaphores.
SignalCode(q) ==
  \/ \E c \in Conds : q \in {<<At("signal", c)>>, <<At("broadcast", c)>>}
  \/ \E h \in Thread \ {idle} :
       \/ q = <<At("up", h)>>
       \/ \E c \in Conds : q = <<At("up", h), At("broadcast", c)>>

\* thread_create: allocate_tid in the middle of it.
CreateCode(q) ==
  \E t \in Thread : LET l == tid_lock IN
    q \in {<<At("init", t), At("down", l), At("hold", l), At("load", t), At("store", t),
             At("unhold", l), At("up", l), At("unblock", t)>>,
           <<At("down", l), At("hold", l), At("load", t), At("store", t),
             At("unhold", l), At("up", l), At("unblock", t)>>,
           <<At("hold", l), At("load", t), At("store", t),
             At("unhold", l), At("up", l), At("unblock", t)>>,
           <<At("load", t), At("store", t), At("unhold", l), At("up", l), At("unblock", t)>>,
           <<At("store", t), At("unhold", l), At("up", l), At("unblock", t)>>,
           <<At("unhold", l), At("up", l), At("unblock", t)>>,
           <<At("up", l), At("unblock", t)>>,
           <<At("unblock", t)>>}

\* timer_sleep, thread_yield, thread_exit, and main's wait in thread_start.
OtherCode(t, q) ==
  \/ \E n \in 1..MaxSleep : q = <<At("sleep", n)>>
  \/ q \in {<<At("yield", Null)>>, <<At("exit", Null)>>}
  \/ t = main /\ q = <<At("down", idle)>>

\* The idle thread, which never runs out of things to do.
IdleCode(q) ==
  \/ q = <<At("idle", Null), At("up", idle), At("block", Null)>>
  \/ q = <<At("up", idle), At("block", Null)>>
  \/ q = <<At("block", Null)>>
  \/ q = <<At("hlt", Null), At("block", Null)>>

\* What thread t may have still to do.
Code(t, q) ==
  IF t = idle THEN IdleCode(q)
  ELSE q = <<>> \/ SemaCode(q) \/ LockCode(q) \/ WaitCode(t, q) \/ SignalCode(q)
       \/ CreateCode(q) \/ OtherCode(t, q)

-----------------------------------------------------------------------------
(* The invariant *)

\* The types of the scheduler's variables.
SchedType ==
  /\ status \in [Thread -> Statuses] /\ ready_list \in Seq(Thread)
  /\ current \in Thread /\ idle_thread \in {Null, idle}
  /\ thread_ticks \in 0..TIME_SLICE - 1

\* The types of all the variables.
TypeI ==
  /\ SchedType /\ all_list \subseteq Thread
  /\ off \in [Thread -> BOOLEAN]
  /\ value \in [SemaIds -> Nat] /\ waiters \in [SemaIds -> Seq(Thread)]
  /\ cond \in [Conds -> Seq(Thread)]
  /\ holder \in [Locks -> Thread \cup {Null}]
  /\ tid \in [Thread -> Nat] /\ next_tid \in Nat
  /\ elapsed \in [Thread -> 0..MaxSleep]

\* Every thread is somewhere in one of its calls.
CodeI(td) == DOMAIN td = Thread /\ \A t \in Thread : Code(t, td[t])

\* One thread runs, the ready ones are in the ready list, each once, and idle lives.
SchedOK ==
  /\ \A t \in Thread : status[t] = "running" <=> t = current
  /\ IsInjective(ready_list)
  /\ \A t \in Thread : t \in Range(ready_list) <=> status[t] = "ready" /\ t # idle_thread
  /\ status[idle] \notin {"none", "dying"}
  /\ idle_thread = Null => status[idle] # "blocked"

\* Until idle has said who it is, it has not started.
ReadyI(td) == SchedOK /\ (idle_thread = Null => Doing(td[idle], "idle"))

\* A thread blocked in a call is in sema_down, and in the list it waits in.
WaitI(td) ==
  /\ \A t \in Thread : off[t] => Doing(td[t], "down")
  /\ \A t \in Thread \ {idle} :
       status[t] = "blocked" /\ td[t] # <<>> => off[t]
  /\ \A s \in SemaIds :
       /\ IsInjective(waiters[s])
       /\ \A t \in Thread :
            t \in Range(waiters[s]) <=> status[t] = "blocked" /\ Does(td[t], At("down", s))

\* The threads woken on s that have not looked at its value again yet.
WokenOn(td, s) == {t \in Thread : off[t] /\ status[t] # "blocked" /\ Does(td[t], At("down", s))}

\* While threads wait on s, every unit of its value has a woken thread.
WakeI(td) ==
  \A s \in SemaIds : waiters[s] # <<>> => value[s] <= Cardinality(WokenOn(td, s))

\* A page that holds no thread: nothing to do, in no list, no lock held.
DeadI(td) ==
  \A t \in Thread : status[t] \in {"none", "dying"} =>
    td[t] = <<>> /\ t \notin all_list /\ \A l \in Locks : holder[l] # t

\* q is the rest of a thread_create that has made t and not unblocked it yet.
Makes(q, t) == At("unblock", t) \in Range(q) /\ ~Doing(q, "init")

\* A blocked thread that is in no call is being created, by one thread.
MakeI(td) ==
  /\ \A t, u \in Thread : Makes(td[u], t) => status[t] = "blocked" /\ td[t] = <<>>
  /\ \A t, u, v \in Thread : Makes(td[u], t) /\ Makes(td[v], t) => u = v
  /\ \A t \in Thread : status[t] = "blocked" /\ td[t] = <<>> =>
       \E u \in Thread : Makes(td[u], t)

\* t has taken the lock l: it is, was, or is about to be the holder.
Owner(td, t, l) ==
  holder[l] = t \/ Does(td[t], At("hold", l)) \/ Does(td[t], At("up", l))

\* The lock is free, or one thread has it.
OneOwner(td, l) ==
  \/ value[l] = 1 /\ \A t \in Thread : ~Owner(td, t, l)
  \/ value[l] = 0 /\ \E o \in Thread : \A t \in Thread : Owner(td, t, l) <=> t = o

\* Who has a lock, who is about to give it up, and who has tid_lock.
LockI(td) ==
  /\ \A l \in Locks : OneOwner(td, l)
  /\ \A t \in Thread :
       /\ \A l \in Locks : /\ Does(td[t], At("unhold", l)) => holder[l] = t
                           /\ Does(td[t], At("up", l)) => holder[l] # t
       /\ \A c \in Conds : Does(td[t], At("enqueue", c)) => holder[LockOf[c]] = t
       /\ holder[tid_lock] = t <=> \/ Doing(td[t], "load") \/ Doing(td[t], "store")
                                   \/ Does(td[t], At("unhold", tid_lock))
       /\ Doing(td[t], "exit") => \A l \in Locks : holder[l] # t

\* q is a cond_wait of t between its list_push_back and its sema_down.
Waits(q, t) == At("down", t) \in Range(q) /\ ~Doing(q, "enqueue")
\* t is in the list of the condition variable c.
Listed(t, c) == t \in Range(cond[c])
\* q will up the semaphore of t.
Upping(q, t) == At("up", t) \in Range(q)

\* A waiter is in one list, or will be upped once, or has been.
SignalI(td) ==
  /\ \A c \in Conds : IsInjective(cond[c]) /\ ~Listed(idle, c)
  /\ \A t \in Thread \ {idle} :
       \/ /\ Waits(td[t], t) /\ value[t] = 0
          /\ \A u \in Thread : ~Upping(td[u], t)
          /\ \E c \in Conds : \A d \in Conds : Listed(t, d) <=> d = c
       \/ /\ Waits(td[t], t) /\ value[t] = 0
          /\ \E v \in Thread : \A u \in Thread : Upping(td[u], t) <=> u = v
          /\ \A c \in Conds : ~Listed(t, c)
       \/ /\ value[t] = IF Waits(td[t], t) THEN 1 ELSE 0
          /\ \A u \in Thread : ~Upping(td[u], t)
          /\ \A c \in Conds : ~Listed(t, c)

\* next_tid is above every tid, but while it is being stored.
TidI(td) ==
  /\ \A t \in Thread : \/ tid[t] < next_tid
                       \/ tid[t] = next_tid /\ \E u \in Thread : Does(td[u], At("store", t))
  /\ \A t, u \in Thread : Does(td[u], At("store", t)) => tid[t] = next_tid
  /\ next_tid > 0
  /\ TidsUnique

\* The inductive invariant.
Inv(td) ==
  /\ TypeI /\ CodeI(td) /\ ReadyI(td) /\ WaitI(td) /\ WakeI(td) /\ DeadI(td)
  /\ MakeI(td) /\ LockI(td) /\ SignalI(td) /\ TidI(td)

(* Zenon is the prover of the leaves that name none.                       *)
USE ZenonT(60)

-----------------------------------------------------------------------------
(* The steps of a call, one after the other.                               *)

(* A list with a first step, the others, and the set of all of them.       *)
Splits(q, a, r, S) ==
  q # <<>> /\ Head(q) = a /\ Tail(q) = r /\ Range(q) = S /\ q \in Seq(S)

\* What is known of a step and of the steps after it.
Follows(t, op, x, r) ==
  /\ op \in {"down", "trydown", "up"} => x \in SemaIds
  /\ op \in {"hold", "unhold"} => x \in Locks
  /\ op \in {"enqueue", "signal", "broadcast"} => x \in Conds
  /\ op \in {"init", "load", "store", "unblock"} => x \in Thread
  /\ op = "sleep" => x \in 1..MaxSleep
  /\ (t = idle) = (op \in {"idle", "block", "hlt"} \/ (op = "up" /\ x = idle))
  /\ op = "down" /\ x \in Thread => x \in {t, idle}
  /\ op = "trydown" => x \notin Thread /\ Range(r) \subseteq {At("hold", x)}
  /\ op \in {"down", "trydown"} =>
       IF x \in Locks THEN Does(r, At("hold", x)) ELSE r = <<>> \/ Doing(r, "down")
  /\ op = "up" => \/ r = <<>> \/ Doing(r, "down") \/ Doing(r, "unblock")
                    \/ Doing(r, "broadcast") \/ Doing(r, "block")
  /\ op = "hold" => IF x = tid_lock THEN Doing(r, "load") ELSE r = <<>>
  /\ op = "unhold" => Does(r, At("up", x))
  /\ op = "enqueue" => Does(r, At("unhold", LockOf[x])) /\ At("down", t) \in Range(r)
  /\ op = "init" => /\ Does(r, At("down", tid_lock))
                      /\ \A y : At("unblock", y) \in Range(r) <=> y = x
  /\ op = "load" => Does(r, At("store", x))
  /\ op = "store" => Does(r, At("unhold", tid_lock)) /\ At("unblock", x) \in Range(r)
  /\ op = "idle" => Doing(r, "up")
  /\ ~Doing(r, "init") /\ ~Doing(r, "enqueue") /\ ~Doing(r, "exit")
  /\ op \in {"signal", "broadcast", "unblock", "sleep", "yield", "exit", "block"} => r = <<>>

\* q begins with a step that is followed as it should be.
Fits(t, q) ==
  /\ q \in Seq(Range(q)) /\ Head(q) = At(Head(q).op, Head(q).x)
  /\ Head(q) \in Range(q) /\ Range(Tail(q)) = Range(q) \ {Head(q)}
  /\ Follows(t, Head(q).op, Head(q).x, Tail(q))
  /\ Head(q).op # "block" => Code(t, Tail(q))

\* A list of one step: the first, the others, all of them.
LEMMA Tuple1 ==
  ASSUME NEW a
  PROVE  Splits(<<a>>, a, <<>>, {a})
  <1>1. /\ <<a>> # <<>> /\ Head(<<a>>) = a /\ Tail(<<a>>) = <<>>
    BY SMT
  <1>2. Range(<<a>>) = {a}
    BY SMT DEF Range
  <1>3. <<a>> \in Seq({a})
    BY SMT
  <1> QED BY <1>1, <1>2, <1>3 DEF Splits

\* A list of two steps: the first, the others, all of them.
LEMMA Tuple2 ==
  ASSUME NEW a, NEW b
  PROVE  Splits(<<a, b>>, a, <<b>>, {a, b})
  <1>1. /\ <<a, b>> # <<>> /\ Head(<<a, b>>) = a /\ Tail(<<a, b>>) = <<b>>
    BY SMT
  <1>2. Range(<<a, b>>) = {a, b}
    BY SMT DEF Range
  <1>3. <<a, b>> \in Seq({a, b})
    BY SMT
  <1> QED BY <1>1, <1>2, <1>3 DEF Splits

\* A list of three steps: the first, the others, all of them.
LEMMA Tuple3 ==
  ASSUME NEW a, NEW b, NEW c
  PROVE  Splits(<<a, b, c>>, a, <<b, c>>, {a, b, c})
  <1>1. /\ <<a, b, c>> # <<>> /\ Head(<<a, b, c>>) = a /\ Tail(<<a, b, c>>) = <<b, c>>
    BY SMT
  <1>2. Range(<<a, b, c>>) = {a, b, c}
    BY SMT DEF Range
  <1>3. <<a, b, c>> \in Seq({a, b, c})
    BY SMT
  <1> QED BY <1>1, <1>2, <1>3 DEF Splits

\* A list of four steps: the first, the others, all of them.
LEMMA Tuple4 ==
  ASSUME NEW a, NEW b, NEW c, NEW d
  PROVE  Splits(<<a, b, c, d>>, a, <<b, c, d>>, {a, b, c, d})
  <1>1. /\ <<a, b, c, d>> # <<>> /\ Head(<<a, b, c, d>>) = a
             /\ Tail(<<a, b, c, d>>) = <<b, c, d>>
    BY SMT
  <1>2. Range(<<a, b, c, d>>) = {a, b, c, d}
    BY SMT DEF Range
  <1>3. <<a, b, c, d>> \in Seq({a, b, c, d})
    BY SMT
  <1> QED BY <1>1, <1>2, <1>3 DEF Splits

\* A list of five steps: the first, the others, all of them.
LEMMA Tuple5 ==
  ASSUME NEW a, NEW b, NEW c, NEW d, NEW e
  PROVE  Splits(<<a, b, c, d, e>>, a, <<b, c, d, e>>, {a, b, c, d, e})
  <1>1. /\ <<a, b, c, d, e>> # <<>> /\ Head(<<a, b, c, d, e>>) = a
             /\ Tail(<<a, b, c, d, e>>) = <<b, c, d, e>>
    BY SMT
  <1>2. Range(<<a, b, c, d, e>>) = {a, b, c, d, e}
    BY SMT DEF Range
  <1>3. <<a, b, c, d, e>> \in Seq({a, b, c, d, e})
    BY SMT
  <1> QED BY <1>1, <1>2, <1>3 DEF Splits

\* A list of six steps: the first, the others, all of them.
LEMMA Tuple6 ==
  ASSUME NEW a, NEW b, NEW c, NEW d, NEW e, NEW f
  PROVE  Splits(<<a, b, c, d, e, f>>, a, <<b, c, d, e, f>>, {a, b, c, d, e, f})
  <1>1. /\ <<a, b, c, d, e, f>> # <<>> /\ Head(<<a, b, c, d, e, f>>) = a
             /\ Tail(<<a, b, c, d, e, f>>) = <<b, c, d, e, f>>
    BY SMT
  <1>2. Range(<<a, b, c, d, e, f>>) = {a, b, c, d, e, f}
    BY SMT DEF Range
  <1>3. <<a, b, c, d, e, f>> \in Seq({a, b, c, d, e, f})
    BY SMT
  <1> QED BY <1>1, <1>2, <1>3 DEF Splits

\* A list of seven steps: the first, the others, all of them.
LEMMA Tuple7 ==
  ASSUME NEW a, NEW b, NEW c, NEW d, NEW e, NEW f, NEW g
  PROVE  Splits(<<a, b, c, d, e, f, g>>, a, <<b, c, d, e, f, g>>, {a, b, c, d, e, f, g})
  <1>1. /\ <<a, b, c, d, e, f, g>> # <<>> /\ Head(<<a, b, c, d, e, f, g>>) = a
             /\ Tail(<<a, b, c, d, e, f, g>>) = <<b, c, d, e, f, g>>
    BY SMT
  <1>2. Range(<<a, b, c, d, e, f, g>>) = {a, b, c, d, e, f, g}
    BY SMT DEF Range
  <1>3. <<a, b, c, d, e, f, g>> \in Seq({a, b, c, d, e, f, g})
    BY SMT
  <1> QED BY <1>1, <1>2, <1>3 DEF Splits

\* A list of eight steps: the first, the others, all of them.
LEMMA Tuple8 ==
  ASSUME NEW a, NEW b, NEW c, NEW d, NEW e, NEW f, NEW g, NEW h
  PROVE  Splits(<<a, b, c, d, e, f, g, h>>, a, <<b, c, d, e, f, g, h>>,
         {a, b, c, d, e, f, g, h})
  <1>1. /\ <<a, b, c, d, e, f, g, h>> # <<>> /\ Head(<<a, b, c, d, e, f, g, h>>) = a
             /\ Tail(<<a, b, c, d, e, f, g, h>>) = <<b, c, d, e, f, g, h>>
    BY SMT
  <1>2. Range(<<a, b, c, d, e, f, g, h>>) = {a, b, c, d, e, f, g, h}
    BY SMT DEF Range
  <1>3. <<a, b, c, d, e, f, g, h>> \in Seq({a, b, c, d, e, f, g, h})
    BY SMT
  <1> QED BY <1>1, <1>2, <1>3 DEF Splits

\* There is no step in an empty list.
LEMMA EmptyRange == Range(<<>>) = {}
  BY SMT DEF Range

\* A list is its first step and the others.
LEMMA Rejoin ==
  ASSUME NEW S, NEW q \in Seq(S), q # <<>>
  PROVE  <<Head(q)>> \o Tail(q) = q
  BY SMT

\* What a list does first, when its first step is known.
LEMMA FirstIs ==
  ASSUME NEW r, NEW op, NEW y, NEW p, NEW S, Splits(r, At(op, y), p, S)
  PROVE  /\ Does(r, At(op, y)) /\ \A o : Doing(r, o) <=> o = op
         /\ Range(r) = S
  BY SMT DEF Splits, Does, Doing, At

\* An empty list does nothing.
LEMMA FirstNone == \A o : ~Doing(<<>>, o)
  BY DEF Doing

\* The steps after the first, when the first is done once.
LEMMA RangeTail ==
  ASSUME NEW S, NEW q \in Seq(S), q # <<>>, Head(q) \notin Range(Tail(q))
  PROVE  Head(q) \in Range(q) /\ Range(Tail(q)) = Range(q) \ {Head(q)}
  <1>1. /\ Len(q) \in Nat \ {0} /\ DOMAIN q = 1..Len(q) /\ DOMAIN Tail(q) = 1..Len(q) - 1
        /\ Head(q) = q[1] /\ \A i \in 1..Len(q) - 1 : Tail(q)[i] = q[i + 1]
    BY SMT
  <1>2. \A i \in DOMAIN q : i = 1 \/ (i - 1 \in DOMAIN Tail(q) /\ Tail(q)[i - 1] = q[i])
    BY <1>1, SMT
  <1>3. \A i \in DOMAIN Tail(q) : i + 1 \in DOMAIN q
    BY <1>1, SMT
  <1> QED BY <1>1, <1>2, <1>3, SMT DEF Range

\* How a list of steps is shown to fit.
LEMMA FitsBy ==
  ASSUME NEW t, NEW q, NEW op, NEW x, NEW r, NEW S, Splits(q, At(op, x), r, S),
         At(op, x) \notin Range(r), Follows(t, op, x, r),
         op # "block" => Code(t, r)
  PROVE  Fits(t, q)
  <1>1. At(op, x) = At(At(op, x).op, At(op, x).x) /\ At(op, x).op = op /\ At(op, x).x = x
    BY SMT DEF At
  <1>2. At(op, x) \in Range(q) /\ Range(r) = Range(q) \ {At(op, x)}
    BY RangeTail DEF Splits
  <1> QED BY <1>1, <1>2 DEF Fits, Splits

\* The rest of a lock's operation fits.
LEMMA LockFits ==
  ASSUME NEW t \in Thread, t # idle, NEW q, LockCode(q)
  PROVE  Fits(t, q)
  <1>1. ASSUME NEW l \in Locks \ {tid_lock}, q = <<At("down", l), At("hold", l)>>
               PROVE Fits(t, q)
    <2> DEFINE r == <<At("hold", l)>>
    <2>1. Splits(q, At("down", l), r, {At("down", l), At("hold", l)})
      BY <1>1, Tuple2
    <2>2. Splits(r, At("hold", l), <<>>, {At("hold", l)})
      BY Tuple1
    <2>3. Code(t, r)
      BY DEF Code, LockCode
    <2>6. /\ Does(r, At("hold", l)) /\ \A p : Doing(r, p) <=> p = "hold"
          /\ Range(r) = {At("hold", l)}
      BY <2>2, FirstIs
    <2> HIDE DEF r
    <2>4. At("down", l) \notin Range(r)
      BY <2>6, SMT DEF At
    <2>5. Follows(t, "down", l, r)
      BY <2>6, SynchAssumption, ThreadsAssumption DEF Follows, SemaIds
    <2> QED BY <2>1, <2>3, <2>4, <2>5, FitsBy
  <1>2. ASSUME NEW l \in Locks \ {tid_lock}, q = <<At("trydown", l), At("hold", l)>>
               PROVE Fits(t, q)
    <2> DEFINE r == <<At("hold", l)>>
    <2>1. Splits(q, At("trydown", l), r, {At("trydown", l), At("hold", l)})
      BY <1>2, Tuple2
    <2>2. Splits(r, At("hold", l), <<>>, {At("hold", l)})
      BY Tuple1
    <2>3. Code(t, r)
      BY DEF Code, LockCode
    <2>6. /\ Does(r, At("hold", l)) /\ \A p : Doing(r, p) <=> p = "hold"
          /\ Range(r) = {At("hold", l)}
      BY <2>2, FirstIs
    <2> HIDE DEF r
    <2>4. At("trydown", l) \notin Range(r)
      BY <2>6, SMT DEF At
    <2>5. Follows(t, "trydown", l, r)
      BY <2>6, SynchAssumption, ThreadsAssumption DEF Follows, SemaIds
    <2> QED BY <2>1, <2>3, <2>4, <2>5, FitsBy
  <1>3. ASSUME NEW l \in Locks \ {tid_lock}, q = <<At("hold", l)>> PROVE Fits(t, q)
    <2> DEFINE r == <<>>
    <2>1. Splits(q, At("hold", l), r, {At("hold", l)})
      BY <1>3, Tuple1
    <2>2. r = <<>> /\ Range(r) = {}
      BY EmptyRange
    <2>3. Code(t, r)
      BY DEF Code
    <2>6. \A p : ~Doing(r, p)
      BY <2>2, FirstNone
    <2> HIDE DEF r
    <2>4. At("hold", l) \notin Range(r)
      BY <2>2
    <2>5. Follows(t, "hold", l, r)
      BY <2>2, <2>6, SynchAssumption, ThreadsAssumption DEF Follows, SemaIds
    <2> QED BY <2>1, <2>3, <2>4, <2>5, FitsBy
  <1>4. ASSUME NEW l \in Locks \ {tid_lock}, q = <<At("unhold", l), At("up", l)>>
               PROVE Fits(t, q)
    <2> DEFINE r == <<At("up", l)>>
    <2>1. Splits(q, At("unhold", l), r, {At("unhold", l), At("up", l)})
      BY <1>4, Tuple2
    <2>2. Splits(r, At("up", l), <<>>, {At("up", l)})
      BY Tuple1
    <2>3. Code(t, r)
      BY DEF Code, LockCode
    <2>6. /\ Does(r, At("up", l)) /\ \A p : Doing(r, p) <=> p = "up"
          /\ Range(r) = {At("up", l)}
      BY <2>2, FirstIs
    <2> HIDE DEF r
    <2>4. At("unhold", l) \notin Range(r)
      BY <2>6, SMT DEF At
    <2>5. Follows(t, "unhold", l, r)
      BY <2>6, SynchAssumption, ThreadsAssumption DEF Follows, SemaIds
    <2> QED BY <2>1, <2>3, <2>4, <2>5, FitsBy
  <1>5. ASSUME NEW l \in Locks \ {tid_lock}, q = <<At("up", l)>> PROVE Fits(t, q)
    <2> DEFINE r == <<>>
    <2>1. Splits(q, At("up", l), r, {At("up", l)})
      BY <1>5, Tuple1
    <2>2. r = <<>> /\ Range(r) = {}
      BY EmptyRange
    <2>3. Code(t, r)
      BY DEF Code
    <2>6. \A p : ~Doing(r, p)
      BY <2>2, FirstNone
    <2> HIDE DEF r
    <2>4. At("up", l) \notin Range(r)
      BY <2>2
    <2>5. Follows(t, "up", l, r)
      BY <2>2, <2>6, SynchAssumption, ThreadsAssumption DEF Follows, SemaIds
    <2> QED BY <2>1, <2>3, <2>4, <2>5, FitsBy
  <1> QED BY <1>1, <1>2, <1>3, <1>4, <1>5 DEF LockCode

\* The rest of a cond_wait fits.
LEMMA WaitFits ==
  ASSUME NEW t \in Thread, t # idle, NEW q, WaitCode(t, q)
  PROVE  Fits(t, q)
  <1>1. ASSUME NEW c \in Conds, q = <<At("enqueue", c), At("unhold", LockOf[c]),
               At("up", LockOf[c]), At("down", t), At("down", LockOf[c]),
                 At("hold", LockOf[c])>> PROVE Fits(t, q)
    <2> DEFINE r == <<At("unhold", LockOf[c]), At("up", LockOf[c]), At("down", t),
          At("down", LockOf[c]), At("hold", LockOf[c])>>
    <2>1. Splits(q, At("enqueue", c), r,
            {At("enqueue", c), At("unhold", LockOf[c]), At("up", LockOf[c]), At("down", t),
              At("down", LockOf[c]), At("hold", LockOf[c])})
      BY <1>1, Tuple6
    <2>2. Splits(r, At("unhold", LockOf[c]),
            <<At("up", LockOf[c]), At("down", t), At("down", LockOf[c]),
              At("hold", LockOf[c])>>,
                {At("unhold", LockOf[c]), At("up", LockOf[c]), At("down", t),
                  At("down", LockOf[c]), At("hold", LockOf[c])})
      BY Tuple5
    <2>3. Code(t, r)
      BY DEF Code, WaitCode
    <2>6. /\ Does(r, At("unhold", LockOf[c])) /\ \A p : Doing(r, p) <=> p = "unhold"
          /\ Range(r) = {At("unhold", LockOf[c]), At("up", LockOf[c]), At("down", t),
               At("down", LockOf[c]), At("hold", LockOf[c])}
      BY <2>2, FirstIs
    <2> HIDE DEF r
    <2>4. At("enqueue", c) \notin Range(r)
      BY <2>6, SMT DEF At
    <2>5. Follows(t, "enqueue", c, r)
      BY <2>6, SynchAssumption, ThreadsAssumption DEF Follows, SemaIds
    <2> QED BY <2>1, <2>3, <2>4, <2>5, FitsBy
  <1>2. ASSUME NEW c \in Conds, q = <<At("unhold", LockOf[c]), At("up", LockOf[c]),
               At("down", t), At("down", LockOf[c]), At("hold", LockOf[c])>> PROVE Fits(t, q)
    <2> DEFINE r == <<At("up", LockOf[c]), At("down", t), At("down", LockOf[c]),
          At("hold", LockOf[c])>>
    <2>1. Splits(q, At("unhold", LockOf[c]), r,
            {At("unhold", LockOf[c]), At("up", LockOf[c]), At("down", t), At("down", LockOf[c]),
              At("hold", LockOf[c])})
      BY <1>2, Tuple5
    <2>2. Splits(r, At("up", LockOf[c]),
            <<At("down", t), At("down", LockOf[c]), At("hold", LockOf[c])>>,
              {At("up", LockOf[c]), At("down", t), At("down", LockOf[c]),
                At("hold", LockOf[c])})
      BY Tuple4
    <2>3. Code(t, r)
      BY DEF Code, WaitCode
    <2>6. /\ Does(r, At("up", LockOf[c])) /\ \A p : Doing(r, p) <=> p = "up"
          /\ Range(r) = {At("up", LockOf[c]), At("down", t), At("down", LockOf[c]),
               At("hold", LockOf[c])}
      BY <2>2, FirstIs
    <2> HIDE DEF r
    <2>4. At("unhold", LockOf[c]) \notin Range(r)
      BY <2>6, SMT DEF At
    <2>5. Follows(t, "unhold", LockOf[c], r)
      BY <2>6, SynchAssumption, ThreadsAssumption DEF Follows, SemaIds
    <2> QED BY <2>1, <2>3, <2>4, <2>5, FitsBy
  <1>3. ASSUME NEW c \in Conds, q = <<At("up", LockOf[c]), At("down", t), At("down", LockOf[c]),
               At("hold", LockOf[c])>> PROVE Fits(t, q)
    <2> DEFINE r == <<At("down", t), At("down", LockOf[c]), At("hold", LockOf[c])>>
    <2>1. Splits(q, At("up", LockOf[c]), r,
            {At("up", LockOf[c]), At("down", t), At("down", LockOf[c]), At("hold", LockOf[c])})
      BY <1>3, Tuple4
    <2>2. Splits(r, At("down", t), <<At("down", LockOf[c]), At("hold", LockOf[c])>>,
            {At("down", t), At("down", LockOf[c]), At("hold", LockOf[c])})
      BY Tuple3
    <2>3. Code(t, r)
      BY DEF Code, WaitCode
    <2>6. /\ Does(r, At("down", t)) /\ \A p : Doing(r, p) <=> p = "down"
          /\ Range(r) = {At("down", t), At("down", LockOf[c]), At("hold", LockOf[c])}
      BY <2>2, FirstIs
    <2> HIDE DEF r
    <2>4. At("up", LockOf[c]) \notin Range(r)
      BY <2>6, SMT DEF At
    <2>5. Follows(t, "up", LockOf[c], r)
      BY <2>6, SynchAssumption, ThreadsAssumption DEF Follows, SemaIds
    <2> QED BY <2>1, <2>3, <2>4, <2>5, FitsBy
  <1>4. ASSUME NEW c \in Conds, q = <<At("down", t), At("down", LockOf[c]),
               At("hold", LockOf[c])>> PROVE Fits(t, q)
    <2> DEFINE r == <<At("down", LockOf[c]), At("hold", LockOf[c])>>
    <2>1. Splits(q, At("down", t), r,
            {At("down", t), At("down", LockOf[c]), At("hold", LockOf[c])})
      BY <1>4, Tuple3
    <2>2. Splits(r, At("down", LockOf[c]), <<At("hold", LockOf[c])>>,
            {At("down", LockOf[c]), At("hold", LockOf[c])})
      BY Tuple2
    <2>0. LockOf[c] \in Locks \ {tid_lock}
      BY SynchAssumption, SMT
    <2>3. Code(t, r)
      BY <2>0 DEF Code, LockCode
    <2>6. /\ Does(r, At("down", LockOf[c])) /\ \A p : Doing(r, p) <=> p = "down"
          /\ Range(r) = {At("down", LockOf[c]), At("hold", LockOf[c])}
      BY <2>2, FirstIs
    <2> HIDE DEF r
    <2>4. At("down", t) \notin Range(r)
      BY <2>0, <2>6, SynchAssumption, SMT DEF At
    <2>5. Follows(t, "down", t, r)
      BY <2>6, SynchAssumption, ThreadsAssumption DEF Follows, SemaIds
    <2> QED BY <2>1, <2>3, <2>4, <2>5, FitsBy
  <1> QED BY <1>1, <1>2, <1>3, <1>4 DEF WaitCode

\* The rest of a semaphore's operation fits.
LEMMA SemaFits ==
  ASSUME NEW t \in Thread, t # idle, NEW q, SemaCode(q)
  PROVE  Fits(t, q)
  <1>1. ASSUME NEW s \in Semas, q = <<At("down", s)>> PROVE Fits(t, q)
    <2> DEFINE r == <<>>
    <2>1. Splits(q, At("down", s), r, {At("down", s)})
      BY <1>1, Tuple1
    <2>2. r = <<>> /\ Range(r) = {}
      BY EmptyRange
    <2>3. Code(t, r)
      BY DEF Code
    <2>6. \A p : ~Doing(r, p)
      BY <2>2, FirstNone
    <2> HIDE DEF r
    <2>4. At("down", s) \notin Range(r)
      BY <2>2
    <2>5. Follows(t, "down", s, r)
      BY <2>2, <2>6, SynchAssumption, ThreadsAssumption DEF Follows, SemaIds
    <2> QED BY <2>1, <2>3, <2>4, <2>5, FitsBy
  <1>2. ASSUME NEW s \in Semas, q = <<At("trydown", s)>> PROVE Fits(t, q)
    <2> DEFINE r == <<>>
    <2>1. Splits(q, At("trydown", s), r, {At("trydown", s)})
      BY <1>2, Tuple1
    <2>2. r = <<>> /\ Range(r) = {}
      BY EmptyRange
    <2>3. Code(t, r)
      BY DEF Code
    <2>6. \A p : ~Doing(r, p)
      BY <2>2, FirstNone
    <2> HIDE DEF r
    <2>4. At("trydown", s) \notin Range(r)
      BY <2>2
    <2>5. Follows(t, "trydown", s, r)
      BY <2>2, <2>6, SynchAssumption, ThreadsAssumption DEF Follows, SemaIds
    <2> QED BY <2>1, <2>3, <2>4, <2>5, FitsBy
  <1>3. ASSUME NEW s \in Semas, q = <<At("up", s)>> PROVE Fits(t, q)
    <2> DEFINE r == <<>>
    <2>1. Splits(q, At("up", s), r, {At("up", s)})
      BY <1>3, Tuple1
    <2>2. r = <<>> /\ Range(r) = {}
      BY EmptyRange
    <2>3. Code(t, r)
      BY DEF Code
    <2>6. \A p : ~Doing(r, p)
      BY <2>2, FirstNone
    <2> HIDE DEF r
    <2>4. At("up", s) \notin Range(r)
      BY <2>2
    <2>5. Follows(t, "up", s, r)
      BY <2>2, <2>6, SynchAssumption, ThreadsAssumption DEF Follows, SemaIds
    <2> QED BY <2>1, <2>3, <2>4, <2>5, FitsBy
  <1> QED BY <1>1, <1>2, <1>3 DEF SemaCode

\* The rest of a cond_signal or a cond_broadcast fits.
LEMMA SignalFits ==
  ASSUME NEW t \in Thread, t # idle, NEW q, SignalCode(q)
  PROVE  Fits(t, q)
  <1>1. ASSUME NEW c \in Conds, q = <<At("signal", c)>> PROVE Fits(t, q)
    <2> DEFINE r == <<>>
    <2>1. Splits(q, At("signal", c), r, {At("signal", c)})
      BY <1>1, Tuple1
    <2>2. r = <<>> /\ Range(r) = {}
      BY EmptyRange
    <2>3. Code(t, r)
      BY DEF Code
    <2>6. \A p : ~Doing(r, p)
      BY <2>2, FirstNone
    <2> HIDE DEF r
    <2>4. At("signal", c) \notin Range(r)
      BY <2>2
    <2>5. Follows(t, "signal", c, r)
      BY <2>2, <2>6, SynchAssumption, ThreadsAssumption DEF Follows, SemaIds
    <2> QED BY <2>1, <2>3, <2>4, <2>5, FitsBy
  <1>2. ASSUME NEW c \in Conds, q = <<At("broadcast", c)>> PROVE Fits(t, q)
    <2> DEFINE r == <<>>
    <2>1. Splits(q, At("broadcast", c), r, {At("broadcast", c)})
      BY <1>2, Tuple1
    <2>2. r = <<>> /\ Range(r) = {}
      BY EmptyRange
    <2>3. Code(t, r)
      BY DEF Code
    <2>6. \A p : ~Doing(r, p)
      BY <2>2, FirstNone
    <2> HIDE DEF r
    <2>4. At("broadcast", c) \notin Range(r)
      BY <2>2
    <2>5. Follows(t, "broadcast", c, r)
      BY <2>2, <2>6, SynchAssumption, ThreadsAssumption DEF Follows, SemaIds
    <2> QED BY <2>1, <2>3, <2>4, <2>5, FitsBy
  <1>3. ASSUME NEW h \in Thread \ {idle}, q = <<At("up", h)>> PROVE Fits(t, q)
    <2> DEFINE r == <<>>
    <2>1. Splits(q, At("up", h), r, {At("up", h)})
      BY <1>3, Tuple1
    <2>2. r = <<>> /\ Range(r) = {}
      BY EmptyRange
    <2>3. Code(t, r)
      BY DEF Code
    <2>6. \A p : ~Doing(r, p)
      BY <2>2, FirstNone
    <2> HIDE DEF r
    <2>4. At("up", h) \notin Range(r)
      BY <2>2
    <2>5. Follows(t, "up", h, r)
      BY <2>2, <2>6, SynchAssumption, ThreadsAssumption DEF Follows, SemaIds
    <2> QED BY <2>1, <2>3, <2>4, <2>5, FitsBy
  <1>4. ASSUME NEW h \in Thread \ {idle}, NEW c \in Conds,
               q = <<At("up", h), At("broadcast", c)>> PROVE Fits(t, q)
    <2> DEFINE r == <<At("broadcast", c)>>
    <2>1. Splits(q, At("up", h), r, {At("up", h), At("broadcast", c)})
      BY <1>4, Tuple2
    <2>2. Splits(r, At("broadcast", c), <<>>, {At("broadcast", c)})
      BY Tuple1
    <2>3. Code(t, r)
      BY DEF Code, SignalCode
    <2>6. /\ Does(r, At("broadcast", c)) /\ \A p : Doing(r, p) <=> p = "broadcast"
          /\ Range(r) = {At("broadcast", c)}
      BY <2>2, FirstIs
    <2> HIDE DEF r
    <2>4. At("up", h) \notin Range(r)
      BY <2>6, SMT DEF At
    <2>5. Follows(t, "up", h, r)
      BY <2>6, SynchAssumption, ThreadsAssumption DEF Follows, SemaIds
    <2> QED BY <2>1, <2>3, <2>4, <2>5, FitsBy
  <1> QED BY <1>1, <1>2, <1>3, <1>4 DEF SignalCode

\* The rest of a thread_create fits.
LEMMA CreateFits ==
  ASSUME NEW t \in Thread, t # idle, NEW q, CreateCode(q)
  PROVE  Fits(t, q)
  <1>1. ASSUME NEW u \in Thread, q = <<At("init", u), At("down", tid_lock),
               At("hold", tid_lock), At("load", u), At("store", u), At("unhold", tid_lock),
                 At("up", tid_lock), At("unblock", u)>> PROVE Fits(t, q)
    <2> DEFINE r == <<At("down", tid_lock), At("hold", tid_lock), At("load", u), At("store", u),
          At("unhold", tid_lock), At("up", tid_lock), At("unblock", u)>>
    <2>1. Splits(q, At("init", u), r,
            {At("init", u), At("down", tid_lock), At("hold", tid_lock), At("load", u),
              At("store", u), At("unhold", tid_lock), At("up", tid_lock), At("unblock", u)})
      BY <1>1, Tuple8
    <2>2. Splits(r, At("down", tid_lock),
            <<At("hold", tid_lock), At("load", u), At("store", u), At("unhold", tid_lock),
              At("up", tid_lock), At("unblock", u)>>,
                {At("down", tid_lock), At("hold", tid_lock), At("load", u), At("store", u),
                  At("unhold", tid_lock), At("up", tid_lock), At("unblock", u)})
      BY Tuple7
    <2>3. Code(t, r)
      BY DEF Code, CreateCode
    <2>6. /\ Does(r, At("down", tid_lock)) /\ \A p : Doing(r, p) <=> p = "down"
          /\ Range(r) = {At("down", tid_lock), At("hold", tid_lock), At("load", u),
               At("store", u), At("unhold", tid_lock), At("up", tid_lock), At("unblock", u)}
      BY <2>2, FirstIs
    <2> HIDE DEF r
    <2>4. At("init", u) \notin Range(r)
      BY <2>6, SMT DEF At
    <2>7. \A y : At("unblock", y) \in Range(r) <=> y = u
      BY <2>6, SMT DEF At
    <2>5. Follows(t, "init", u, r)
      BY <2>6, <2>7, ThreadsAssumption DEF Follows, SemaIds
    <2> QED BY <2>1, <2>3, <2>4, <2>5, FitsBy
  <1>2. ASSUME NEW u \in Thread, q = <<At("down", tid_lock), At("hold", tid_lock),
               At("load", u), At("store", u), At("unhold", tid_lock), At("up", tid_lock),
                 At("unblock", u)>> PROVE Fits(t, q)
    <2> DEFINE r == <<At("hold", tid_lock), At("load", u), At("store", u),
          At("unhold", tid_lock), At("up", tid_lock), At("unblock", u)>>
    <2>1. Splits(q, At("down", tid_lock), r,
            {At("down", tid_lock), At("hold", tid_lock), At("load", u), At("store", u),
              At("unhold", tid_lock), At("up", tid_lock), At("unblock", u)})
      BY <1>2, Tuple7
    <2>2. Splits(r, At("hold", tid_lock),
            <<At("load", u), At("store", u), At("unhold", tid_lock), At("up", tid_lock),
              At("unblock", u)>>, {At("hold", tid_lock), At("load", u), At("store", u),
                At("unhold", tid_lock), At("up", tid_lock), At("unblock", u)})
      BY Tuple6
    <2>3. Code(t, r)
      BY DEF Code, CreateCode
    <2>6. /\ Does(r, At("hold", tid_lock)) /\ \A p : Doing(r, p) <=> p = "hold"
          /\ Range(r) = {At("hold", tid_lock), At("load", u), At("store", u),
               At("unhold", tid_lock), At("up", tid_lock), At("unblock", u)}
      BY <2>2, FirstIs
    <2> HIDE DEF r
    <2>4. At("down", tid_lock) \notin Range(r)
      BY <2>6, SMT DEF At
    <2>5. Follows(t, "down", tid_lock, r)
      BY <2>6, SynchAssumption, ThreadsAssumption DEF Follows, SemaIds
    <2> QED BY <2>1, <2>3, <2>4, <2>5, FitsBy
  <1>3. ASSUME NEW u \in Thread, q = <<At("hold", tid_lock), At("load", u), At("store", u),
               At("unhold", tid_lock), At("up", tid_lock), At("unblock", u)>> PROVE Fits(t, q)
    <2> DEFINE r == <<At("load", u), At("store", u), At("unhold", tid_lock), At("up", tid_lock),
          At("unblock", u)>>
    <2>1. Splits(q, At("hold", tid_lock), r,
            {At("hold", tid_lock), At("load", u), At("store", u), At("unhold", tid_lock),
              At("up", tid_lock), At("unblock", u)})
      BY <1>3, Tuple6
    <2>2. Splits(r, At("load", u),
            <<At("store", u), At("unhold", tid_lock), At("up", tid_lock), At("unblock", u)>>,
              {At("load", u), At("store", u), At("unhold", tid_lock), At("up", tid_lock),
                At("unblock", u)})
      BY Tuple5
    <2>3. Code(t, r)
      BY DEF Code, CreateCode
    <2>6. /\ Does(r, At("load", u)) /\ \A p : Doing(r, p) <=> p = "load"
          /\ Range(r) = {At("load", u), At("store", u), At("unhold", tid_lock),
               At("up", tid_lock), At("unblock", u)}
      BY <2>2, FirstIs
    <2> HIDE DEF r
    <2>4. At("hold", tid_lock) \notin Range(r)
      BY <2>6, SMT DEF At
    <2>5. Follows(t, "hold", tid_lock, r)
      BY <2>6, SynchAssumption, ThreadsAssumption DEF Follows, SemaIds
    <2> QED BY <2>1, <2>3, <2>4, <2>5, FitsBy
  <1>4. ASSUME NEW u \in Thread, q = <<At("load", u), At("store", u), At("unhold", tid_lock),
               At("up", tid_lock), At("unblock", u)>> PROVE Fits(t, q)
    <2> DEFINE r == <<At("store", u), At("unhold", tid_lock), At("up", tid_lock),
          At("unblock", u)>>
    <2>1. Splits(q, At("load", u), r,
            {At("load", u), At("store", u), At("unhold", tid_lock), At("up", tid_lock),
              At("unblock", u)})
      BY <1>4, Tuple5
    <2>2. Splits(r, At("store", u),
            <<At("unhold", tid_lock), At("up", tid_lock), At("unblock", u)>>,
              {At("store", u), At("unhold", tid_lock), At("up", tid_lock), At("unblock", u)})
      BY Tuple4
    <2>3. Code(t, r)
      BY DEF Code, CreateCode
    <2>6. /\ Does(r, At("store", u)) /\ \A p : Doing(r, p) <=> p = "store"
          /\ Range(r) = {At("store", u), At("unhold", tid_lock), At("up", tid_lock),
               At("unblock", u)}
      BY <2>2, FirstIs
    <2> HIDE DEF r
    <2>4. At("load", u) \notin Range(r)
      BY <2>6, SMT DEF At
    <2>5. Follows(t, "load", u, r)
      BY <2>6, SynchAssumption, ThreadsAssumption DEF Follows, SemaIds
    <2> QED BY <2>1, <2>3, <2>4, <2>5, FitsBy
  <1>5. ASSUME NEW u \in Thread, q = <<At("store", u), At("unhold", tid_lock),
               At("up", tid_lock), At("unblock", u)>> PROVE Fits(t, q)
    <2> DEFINE r == <<At("unhold", tid_lock), At("up", tid_lock), At("unblock", u)>>
    <2>1. Splits(q, At("store", u), r,
            {At("store", u), At("unhold", tid_lock), At("up", tid_lock), At("unblock", u)})
      BY <1>5, Tuple4
    <2>2. Splits(r, At("unhold", tid_lock), <<At("up", tid_lock), At("unblock", u)>>,
            {At("unhold", tid_lock), At("up", tid_lock), At("unblock", u)})
      BY Tuple3
    <2>3. Code(t, r)
      BY DEF Code, CreateCode
    <2>6. /\ Does(r, At("unhold", tid_lock)) /\ \A p : Doing(r, p) <=> p = "unhold"
          /\ Range(r) = {At("unhold", tid_lock), At("up", tid_lock), At("unblock", u)}
      BY <2>2, FirstIs
    <2> HIDE DEF r
    <2>4. At("store", u) \notin Range(r)
      BY <2>6, SMT DEF At
    <2>5. Follows(t, "store", u, r)
      BY <2>6, SynchAssumption, ThreadsAssumption DEF Follows, SemaIds
    <2> QED BY <2>1, <2>3, <2>4, <2>5, FitsBy
  <1>6. ASSUME NEW u \in Thread, q = <<At("unhold", tid_lock), At("up", tid_lock),
               At("unblock", u)>> PROVE Fits(t, q)
    <2> DEFINE r == <<At("up", tid_lock), At("unblock", u)>>
    <2>1. Splits(q, At("unhold", tid_lock), r,
            {At("unhold", tid_lock), At("up", tid_lock), At("unblock", u)})
      BY <1>6, Tuple3
    <2>2. Splits(r, At("up", tid_lock), <<At("unblock", u)>>,
            {At("up", tid_lock), At("unblock", u)})
      BY Tuple2
    <2>3. Code(t, r)
      BY DEF Code, CreateCode
    <2>6. /\ Does(r, At("up", tid_lock)) /\ \A p : Doing(r, p) <=> p = "up"
          /\ Range(r) = {At("up", tid_lock), At("unblock", u)}
      BY <2>2, FirstIs
    <2> HIDE DEF r
    <2>4. At("unhold", tid_lock) \notin Range(r)
      BY <2>6, SMT DEF At
    <2>5. Follows(t, "unhold", tid_lock, r)
      BY <2>6, SynchAssumption, ThreadsAssumption DEF Follows, SemaIds
    <2> QED BY <2>1, <2>3, <2>4, <2>5, FitsBy
  <1>7. ASSUME NEW u \in Thread, q = <<At("up", tid_lock), At("unblock", u)>> PROVE Fits(t, q)
    <2> DEFINE r == <<At("unblock", u)>>
    <2>1. Splits(q, At("up", tid_lock), r, {At("up", tid_lock), At("unblock", u)})
      BY <1>7, Tuple2
    <2>2. Splits(r, At("unblock", u), <<>>, {At("unblock", u)})
      BY Tuple1
    <2>3. Code(t, r)
      BY DEF Code, CreateCode
    <2>6. /\ Does(r, At("unblock", u)) /\ \A p : Doing(r, p) <=> p = "unblock"
          /\ Range(r) = {At("unblock", u)}
      BY <2>2, FirstIs
    <2> HIDE DEF r
    <2>4. At("up", tid_lock) \notin Range(r)
      BY <2>6, SMT DEF At
    <2>5. Follows(t, "up", tid_lock, r)
      BY <2>6, SynchAssumption, ThreadsAssumption DEF Follows, SemaIds
    <2> QED BY <2>1, <2>3, <2>4, <2>5, FitsBy
  <1>8. ASSUME NEW u \in Thread, q = <<At("unblock", u)>> PROVE Fits(t, q)
    <2> DEFINE r == <<>>
    <2>1. Splits(q, At("unblock", u), r, {At("unblock", u)})
      BY <1>8, Tuple1
    <2>2. r = <<>> /\ Range(r) = {}
      BY EmptyRange
    <2>3. Code(t, r)
      BY DEF Code
    <2>6. \A p : ~Doing(r, p)
      BY <2>2, FirstNone
    <2> HIDE DEF r
    <2>4. At("unblock", u) \notin Range(r)
      BY <2>2
    <2>5. Follows(t, "unblock", u, r)
      BY <2>2, <2>6, SynchAssumption, ThreadsAssumption DEF Follows, SemaIds
    <2> QED BY <2>1, <2>3, <2>4, <2>5, FitsBy
  <1> QED BY <1>1, <1>2, <1>3, <1>4, <1>5, <1>6, <1>7, <1>8 DEF CreateCode

\* The rest of a sleep, a yield, an exit or main's wait fits.
LEMMA OtherFits ==
  ASSUME NEW t \in Thread, t # idle, NEW q, OtherCode(t, q)
  PROVE  Fits(t, q)
  <1>1. ASSUME NEW n \in 1..MaxSleep, q = <<At("sleep", n)>> PROVE Fits(t, q)
    <2> DEFINE r == <<>>
    <2>1. Splits(q, At("sleep", n), r, {At("sleep", n)})
      BY <1>1, Tuple1
    <2>2. r = <<>> /\ Range(r) = {}
      BY EmptyRange
    <2>3. Code(t, r)
      BY DEF Code
    <2>6. \A p : ~Doing(r, p)
      BY <2>2, FirstNone
    <2> HIDE DEF r
    <2>4. At("sleep", n) \notin Range(r)
      BY <2>2
    <2>5. Follows(t, "sleep", n, r)
      BY <2>2, <2>6, SynchAssumption, ThreadsAssumption DEF Follows, SemaIds
    <2> QED BY <2>1, <2>3, <2>4, <2>5, FitsBy
  <1>2. ASSUME q = <<At("yield", Null)>> PROVE Fits(t, q)
    <2> DEFINE r == <<>>
    <2>1. Splits(q, At("yield", Null), r, {At("yield", Null)})
      BY <1>2, Tuple1
    <2>2. r = <<>> /\ Range(r) = {}
      BY EmptyRange
    <2>3. Code(t, r)
      BY DEF Code
    <2>6. \A p : ~Doing(r, p)
      BY <2>2, FirstNone
    <2> HIDE DEF r
    <2>4. At("yield", Null) \notin Range(r)
      BY <2>2
    <2>5. Follows(t, "yield", Null, r)
      BY <2>2, <2>6, SynchAssumption, ThreadsAssumption DEF Follows, SemaIds
    <2> QED BY <2>1, <2>3, <2>4, <2>5, FitsBy
  <1>3. ASSUME q = <<At("exit", Null)>> PROVE Fits(t, q)
    <2> DEFINE r == <<>>
    <2>1. Splits(q, At("exit", Null), r, {At("exit", Null)})
      BY <1>3, Tuple1
    <2>2. r = <<>> /\ Range(r) = {}
      BY EmptyRange
    <2>3. Code(t, r)
      BY DEF Code
    <2>6. \A p : ~Doing(r, p)
      BY <2>2, FirstNone
    <2> HIDE DEF r
    <2>4. At("exit", Null) \notin Range(r)
      BY <2>2
    <2>5. Follows(t, "exit", Null, r)
      BY <2>2, <2>6, SynchAssumption, ThreadsAssumption DEF Follows, SemaIds
    <2> QED BY <2>1, <2>3, <2>4, <2>5, FitsBy
  <1>4. ASSUME q = <<At("down", idle)>> PROVE Fits(t, q)
    <2> DEFINE r == <<>>
    <2>1. Splits(q, At("down", idle), r, {At("down", idle)})
      BY <1>4, Tuple1
    <2>2. r = <<>> /\ Range(r) = {}
      BY EmptyRange
    <2>3. Code(t, r)
      BY DEF Code
    <2>6. \A p : ~Doing(r, p)
      BY <2>2, FirstNone
    <2> HIDE DEF r
    <2>4. At("down", idle) \notin Range(r)
      BY <2>2
    <2>5. Follows(t, "down", idle, r)
      BY <2>2, <2>6, SynchAssumption, ThreadsAssumption DEF Follows, SemaIds
    <2> QED BY <2>1, <2>3, <2>4, <2>5, FitsBy
  <1> QED BY <1>1, <1>2, <1>3, <1>4 DEF OtherCode

\* The rest of the idle thread's loop fits.
LEMMA IdleFits ==
  ASSUME NEW t \in Thread, t = idle, NEW q, IdleCode(q)
  PROVE  Fits(t, q)
  <1>1. ASSUME q = <<At("idle", Null), At("up", idle), At("block", Null)>> PROVE Fits(t, q)
    <2> DEFINE r == <<At("up", idle), At("block", Null)>>
    <2>1. Splits(q, At("idle", Null), r, {At("idle", Null), At("up", idle), At("block", Null)})
      BY <1>1, Tuple3
    <2>2. Splits(r, At("up", idle), <<At("block", Null)>>, {At("up", idle), At("block", Null)})
      BY Tuple2
    <2>3. Code(t, r)
      BY DEF Code, IdleCode
    <2>6. /\ Does(r, At("up", idle)) /\ \A p : Doing(r, p) <=> p = "up"
          /\ Range(r) = {At("up", idle), At("block", Null)}
      BY <2>2, FirstIs
    <2> HIDE DEF r
    <2>4. At("idle", Null) \notin Range(r)
      BY <2>6, SMT DEF At
    <2>5. Follows(t, "idle", Null, r)
      BY <2>6, SynchAssumption, ThreadsAssumption DEF Follows, SemaIds
    <2> QED BY <2>1, <2>3, <2>4, <2>5, FitsBy
  <1>2. ASSUME q = <<At("up", idle), At("block", Null)>> PROVE Fits(t, q)
    <2> DEFINE r == <<At("block", Null)>>
    <2>1. Splits(q, At("up", idle), r, {At("up", idle), At("block", Null)})
      BY <1>2, Tuple2
    <2>2. Splits(r, At("block", Null), <<>>, {At("block", Null)})
      BY Tuple1
    <2>3. Code(t, r)
      BY DEF Code, IdleCode
    <2>6. /\ Does(r, At("block", Null)) /\ \A p : Doing(r, p) <=> p = "block"
          /\ Range(r) = {At("block", Null)}
      BY <2>2, FirstIs
    <2> HIDE DEF r
    <2>4. At("up", idle) \notin Range(r)
      BY <2>6, SMT DEF At
    <2>5. Follows(t, "up", idle, r)
      BY <2>6, SynchAssumption, ThreadsAssumption DEF Follows, SemaIds
    <2> QED BY <2>1, <2>3, <2>4, <2>5, FitsBy
  <1>3. ASSUME q = <<At("hlt", Null), At("block", Null)>> PROVE Fits(t, q)
    <2> DEFINE r == <<At("block", Null)>>
    <2>1. Splits(q, At("hlt", Null), r, {At("hlt", Null), At("block", Null)})
      BY <1>3, Tuple2
    <2>2. Splits(r, At("block", Null), <<>>, {At("block", Null)})
      BY Tuple1
    <2>3. Code(t, r)
      BY DEF Code, IdleCode
    <2>6. /\ Does(r, At("block", Null)) /\ \A p : Doing(r, p) <=> p = "block"
          /\ Range(r) = {At("block", Null)}
      BY <2>2, FirstIs
    <2> HIDE DEF r
    <2>4. At("hlt", Null) \notin Range(r)
      BY <2>6, SMT DEF At
    <2>5. Follows(t, "hlt", Null, r)
      BY <2>6, SynchAssumption, ThreadsAssumption DEF Follows, SemaIds
    <2> QED BY <2>1, <2>3, <2>4, <2>5, FitsBy
  <1>4. ASSUME q = <<At("block", Null)>> PROVE Fits(t, q)
    <2> DEFINE r == <<>>
    <2>1. Splits(q, At("block", Null), r, {At("block", Null)})
      BY <1>4, Tuple1
    <2>2. r = <<>> /\ Range(r) = {}
      BY EmptyRange
    <2>3. "block" # "block" => Code(t, r)
      BY SMT
    <2>6. \A p : ~Doing(r, p)
      BY <2>2, FirstNone
    <2> HIDE DEF r
    <2>4. At("block", Null) \notin Range(r)
      BY <2>2
    <2>5. Follows(t, "block", Null, r)
      BY <2>2, <2>6, SynchAssumption, ThreadsAssumption DEF Follows, SemaIds
    <2> QED BY <2>1, <2>3, <2>4, <2>5, FitsBy
  <1> QED BY <1>1, <1>2, <1>3, <1>4 DEF IdleCode

\* Whatever a thread has still to do fits.
LEMMA CodeFits ==
  ASSUME NEW t \in Thread, NEW q, Code(t, q), q # <<>>
  PROVE  Fits(t, q)
  BY SemaFits, LockFits, WaitFits, SignalFits, CreateFits, OtherFits, IdleFits DEF Code

\* What is known of the first step of what a thread has to do.
LEMMA CodeFollows ==
  ASSUME NEW t \in Thread, NEW q, Code(t, q), q # <<>>, NEW op, NEW x, Head(q) = At(op, x)
  PROVE  Follows(t, op, x, Tail(q)) /\ Range(Tail(q)) \subseteq Range(q)
  <1>1. At(op, x).op = op /\ At(op, x).x = x
    BY SMT DEF At
  <1>2. Follows(t, Head(q).op, Head(q).x, Tail(q)) /\ Range(Tail(q)) \subseteq Range(q)
    BY CodeFits DEF Fits
  <1> QED BY <1>1, <1>2

\* The idle thread always has a step, and never waits on a semaphore.
LEMMA IdleSteps ==
  ASSUME NEW q, Code(idle, q)
  PROVE  q # <<>> /\ ~Doing(q, "down")
  <1>1. IdleCode(q)
    BY DEF Code
  <1>2. q # <<>>
    BY <1>1, SMT DEF IdleCode
  <1>3. Follows(idle, Head(q).op, Head(q).x, Tail(q))
    BY <1>2, CodeFits, ThreadsAssumption DEF Fits
  <1> QED BY <1>2, <1>3, SMT DEF Follows, Doing

-----------------------------------------------------------------------------
(* The lists and the scheduler.                                            *)

\* list_pop_front: the others are each in the list once.
LEMMA InjTail ==
  ASSUME NEW S, NEW q \in Seq(S), q # <<>>, IsInjective(q)
  PROVE  /\ Head(q) \in S /\ Head(q) \in Range(q) /\ Tail(q) \in Seq(S)
         /\ IsInjective(Tail(q)) /\ Range(Tail(q)) = Range(q) \ {Head(q)}
  <1>1. /\ Len(q) \in Nat /\ Len(q) >= 1 /\ Head(q) = q[1] /\ Tail(q) \in Seq(S)
        /\ DOMAIN q = 1..Len(q) /\ DOMAIN Tail(q) = 1..Len(q) - 1
        /\ \A i \in 1..Len(q) - 1 : Tail(q)[i] = q[i + 1]
    BY SMT
  <1>2. \A i, j \in 1..Len(q) : q[i] = q[j] => i = j
    BY <1>1 DEF IsInjective
  <1>3. IsInjective(Tail(q))
    BY <1>1, <1>2, SMT DEF IsInjective
  <1>4. ASSUME NEW x PROVE x \in Range(Tail(q)) <=> x \in Range(q) /\ x # Head(q)
    <2>1. ASSUME NEW i \in 1..Len(q) - 1, x = Tail(q)[i] PROVE x \in Range(q) /\ x # Head(q)
      BY <1>1, <1>2, <2>1, SMT DEF Range
    <2>2. ASSUME NEW i \in 1..Len(q), x = q[i], x # Head(q) PROVE x \in Range(Tail(q))
      <3>1. i - 1 \in 1..Len(q) - 1 /\ i - 1 + 1 = i
        BY <1>1, <2>2, SMT
      <3> QED BY <1>1, <2>2, <3>1 DEF Range
    <2> QED BY <1>1, <2>1, <2>2 DEF Range
  <1>5. Head(q) \in Range(q) /\ Head(q) \in S
    BY <1>1, SMT DEF Range
  <1> QED BY <1>1, <1>3, <1>4, <1>5

\* list_push_back of a thread that is not in the list.
LEMMA InjAppend ==
  ASSUME NEW S, NEW q \in Seq(S), NEW x \in S, x \notin Range(q), IsInjective(q)
  PROVE  /\ Append(q, x) \in Seq(S) /\ Append(q, x) # <<>>
         /\ IsInjective(Append(q, x)) /\ Range(Append(q, x)) = Range(q) \cup {x}
  <1> DEFINE p == Append(q, x)
  <1>1. /\ Len(q) \in Nat /\ p \in Seq(S) /\ DOMAIN q = 1..Len(q) /\ DOMAIN p = 1..Len(q) + 1
        /\ p[Len(q) + 1] = x /\ \A i \in 1..Len(q) : p[i] = q[i]
    BY SMT
  <1> HIDE DEF p
  <1>2. \A i \in 1..Len(q) : q[i] # x
    BY <1>1 DEF Range
  <1>3. IsInjective(p)
    BY <1>1, <1>2, SMT DEF IsInjective
  <1>4. \A i \in 1..Len(q) + 1 : i \in 1..Len(q) \/ i = Len(q) + 1
    BY <1>1, SMT
  <1>5. \A i \in 1..Len(q) : i \in 1..Len(q) + 1
    BY <1>1, SMT
  <1>6. Len(q) + 1 \in 1..Len(q) + 1
    BY <1>1, SMT
  <1>7. ASSUME NEW y PROVE y \in Range(p) <=> y \in Range(q) \/ y = x
    BY <1>1, <1>4, <1>5, <1>6 DEF Range
  <1>8. p # <<>>
    BY <1>1, SMT
  <1> QED BY <1>1, <1>3, <1>7, <1>8 DEF p

\* The members of a list of threads are threads.
LEMMA RangeOfSeq ==
  ASSUME NEW S, NEW q \in Seq(S)
  PROVE  Range(q) \subseteq S /\ (q = <<>> <=> Range(q) = {})
  BY SMT DEF Range

-----------------------------------------------------------------------------
(* The scheduler *)

\* thread_yield: the running thread is put at the end of the ready list.
LEMMA ReadyAppend ==
  ASSUME SchedType, SchedOK, current \notin Range(ready_list)
  PROVE  /\ Append(ready_list, current) \in Seq(Thread)
            /\ IsInjective(Append(ready_list, current))
         /\ Range(Append(ready_list, current)) = Range(ready_list) \cup {current}
  <1>1. ready_list \in Seq(Thread) /\ current \in Thread /\ IsInjective(ready_list)
    BY DEF SchedType, SchedOK
  <1> QED BY <1>1, InjAppend

(* schedule, called by the running thread with its new status X.           *)
LEMMA Switched ==
  ASSUME SchedType, SchedOK, NEW X \in {"blocked", "ready", "dying"}, NEW ready,
         ready = IF X = "ready" /\ current # idle_thread
                 THEN Append(ready_list, current) ELSE ready_list,
         schedule([status EXCEPT ![current] = X], ready),
         current = idle /\ X = "blocked" => idle_thread = idle,
         current = idle => X # "dying",
         idle_thread' = idle_thread
  PROVE  /\ SchedType' /\ SchedOK'
         /\ \A t \in Thread \ {idle} :
              status'[t] = "blocked"
                <=> IF t = current THEN X = "blocked" ELSE status[t] = "blocked"
         /\ \A t \in Thread :
              status'[t] \in {"none", "dying"} <=>
                IF t = current THEN X = "dying" ELSE status[t] \in {"none", "dying"}
  <1> DEFINE st == [status EXCEPT ![current] = X]
             next == next_thread_to_run(ready)
  <1>1. /\ current' = next /\ thread_ticks' = 0
        /\ ready_list' = IF ready = <<>> THEN ready ELSE Tail(ready)
        /\ status' = [t \in Thread |-> CASE t = next -> "running"
                                         [] st[t] = "dying" /\ t # main -> "none"
                                         [] OTHER -> st[t]]
    BY DEF schedule
  <1>2. \A t \in Thread : st[t] = IF t = current THEN X ELSE status[t]
    BY DEF SchedType
  <1>3. /\ ready \in Seq(Thread) /\ IsInjective(ready)
        /\ \A t \in Thread : t \in Range(ready) <=> st[t] = "ready" /\ t # idle_thread
    <2>1. CASE X = "ready" /\ current # idle_thread
      <3>1. current \notin Range(ready_list)
        BY DEF SchedType, SchedOK
      <3>0. /\ ready_list \in Seq(Thread) /\ current \in Thread /\ IsInjective(ready_list)
            /\ ready = Append(ready_list, current)
        BY <2>1 DEF SchedType, SchedOK
      <3>2. /\ ready \in Seq(Thread) /\ IsInjective(ready)
            /\ Range(ready) = Range(ready_list) \cup {current}
        <4>1. /\ Append(ready_list, current) \in Seq(Thread)
                   /\ IsInjective(Append(ready_list, current))
              /\ Range(Append(ready_list, current)) = Range(ready_list) \cup {current}
          BY <3>1, ReadyAppend
        <4> QED BY <3>0, <4>1
      <3> QED BY <1>2, <2>1, <3>2 DEF SchedType, SchedOK
    <2>2. CASE ~(X = "ready" /\ current # idle_thread)
      <3>1. ready = ready_list
        BY <2>2
      <3> QED BY <1>2, <2>2, <3>1 DEF SchedType, SchedOK
    <2> QED BY <2>1, <2>2
  <1>4. /\ next \in Thread /\ st[next] # "dying" /\ st[next] # "none"
        /\ next # idle => st[next] = "ready"
        /\ st[next] = "blocked" => next = idle
        /\ ready_list' \in Seq(Thread) /\ IsInjective(ready_list')
        /\ \A t \in Thread : t \in Range(ready_list') <=> st[t] = "ready" /\ t # idle_thread
             /\ t # next
    <2>1. CASE ready = <<>>
      <3>1. Range(ready) = {}
        BY <1>3, <2>1, RangeOfSeq
      <3>2. next = idle_thread
        BY <2>1 DEF next_thread_to_run
      <3>3. idle_thread = idle
        <4>1. CASE idle_thread = Null
          <5>1. idle \in Thread /\ idle # idle_thread
            BY <4>1, ThreadsAssumption
          <5>2. st[idle] # "ready"
            BY <1>3, <3>1, <5>1
          <5> QED BY <1>2, <4>1, <5>1, <5>2 DEF SchedOK, SchedType, Statuses
        <4> QED BY <4>1 DEF SchedType
      <3>4. st[idle] # "dying" /\ st[idle] # "none"
        BY <1>2, <3>3, ThreadsAssumption DEF SchedOK
      <3> HIDE DEF next, st
      <3> QED BY <1>1, <1>3, <2>1, <3>1, <3>2, <3>3, <3>4, ThreadsAssumption
    <2>2. CASE ready # <<>>
      <3>1. /\ Head(ready) \in Thread /\ Head(ready) \in Range(ready)
                 /\ Tail(ready) \in Seq(Thread)
            /\ IsInjective(Tail(ready)) /\ Range(Tail(ready)) = Range(ready) \ {Head(ready)}
        BY <1>3, <2>2, InjTail
      <3>2. next = Head(ready) /\ ready_list' = Tail(ready)
        BY <1>1, <2>2 DEF next_thread_to_run
      <3> HIDE DEF next, st
      <3>3. st[next] = "ready"
        BY <1>3, <3>1, <3>2
      <3>4. st[next] # "dying" /\ st[next] # "none" /\ st[next] # "blocked"
        BY <3>3
      <3> QED BY <1>3, <3>1, <3>2, <3>3, <3>4
    <2> QED BY <2>1, <2>2
  <1>5. \A t \in Thread : status'[t] = IF t = next THEN "running"
                                       ELSE IF st[t] = "dying"
                                        /\ t # main THEN "none" ELSE st[t]
    <2> HIDE DEF st, next
    <2> TAKE t \in Thread
    <2>1. status'[t] = CASE t = next -> "running"
                         [] st[t] = "dying" /\ t # main -> "none"
                         [] OTHER -> st[t]
      BY <1>1
    <2>2. CASE t = next
      BY <1>4, <2>1, <2>2
    <2>3. CASE t # next
      BY <2>1, <2>3
    <2> QED BY <2>2, <2>3
  <1> HIDE DEF st, next
  <1>6. SchedType'
    <2>1. \A t \in Thread : status'[t] \in Statuses
      BY <1>2, <1>5 DEF SchedType, Statuses
    <2>2. status' \in [Thread -> Statuses]
      BY <1>1, <2>1
    <2>3. thread_ticks' \in 0..TIME_SLICE - 1
      BY <1>1, ThreadsAssumption, SMT
    <2> QED BY <1>1, <1>4, <2>2, <2>3 DEF SchedType
  <1>7. \A t \in Thread : st[t] # "running"
    BY <1>2 DEF SchedOK
  <1>8. SchedOK'
    <2>1. \A t \in Thread : status'[t] = "running" <=> t = next
      BY <1>5, <1>7
    <2>2. \A t \in Thread : status'[t] = "ready" <=> st[t] = "ready" /\ t # next
      BY <1>5
    <2>3. status'[idle] \notin {"none", "dying"}
      <3>1. st[idle] \notin {"none", "dying"}
        BY <1>2, ThreadsAssumption DEF SchedOK
      <3> QED BY <1>5, <3>1, ThreadsAssumption
    <2>4. idle_thread = Null => status'[idle] # "blocked"
      <3>1. idle_thread = Null => st[idle] # "blocked"
        BY <1>2, ThreadsAssumption DEF SchedOK
      <3> QED BY <1>5, <3>1, ThreadsAssumption
    <2> QED BY <1>1, <1>4, <2>1, <2>2, <2>3, <2>4 DEF SchedOK
  <1>9. \A t \in Thread \ {idle} : status'[t] = "blocked"
          <=> IF t = current THEN X = "blocked" ELSE status[t] = "blocked"
    BY <1>2, <1>4, <1>5
  <1>10. \A t \in Thread : status'[t] \in {"none", "dying"} <=>
            IF t = current THEN X = "dying" ELSE status[t] \in {"none", "dying"}
    BY <1>2, <1>4, <1>5
  <1> QED BY <1>6, <1>8, <1>9, <1>10, Zenon

-----------------------------------------------------------------------------
(* What a step that leaves a part of the state alone keeps.                *)

(* What is used of cardinalities.                                          *)
ThreadSets ==
  /\ Cardinality({}) = 0 /\ \A t \in Thread : Cardinality({t}) = 1
  /\ \A S \in SUBSET Thread : Cardinality(S) \in Nat
  /\ \A S \in SUBSET Thread : \A t \in Thread \ S : Cardinality(S \cup {t}) = Cardinality(S) + 1

(* The running thread goes on with p instead of td[current].               *)
Moved(td, p) ==
  /\ DOMAIN todo' = Thread /\ todo'[current] = p
  /\ \A u \in Thread \ {current} : todo'[u] = td[u]

\* A step that is about no lock.
NotLock(q) ==
  \/ q = <<>>
  \/ /\ Head(q).op \notin {"hold", "unhold", "enqueue", "load", "store"}
     /\ ~(Head(q).op = "up" /\ Head(q).x \in Locks)

\* What a step that is about no lock is not.
LEMMA NotLockNot ==
  ASSUME NEW q, NotLock(q)
  PROVE  /\ \A l \in Locks : /\ ~Does(q, At("hold", l)) /\ ~Does(q, At("up", l))
                             /\ ~Does(q, At("unhold", l))
         /\ \A c : ~Does(q, At("enqueue", c))
         /\ ~Doing(q, "load") /\ ~Doing(q, "store")
  BY SMT DEF NotLock, Does, Doing, At

\* Every thread is still in a call when the running one goes on.
LEMMA CodeKept ==
  ASSUME NEW td, NEW p, CodeI(td), Moved(td, p), Code(current, p), current \in Thread
  PROVE  CodeI(todo)'
  BY DEF CodeI, Moved

\* The pages that hold no thread, when the running thread goes on.
LEMMA DeadKept ==
  ASSUME NEW td, NEW p, DeadI(td), Moved(td, p), current \in Thread,
         \A t \in Thread : status'[t] \in {"none", "dying"} =>
           status[t] \in {"none", "dying"} /\ t # current,
         all_list' = all_list,
         \A l \in Locks : holder'[l] \in {holder[l], current, Null}
  PROVE  DeadI(todo)'
  <1> SUFFICES ASSUME NEW t \in Thread, status'[t] \in {"none", "dying"}
               PROVE  todo'[t] = <<>> /\ t \notin all_list' /\ \A l \in Locks : holder'[l] # t
    BY DEF DeadI
  <1>1. status[t] \in {"none", "dying"} /\ t # current
    OBVIOUS
  <1>2. td[t] = <<>> /\ t \notin all_list /\ \A l \in Locks : holder[l] # t
    BY <1>1 DEF DeadI
  <1>3. todo'[t] = <<>>
    BY <1>1, <1>2 DEF Moved
  <1> QED BY <1>1, <1>2, <1>3, ThreadsAssumption

\* The threads being created, when the running one goes on.
LEMMA MakeKept ==
  ASSUME NEW td, NEW p, MakeI(td), Moved(td, p), current \in Thread,
         \A t \in Thread : (status'[t] = "blocked" /\ todo'[t] = <<>>) <=>
                           (status[t] = "blocked" /\ td[t] = <<>>),
         \A t \in Thread : Makes(p, t) <=> Makes(td[current], t)
  PROVE  MakeI(todo)'
  <1>1. \A t, u \in Thread : Makes(todo'[u], t) <=> Makes(td[u], t)
    BY DEF Moved
  <1>2. \A t, u \in Thread : Makes(todo'[u], t) => status'[t] = "blocked" /\ todo'[t] = <<>>
    BY <1>1 DEF MakeI
  <1>3. \A t, u, v \in Thread : Makes(todo'[u], t) /\ Makes(todo'[v], t) => u = v
    BY <1>1 DEF MakeI
  <1>4. \A t \in Thread : status'[t] = "blocked" /\ todo'[t] = <<>> =>
          \E u \in Thread : Makes(todo'[u], t)
    BY <1>1 DEF MakeI
  <1> HIDE DEF Makes
  <1> QED BY <1>2, <1>3, <1>4 DEF MakeI, Makes

\* The locks, when the running thread does nothing about any.
LEMMA LockKept ==
  ASSUME NEW td, NEW p, LockI(td), Moved(td, p), current \in Thread,
         holder' = holder, \A l \in Locks : value'[l] = value[l],
         NotLock(td[current]), NotLock(p), ~Doing(p, "exit")
  PROVE  LockI(todo)'
  <1> DEFINE q == td[current]
  <1>1. \A t \in Thread : t # current => todo'[t] = td[t]
    BY DEF Moved
  <1>2. todo'[current] = p
    BY DEF Moved
  <1>3. /\ \A l \in Locks : /\ ~Does(q, At("hold", l)) /\ ~Does(q, At("up", l))
                            /\ ~Does(q, At("unhold", l))
        /\ \A c : ~Does(q, At("enqueue", c))
        /\ ~Doing(q, "load") /\ ~Doing(q, "store")
    BY NotLockNot
  <1>4. /\ \A l \in Locks : /\ ~Does(p, At("hold", l)) /\ ~Does(p, At("up", l))
                            /\ ~Does(p, At("unhold", l))
        /\ \A c : ~Does(p, At("enqueue", c))
        /\ ~Doing(p, "load") /\ ~Doing(p, "store")
    BY NotLockNot
  <1>5. \A t \in Thread : \A l \in Locks : Owner(todo, t, l)' <=> Owner(td, t, l)
    BY <1>1, <1>2, <1>3, <1>4 DEF Owner
  <1>6. \A l \in Locks : OneOwner(todo, l)'
    <2> TAKE l \in Locks
    <2>1. OneOwner(td, l)
      BY DEF LockI
    <2>2. \A t \in Thread : Owner(todo, t, l)' <=> Owner(td, t, l)
      BY <1>5
    <2> QED BY <2>1, <2>2 DEF OneOwner
  <1>7. ASSUME NEW t \in Thread
        PROVE  /\ \A l \in Locks : /\ Does(todo'[t], At("unhold", l)) => holder[l] = t
                                   /\ Does(todo'[t], At("up", l)) => holder[l] # t
               /\ \A c \in Conds : Does(todo'[t], At("enqueue", c)) => holder[LockOf[c]] = t
               /\ holder[tid_lock] = t <=> \/ Doing(todo'[t], "load") \/ Doing(todo'[t], "store")
                                           \/ Does(todo'[t], At("unhold", tid_lock))
               /\ Doing(todo'[t], "exit") => \A l \in Locks : holder[l] # t
    <2>1. CASE t = current
      BY <1>2, <1>3, <1>4, <2>1, SynchAssumption DEF LockI
    <2>2. CASE t # current
      BY <1>1, <2>2 DEF LockI
    <2> QED BY <2>1, <2>2
  <1> QED BY <1>6, <1>7 DEF LockI

\* The condition variables, when a step changes no list of theirs.
LEMMA SignalKept ==
  ASSUME NEW td, NEW p, SignalI(td), Moved(td, p), current \in Thread,
         cond' = cond, \A t \in Thread \ {idle} : value'[t] = value[t],
         \A t \in Thread \ {idle} : Upping(p, t) <=> Upping(td[current], t),
         current # idle => (Waits(p, current) <=> Waits(td[current], current))
  PROVE  SignalI(todo)'
  <1>1. \A t \in Thread \ {idle} : Waits(todo'[t], t) <=> Waits(td[t], t)
    BY DEF Moved
  <1>2. \A t \in Thread \ {idle} : \A u \in Thread : Upping(todo'[u], t) <=> Upping(td[u], t)
    BY DEF Moved
  <1>3. \A t \in Thread : \A c \in Conds : Listed(t, c)' <=> Listed(t, c)
    BY DEF Listed
  <1>4. \A c \in Conds : IsInjective(cond'[c]) /\ ~Listed(idle, c)'
    BY <1>3, ThreadsAssumption DEF SignalI
  <1>5. ASSUME NEW t \in Thread \ {idle}
        PROVE \/ /\ Waits(todo'[t], t) /\ value'[t] = 0
                 /\ \A u \in Thread : ~Upping(todo'[u], t)
                 /\ \E c \in Conds : \A d \in Conds : Listed(t, d)' <=> d = c
              \/ /\ Waits(todo'[t], t) /\ value'[t] = 0
                 /\ \E v \in Thread : \A u \in Thread : Upping(todo'[u], t) <=> u = v
                 /\ \A c \in Conds : ~Listed(t, c)'
              \/ /\ value'[t] = IF Waits(todo'[t], t) THEN 1 ELSE 0
                 /\ \A u \in Thread : ~Upping(todo'[u], t)
                 /\ \A c \in Conds : ~Listed(t, c)'
    <2>1. \/ /\ Waits(td[t], t) /\ value[t] = 0
             /\ \A u \in Thread : ~Upping(td[u], t)
             /\ \E c \in Conds : \A d \in Conds : Listed(t, d) <=> d = c
          \/ /\ Waits(td[t], t) /\ value[t] = 0
             /\ \E v \in Thread : \A u \in Thread : Upping(td[u], t) <=> u = v
             /\ \A c \in Conds : ~Listed(t, c)
          \/ /\ value[t] = IF Waits(td[t], t) THEN 1 ELSE 0
             /\ \A u \in Thread : ~Upping(td[u], t)
             /\ \A c \in Conds : ~Listed(t, c)
      BY DEF SignalI
    <2>2. /\ Waits(todo'[t], t) <=> Waits(td[t], t)
          /\ \A u \in Thread : Upping(todo'[u], t) <=> Upping(td[u], t)
          /\ \A c \in Conds : Listed(t, c)' <=> Listed(t, c)
          /\ value'[t] = value[t]
      BY <1>1, <1>2, <1>3
    <2> QED BY <2>1, <2>2
  <1> QED BY <1>4, <1>5 DEF SignalI

\* The tids, when a step is not one of allocate_tid.
LEMMA TidKept ==
  ASSUME NEW td, NEW p, TidI(td), Moved(td, p), current \in Thread,
         tid' = tid, next_tid' = next_tid, ~Doing(td[current], "store"), ~Doing(p, "store")
  PROVE  TidI(todo)'
  <1>1. \A q, t : Does(q, At("store", t)) => Doing(q, "store")
    BY SMT DEF Does, Doing, At
  <1>2. \A t, u \in Thread : Does(todo'[u], At("store", t)) <=> Does(td[u], At("store", t))
    BY <1>1 DEF Moved
  <1> QED BY <1>2 DEF TidI, TidsUnique

\* The waiting threads, when a step wakes none and none goes to sleep.
LEMMA WaitKept ==
  ASSUME ThreadSets, NEW td, NEW p, TypeI, CodeI(td), WaitI(td), WakeI(td), Moved(td, p),
         status[current] = "running",
         CodeI(todo)', off' = off, ~off[current],
         \A s \in SemaIds : waiters'[s] = waiters[s]
           /\ (value'[s] = value[s] \/ waiters'[s] = <<>>
                \/ (value'[s] \in Nat /\ value'[s] <= value[s])),
         current # idle => status'[current] # "blocked",
         \A t \in Thread \ {idle, current} : td[t] # <<>> =>
           (status'[t] = "blocked" <=> status[t] = "blocked")
  PROVE  WaitI(todo)' /\ WakeI(todo)'
  <1>0. idle \in Thread /\ current \in Thread
    BY ThreadsAssumption DEF TypeI, SchedType
  <1>1. \A s : ~Does(td[idle], At("down", s)) /\ ~Does(todo'[idle], At("down", s))
    <2>1. ~Doing(td[idle], "down") /\ ~Doing(todo'[idle], "down")
      BY <1>0, IdleSteps DEF CodeI
    <2> QED BY <2>1, SMT DEF Does, Doing, At
  <1>2. \A t \in Thread : t # current => todo'[t] = td[t]
    BY DEF Moved
  <1>3. status[current] # "blocked" /\ \A a : ~Does(<<>>, a)
    BY DEF Does
  <1>4. \A t \in Thread : \A s : status'[t] = "blocked" /\ Does(todo'[t], At("down", s)) <=>
                                 status[t] = "blocked" /\ Does(td[t], At("down", s))
    BY <1>0, <1>1, <1>2, <1>3
  <1>5. \A t \in Thread : \A s : off[t] /\ status'[t] # "blocked"
          /\ Does(todo'[t], At("down", s)) <=>
                                 off[t] /\ status[t] # "blocked" /\ Does(td[t], At("down", s))
    BY <1>0, <1>1, <1>2, <1>3
  <1>6. \A s : WokenOn(todo, s)' = WokenOn(td, s)
    BY <1>5 DEF WokenOn
  <1>7. \A t \in Thread : off'[t] => Doing(todo'[t], "down")
    BY <1>2 DEF WaitI
  <1>8. \A t \in Thread \ {idle} : status'[t] = "blocked" /\ todo'[t] # <<>> => off'[t]
    BY <1>2, <1>3 DEF WaitI
  <1>9. \A s \in SemaIds :
       /\ IsInjective(waiters'[s])
       /\ \A t \in Thread :
            t \in Range(waiters'[s]) <=> status'[t] = "blocked" /\ Does(todo'[t], At("down", s))
    BY <1>4 DEF WaitI
  <1>10. WaitI(todo)'
    BY <1>7, <1>8, <1>9 DEF WaitI
  <1>11. ASSUME NEW s \in SemaIds, waiters'[s] # <<>>
         PROVE  value'[s] <= Cardinality(WokenOn(todo, s)')
    <2>1. value[s] <= Cardinality(WokenOn(td, s)) /\ waiters'[s] = waiters[s]
          /\ (value'[s] = value[s] \/ (value'[s] \in Nat /\ value'[s] <= value[s]))
      BY <1>11 DEF WakeI
    <2>2. value[s] \in Nat /\ Cardinality(WokenOn(td, s)) \in Nat
      <3>1. WokenOn(td, s) \in SUBSET Thread
        BY DEF WokenOn
      <3> QED BY <3>1 DEF TypeI, ThreadSets
    <2> QED BY <1>6, <2>1, <2>2, SMT
  <1> QED BY <1>10, <1>11 DEF WakeI

(* A step that takes, gives up or passes on one lock, which no other       *)
(* thread has.                                                             *)
LEMMA LockChange ==
  ASSUME NEW td, NEW p, LockI(td), Moved(td, p), current \in Thread, NEW x \in Locks,
         \A l \in Locks \ {x} :
           /\ value'[l] = value[l] /\ holder'[l] = holder[l]
           /\ ~Does(td[current], At("hold", l)) /\ ~Does(td[current], At("up", l))
           /\ ~Does(p, At("hold", l)) /\ ~Does(p, At("up", l)) /\ ~Does(p, At("unhold", l)),
         \A t \in Thread \ {current} : ~Owner(td, t, x),
         holder'[x] \in {current, Null},
         value'[x] = IF \/ holder'[x] = current \/ Does(p, At("hold", x))
                        \/ Does(p, At("up", x)) THEN 0 ELSE 1,
         Does(p, At("unhold", x)) => holder'[x] = current,
         Does(p, At("up", x)) => holder'[x] # current,
         ~Doing(p, "enqueue"), ~Doing(p, "exit"),
         holder'[tid_lock] = current <=> \/ Doing(p, "load") \/ Doing(p, "store")
                                         \/ Does(p, At("unhold", tid_lock))
  PROVE  LockI(todo)'
  <1>1. \A t \in Thread : t # current => todo'[t] = td[t]
    BY DEF Moved
  <1>2. todo'[current] = p
    BY DEF Moved
  <1>3. Null # current /\ \A t \in Thread : t # Null
    BY ThreadsAssumption
  <1>4. ASSUME NEW l \in Locks PROVE OneOwner(todo, l)'
    <2>1. CASE l # x
      <3>1. \A t \in Thread : Owner(todo, t, l)' <=> Owner(td, t, l)
        <4> TAKE t \in Thread
        <4>1. holder'[l] = holder[l]
          BY <2>1
        <4>2. CASE t = current
          BY <1>2, <2>1, <4>1, <4>2 DEF Owner
        <4>3. CASE t # current
          BY <1>1, <4>1, <4>3 DEF Owner
        <4> QED BY <4>2, <4>3
      <3>2. OneOwner(td, l) /\ value'[l] = value[l]
        BY <2>1 DEF LockI
      <3> QED BY <3>1, <3>2 DEF OneOwner
    <2>2. CASE l = x
      <3>1. \A t \in Thread : t # current => ~Owner(todo, t, l)'
        BY <1>1, <1>3, <2>2 DEF Owner
      <3>2. \A t \in Thread : t = current =>
              (Owner(todo, t, l)' <=> \/ holder'[x] = current \/ Does(p, At("hold", x))
                                      \/ Does(p, At("up", x)))
        BY <1>2, <2>2 DEF Owner
      <3>3. \A t \in Thread : t = current => value'[l] = IF Owner(todo, t, l)' THEN 0 ELSE 1
        BY <2>2, <3>2
      <3> QED BY <3>1, <3>3 DEF OneOwner
    <2> QED BY <2>1, <2>2
  <1>5. \A c : ~Does(p, At("enqueue", c))
    BY SMT DEF Does, Doing, At
  <1>6. ASSUME NEW t \in Thread
        PROVE  /\ \A l \in Locks : /\ Does(todo'[t], At("unhold", l)) => holder'[l] = t
                                   /\ Does(todo'[t], At("up", l)) => holder'[l] # t
               /\ \A c \in Conds : Does(todo'[t], At("enqueue", c)) => holder'[LockOf[c]] = t
               /\ holder'[tid_lock] = t <=> \/ Doing(todo'[t], "load") \/ Doing(todo'[t], "store")
                                            \/ Does(todo'[t], At("unhold", tid_lock))
               /\ Doing(todo'[t], "exit") => \A l \in Locks : holder'[l] # t
    <2>1. CASE t = current
      BY <1>2, <1>5, <2>1
    <2>2. CASE t # current
      <3>1. /\ \A l \in Locks : /\ Does(td[t], At("unhold", l)) => holder[l] = t
                                /\ Does(td[t], At("up", l)) => holder[l] # t
            /\ \A c \in Conds : Does(td[t], At("enqueue", c)) => holder[LockOf[c]] = t
            /\ holder[tid_lock] = t <=> \/ Doing(td[t], "load") \/ Doing(td[t], "store")
                                        \/ Does(td[t], At("unhold", tid_lock))
            /\ Doing(td[t], "exit") => \A l \in Locks : holder[l] # t
        BY DEF LockI
      <3>2. \A l \in Locks : holder'[l] = t <=> holder[l] = t
        <4>1. holder[x] # t
          BY <2>2 DEF Owner
        <4> QED BY <1>3, <2>2, <4>1
      <3>3. tid_lock \in Locks /\ \A c \in Conds : LockOf[c] \in Locks
        BY SynchAssumption
      <3>4. todo'[t] = td[t]
        BY <1>1, <2>2
      <3> QED BY <3>1, <3>2, <3>3, <3>4
    <2> QED BY <2>1, <2>2
  <1> QED BY <1>4, <1>6 DEF LockI

-----------------------------------------------------------------------------
(* The step the running thread is about to take.                           *)

(* The running thread is about to take the step op of x.                   *)
Here(td, op, x) ==
  /\ Inv(td) /\ DOMAIN todo = Thread /\ \A u \in Thread \ {current} : todo[u] = td[u]
  /\ td[current] # <<>> /\ Head(td[current]) = At(op, x)

\* What the invariant says of the step the running thread is about to take.
LEMMA HereFacts ==
  ASSUME NEW td, NEW op, NEW x, Here(td, op, x)
  PROVE  /\ current \in Thread /\ status[current] = "running"
         /\ Follows(current, op, x, Tail(td[current]))
         /\ At(op, x) \in Range(td[current])
         /\ Range(Tail(td[current])) = Range(td[current]) \ {At(op, x)}
         /\ op # "block" => Code(current, Tail(td[current]))
         /\ <<At(op, x)>> \o Tail(td[current]) = td[current]
         /\ op # "down" => ~off[current]
         /\ \A o : Doing(td[current], o) <=> o = op
         /\ Code(current, td[current])
  <1>1. current \in Thread /\ status[current] = "running"
    BY DEF Here, Inv, TypeI, SchedType, ReadyI, SchedOK
  <1>2. Code(current, td[current])
    BY <1>1 DEF Here, Inv, CodeI
  <1>3. Fits(current, td[current])
    BY <1>1, <1>2, CodeFits DEF Here
  <1>4. At(op, x).op = op /\ At(op, x).x = x
    BY DEF At
  <1>5. \A o : Doing(td[current], o) <=> o = op
    BY <1>4 DEF Here, Doing
  <1>6. op # "down" => ~off[current]
    BY <1>1, <1>5 DEF Here, Inv, WaitI
  <1>7. td[current] \in Seq(Range(td[current]))
    BY <1>3 DEF Fits
  <1>8. <<At(op, x)>> \o Tail(td[current]) = td[current]
    BY <1>7, Rejoin DEF Here
  <1> QED BY <1>1, <1>2, <1>3, <1>4, <1>5, <1>6, <1>8 DEF Here, Fits

(* What the step op of x, the first of q, takes away from what q is said   *)
(* to do.                                                                  *)
Leaves(op, x, q, r) ==
  /\ \A t : Upping(r, t) <=> Upping(q, t) /\ ~(op = "up" /\ t = x)
  /\ op = "up" => Upping(q, x)
  /\ op # "down" /\ op # "enqueue" => (Waits(r, current) <=> Waits(q, current))
  /\ op = "down" => (Waits(r, current) <=> Waits(q, current) /\ x # current)
  /\ op = "down" /\ x = current => Waits(q, current)
  /\ op = "enqueue" => Waits(r, current) /\ ~Waits(q, current)
  /\ op # "init" /\ op # "unblock" => \A t : Makes(r, t) <=> Makes(q, t)

\* What the running thread has to do when it has taken the step.
LEMMA RestFacts ==
  ASSUME NEW td, NEW op, NEW x, Here(td, op, x)
  PROVE  Leaves(op, x, td[current], Tail(td[current]))
  <1> DEFINE q == td[current]
             r == Tail(td[current])
  <1>1. /\ Follows(current, op, x, r) /\ At(op, x) \in Range(q)
        /\ Range(r) = Range(q) \ {At(op, x)} /\ \A o : Doing(q, o) <=> o = op
    BY HereFacts
  <1> HIDE DEF q, r
  <1>2. \A o, y : At(o, y) = At(op, x) <=> o = op /\ y = x
    BY DEF At
  <1>3. ~Doing(r, "init") /\ ~Doing(r, "enqueue")
    BY <1>1 DEF Follows
  <1>4. At(op, x).op = op /\ At(op, x).x = x
    BY DEF At
  <1>5. op = "enqueue" => At("down", current) \in Range(r)
    BY <1>1, <1>4 DEF Follows
  <1> HIDE DEF At
  <1>6. \A t : Upping(r, t) <=> Upping(q, t) /\ ~(op = "up" /\ t = x)
    <2> TAKE t
    <2>1. At("up", t) \in Range(r) <=> At("up", t) \in Range(q) /\ At("up", t) # At(op, x)
      BY <1>1
    <2>2. At("up", t) = At(op, x) <=> "up" = op /\ t = x
      BY <1>2
    <2> QED BY <2>1, <2>2 DEF Upping
  <1>7. op = "up" => Upping(q, x)
    BY <1>1 DEF Upping
  <1>8. op = "down" => op # "enqueue"
    OBVIOUS
  <1>9. /\ op # "down" /\ op # "enqueue" => (Waits(r, current) <=> Waits(q, current))
        /\ op = "down" => (Waits(r, current) <=> Waits(q, current) /\ x # current)
        /\ op = "down" /\ x = current => Waits(q, current)
        /\ op = "enqueue" => Waits(r, current) /\ ~Waits(q, current)
    <2>1. At("down", current) \in Range(r) <=>
            At("down", current) \in Range(q) /\ At("down", current) # At(op, x)
      BY <1>1
    <2>2. At("down", current) = At(op, x) <=> "down" = op /\ current = x
      BY <1>2
    <2> QED BY <1>1, <1>3, <1>5, <1>8, <2>1, <2>2 DEF Waits
  <1>10. op # "init" /\ op # "unblock" => \A t : Makes(r, t) <=> Makes(q, t)
    BY <1>1, <1>2, <1>3 DEF Makes
  <1> QED BY <1>6, <1>7, <1>9, <1>10 DEF Leaves, q, r

\* The step changes what the running thread has to do, and nobody else.
LEMMA ThenMoved ==
  ASSUME NEW td, NEW op, NEW x, Here(td, op, x), NEW p, todo' = [todo EXCEPT ![current] = p]
  PROVE  Moved(td, p)
  <1>1. current \in Thread
    BY HereFacts
  <1> QED BY <1>1 DEF Here, Moved

\* The scheduler, when a step leaves it alone.
LEMMA ReadyKept ==
  ASSUME NEW td, NEW p, ReadyI(td), Moved(td, p), SchedOK', idle_thread' = idle_thread,
         current = idle => ~Doing(td[idle], "idle") \/ p = td[idle]
  PROVE  ReadyI(todo)'
  <1>1. CASE current = idle
    BY <1>1 DEF ReadyI, Moved
  <1>2. CASE current # idle
    BY <1>2, ThreadsAssumption DEF ReadyI, Moved
  <1> QED BY <1>1, <1>2

(* A step that leaves the scheduler alone and wakes nobody.                *)
LEMMA QuietStep ==
  ASSUME ThreadSets, NEW td, NEW op, NEW x, Here(td, op, x), NEW p, Code(current, p),
         op # "down", op # "init", op # "unblock", op # "idle",
         todo' = [todo EXCEPT ![current] = p], UNCHANGED <<threadVars, off>>,
         \A s \in SemaIds : /\ waiters'[s] = waiters[s]
                            /\ \/ value'[s] = value[s] \/ waiters'[s] = <<>>
                               \/ (value'[s] \in Nat /\ value'[s] <= value[s]),
         \A l \in Locks : holder'[l] \in {holder[l], current, Null},
         \A t \in Thread : Makes(p, t) <=> Makes(td[current], t)
  PROVE  /\ CodeI(todo)' /\ ReadyI(todo)' /\ WaitI(todo)' /\ WakeI(todo)' /\ DeadI(todo)'
         /\ MakeI(todo)'
  <1>1. /\ TypeI /\ CodeI(td) /\ ReadyI(td) /\ WaitI(td) /\ WakeI(td) /\ DeadI(td) /\ MakeI(td)
    BY DEF Here, Inv
  <1>2. /\ current \in Thread /\ status[current] = "running" /\ ~off[current]
        /\ ~Doing(td[current], "idle")
    BY HereFacts
  <1>3. Moved(td, p)
    BY ThenMoved
  <1>4. /\ status' = status /\ ready_list' = ready_list /\ current' = current
        /\ idle_thread' = idle_thread /\ off' = off /\ all_list' = all_list
    BY DEF threadVars, sched
  <1>5. CodeI(todo)'
    BY <1>1, <1>2, <1>3, CodeKept
  <1>6. SchedOK'
    BY <1>1, <1>4 DEF ReadyI, SchedOK
  <1>7. ReadyI(todo)'
    BY <1>1, <1>2, <1>3, <1>4, <1>6, ReadyKept
  <1>8. WaitI(todo)' /\ WakeI(todo)'
    <2>1. /\ status'[current] # "blocked"
          /\ \A t \in Thread \ {idle, current} : status'[t] = "blocked"
               <=> status[t] = "blocked"
      BY <1>2, <1>4
    <2> QED BY <1>1, <1>2, <1>3, <1>4, <1>5, <2>1, WaitKept
  <1>9. status[current] # "blocked" /\ status[current] \notin {"none", "dying"}
    BY <1>2
  <1>10. DeadI(todo)'
    BY <1>1, <1>2, <1>3, <1>4, <1>9, DeadKept
  <1>11. MakeI(todo)'
    <2>1. \A t \in Thread : (status'[t] = "blocked" /\ todo'[t] = <<>>) <=>
                            (status[t] = "blocked" /\ td[t] = <<>>)
      BY <1>3, <1>4, <1>9 DEF Moved
    <2> QED BY <1>1, <1>2, <1>3, <2>1, MakeKept
  <1> QED BY <1>5, <1>7, <1>8, <1>10, <1>11, Zenon

-----------------------------------------------------------------------------
(* The steps of the locks, the tids and the condition variables.           *)

\* The owner of a lock is the only one.
LEMMA SoleOwner ==
  ASSUME NEW td, LockI(td), NEW x \in Locks, NEW t \in Thread, Owner(td, t, x)
  PROVE  value[x] = 0 /\ \A u \in Thread \ {t} : ~Owner(td, u, x)
  <1>1. OneOwner(td, x)
    BY DEF LockI
  <1> QED BY <1>1 DEF OneOwner

\* A list has one first step.
LEMMA HeadOps ==
  /\ \A q, o, x : Does(q, At(o, x)) => Doing(q, o)
  /\ \A q, o, x, y : Does(q, At(o, x)) /\ Does(q, At(o, y)) => x = y
  /\ \A q, o, n : Doing(q, o) /\ Doing(q, n) => o = n
  /\ \A o : ~Doing(<<>>, o)
  BY SMT DEF Does, Doing, At

(* A step within a call that leaves the scheduler, the lists of waiters    *)
(* and the semaphores of the threads alone.                                *)
LEMMA QuietRest ==
  ASSUME ThreadSets, NEW td, NEW op, NEW x, Here(td, op, x), NEW r, r = Tail(td[current]),
         op # "down", op # "init", op # "unblock", op # "idle", op # "up", op # "enqueue",
         op # "block", Then(r), UNCHANGED <<threadVars, off, waiters, cond>>,
         \A s \in SemaIds : value'[s] \in Nat /\ value'[s] <= value[s],
         \A t \in Thread : value'[t] = value[t],
         \A l \in Locks : holder'[l] \in {holder[l], current, Null}
  PROVE  /\ CodeI(todo)' /\ ReadyI(todo)' /\ WaitI(todo)' /\ WakeI(todo)' /\ DeadI(todo)'
         /\ MakeI(todo)' /\ SignalI(todo)' /\ Moved(td, r)
  <1>1. /\ todo' = [todo EXCEPT ![current] = r] /\ UNCHANGED <<threadVars, off>>
        /\ waiters' = waiters /\ cond' = cond
    BY DEF Then
  <1>2. current \in Thread /\ Code(current, r)
    BY HereFacts
  <1> DEFINE q == td[current]
  <1>3. /\ \A t : Makes(r, t) <=> Makes(q, t)
        /\ \A t : Upping(r, t) <=> Upping(q, t)
        /\ Waits(r, current) <=> Waits(q, current)
    <2>1. Leaves(op, x, q, r)
      BY RestFacts
    <2> QED BY <2>1 DEF Leaves
  <1>4. /\ CodeI(todo)' /\ ReadyI(todo)' /\ WaitI(todo)' /\ WakeI(todo)' /\ DeadI(todo)'
        /\ MakeI(todo)'
    BY <1>1, <1>2, <1>3, QuietStep
  <1>5. Moved(td, r)
    BY <1>1, ThenMoved
  <1>6. SignalI(td)
    BY DEF Here, Inv
  <1>7. SignalI(todo)'
    BY <1>1, <1>2, <1>3, <1>5, <1>6, SignalKept
  <1> QED BY <1>4, <1>5, <1>7

\* lock_acquire sets the holder.
LEMMA HoldStep ==
  ASSUME ThreadSets, NEW td, NEW x, Here(td, "hold", x),
         set_holder(x, current, Tail(td[current]))
  PROVE  Inv(todo)'
  <1> DEFINE q == td[current]
             r == Tail(q)
  <1>1. /\ holder' = [holder EXCEPT ![x] = current] /\ Then(r)
        /\ UNCHANGED <<threadVars, off, waiters, cond>> /\ value' = value
        /\ tid' = tid /\ next_tid' = next_tid /\ elapsed' = elapsed
    BY DEF set_holder, semaVars, tidVars
  <1>2. /\ current \in Thread /\ Follows(current, "hold", x, r)
        /\ \A o : Doing(q, o) <=> o = "hold"
    BY HereFacts
  <1>3. x \in Locks /\ IF x = tid_lock THEN Doing(r, "load") ELSE r = <<>>
    BY <1>2 DEF Follows
  <1>4. TypeI /\ LockI(td) /\ TidI(td) /\ Does(q, At("hold", x))
    BY DEF Here, Inv, Does
  <1>5. \A l \in Locks : holder'[l] = IF l = x THEN current ELSE holder[l]
    BY <1>1, <1>4 DEF TypeI
  <1>6. \A s \in SemaIds : value'[s] \in Nat /\ value'[s] <= value[s]
    BY <1>1, <1>4, SMT DEF TypeI
  <1>7. /\ "hold" # "down" /\ "hold" # "init" /\ "hold" # "unblock" /\ "hold" # "idle"
        /\ "hold" # "enqueue" /\ "hold" # "up" /\ "hold" # "store" /\ "hold" # "block"
    OBVIOUS
  <1>8. /\ CodeI(todo)' /\ ReadyI(todo)' /\ WaitI(todo)' /\ WakeI(todo)' /\ DeadI(todo)'
        /\ MakeI(todo)' /\ SignalI(todo)' /\ Moved(td, r)
    BY <1>1, <1>5, <1>6, <1>7, QuietRest
  <1> HIDE DEF r
  <1>9. /\ ~Doing(r, "store") /\ ~Doing(r, "enqueue") /\ ~Doing(r, "exit")
        /\ Doing(r, "load") <=> x = tid_lock
        /\ \A l \in Locks : /\ ~Does(r, At("hold", l)) /\ ~Does(r, At("up", l))
                            /\ ~Does(r, At("unhold", l))
    BY <1>3, SMT DEF Doing, Does, At
  <1>10. LockI(todo)'
    <2>1. value[x] = 0 /\ \A t \in Thread \ {current} : ~Owner(td, t, x)
      BY <1>2, <1>3, <1>4, SoleOwner DEF Owner
    <2>2. \A l \in Locks \ {x} : ~Does(q, At("hold", l)) /\ ~Does(q, At("up", l))
      BY <1>2, <1>4, HeadOps
    <2>3. holder[tid_lock] # current
      <3>1. ~Doing(q, "load") /\ ~Doing(q, "store") /\ ~Does(q, At("unhold", tid_lock))
        BY <1>2, HeadOps
      <3> QED BY <1>2, <1>4, <3>1 DEF LockI
    <2>4. holder'[tid_lock] = current <=> \/ Doing(r, "load") \/ Doing(r, "store")
                                          \/ Does(r, At("unhold", tid_lock))
      BY <1>5, <1>9, <2>3, SynchAssumption
    <2>5. \A l \in Locks \ {x} : value'[l] = value[l] /\ holder'[l] = holder[l]
      BY <1>1, <1>5
    <2>6. holder'[x] = current /\ value'[x] = 0
      BY <1>1, <1>3, <1>5, <2>1
    <2> QED BY <1>2, <1>3, <1>4, <1>8, <1>9, <2>1, <2>2, <2>4, <2>5, <2>6, LockChange
  <1>11. TidI(todo)'
    BY <1>1, <1>2, <1>4, <1>7, <1>8, <1>9, TidKept
  <1>12. TypeI'
    BY <1>1, <1>2, <1>3, <1>4 DEF TypeI, SchedType, threadVars, sched
  <1> QED BY <1>8, <1>10, <1>11, <1>12 DEF Inv

\* lock_release clears the holder.
LEMMA UnholdStep ==
  ASSUME ThreadSets, NEW td, NEW x, Here(td, "unhold", x),
         set_holder(x, Null, Tail(td[current]))
  PROVE  Inv(todo)'
  <1> DEFINE q == td[current]
             r == Tail(q)
  <1>1. /\ holder' = [holder EXCEPT ![x] = Null] /\ Then(r)
        /\ UNCHANGED <<threadVars, off, waiters, cond>> /\ value' = value
        /\ tid' = tid /\ next_tid' = next_tid /\ elapsed' = elapsed
    BY DEF set_holder, semaVars, tidVars
  <1>2. /\ current \in Thread /\ Follows(current, "unhold", x, r)
        /\ \A o : Doing(q, o) <=> o = "unhold"
    BY HereFacts
  <1>3. x \in Locks /\ Does(r, At("up", x))
    BY <1>2 DEF Follows
  <1>4. TypeI /\ LockI(td) /\ TidI(td) /\ Does(q, At("unhold", x))
    BY DEF Here, Inv, Does
  <1>5. \A l \in Locks : holder'[l] = IF l = x THEN Null ELSE holder[l]
    BY <1>1, <1>4 DEF TypeI
  <1>6. \A s \in SemaIds : value'[s] \in Nat /\ value'[s] <= value[s]
    BY <1>1, <1>4, SMT DEF TypeI
  <1>7. /\ "unhold" # "down" /\ "unhold" # "init" /\ "unhold" # "unblock" /\ "unhold" # "idle"
        /\ "unhold" # "enqueue" /\ "unhold" # "up" /\ "unhold" # "store" /\ "unhold" # "block"
    OBVIOUS
  <1>8. /\ CodeI(todo)' /\ ReadyI(todo)' /\ WaitI(todo)' /\ WakeI(todo)' /\ DeadI(todo)'
        /\ MakeI(todo)' /\ SignalI(todo)' /\ Moved(td, r)
    BY <1>1, <1>5, <1>6, <1>7, QuietRest
  <1> HIDE DEF r
  <1>9. /\ ~Doing(r, "store") /\ ~Doing(r, "enqueue") /\ ~Doing(r, "exit") /\ ~Doing(r, "load")
        /\ \A l \in Locks : /\ ~Does(r, At("hold", l)) /\ (Does(r, At("up", l)) <=> l = x)
                            /\ ~Does(r, At("unhold", l))
    BY <1>3, SMT DEF Doing, Does, At
  <1>10. LockI(todo)'
    <2>0. holder[x] = current
      BY <1>2, <1>3, <1>4 DEF LockI
    <2>1. value[x] = 0 /\ \A t \in Thread \ {current} : ~Owner(td, t, x)
      BY <1>2, <1>3, <1>4, <2>0, SoleOwner DEF Owner
    <2>2. \A l \in Locks : ~Does(q, At("hold", l)) /\ ~Does(q, At("up", l))
      BY <1>2, <1>4, HeadOps
    <2>3. x # tid_lock => holder[tid_lock] # current
      <3>1. x # tid_lock => ~Doing(q, "load") /\ ~Doing(q, "store")
              /\ ~Does(q, At("unhold", tid_lock))
        BY <1>2, <1>4, HeadOps
      <3> QED BY <1>2, <1>4, <3>1 DEF LockI
    <2>4. holder'[tid_lock] # current
      BY <1>2, <1>5, <2>3, ThreadsAssumption, SynchAssumption
    <2>5. \A l \in Locks \ {x} : value'[l] = value[l] /\ holder'[l] = holder[l]
      BY <1>1, <1>5
    <2>6. holder'[x] = Null /\ value'[x] = 0 /\ holder'[x] # current
      BY <1>1, <1>2, <1>3, <1>5, <2>1, ThreadsAssumption
    <2>7. tid_lock \in Locks
      BY SynchAssumption
    <2> QED BY <1>2, <1>3, <1>4, <1>8, <1>9, <2>1, <2>2, <2>4, <2>5, <2>6, <2>7, LockChange
  <1>11. TidI(todo)'
    BY <1>1, <1>2, <1>4, <1>7, <1>8, <1>9, TidKept
  <1>12. TypeI'
    BY <1>1, <1>2, <1>3, <1>4 DEF TypeI, SchedType, threadVars, sched
  <1> QED BY <1>8, <1>10, <1>11, <1>12 DEF Inv

(* Within a call, tid_lock is the lock of the thread that reads or writes  *)
(* next_tid, and of no other.                                              *)
LEMMA TidLocked ==
  ASSUME NEW td, LockI(td), current \in Thread, Doing(td[current], "load")
         \/ Doing(td[current], "store")
  PROVE  /\ tid_lock \in Locks /\ holder[tid_lock] = current /\ value[tid_lock] = 0
         /\ \A u \in Thread \ {current} : /\ ~Owner(td, u, tid_lock) /\ ~Doing(td[u], "store")
                                          /\ \A t : ~Does(td[u], At("store", t))
  <1>1. tid_lock \in Locks
    BY SynchAssumption
  <1>2. holder[tid_lock] = current
    BY DEF LockI
  <1>3. value[tid_lock] = 0 /\ \A u \in Thread \ {current} : ~Owner(td, u, tid_lock)
    BY <1>1, <1>2, SoleOwner DEF Owner
  <1>4. \A u \in Thread \ {current} : ~Doing(td[u], "store")
    BY <1>2 DEF LockI
  <1> QED BY <1>1, <1>2, <1>3, <1>4, HeadOps

\* allocate_tid reads next_tid.
LEMMA LoadStep ==
  ASSUME ThreadSets, NEW td, NEW x, Here(td, "load", x), load_tid(x, Tail(td[current]))
  PROVE  Inv(todo)'
  <1> DEFINE q == td[current]
             r == Tail(q)
  <1>1. /\ tid' = [tid EXCEPT ![x] = next_tid] /\ Then(r)
        /\ UNCHANGED <<threadVars, off, waiters, cond>> /\ value' = value
        /\ holder' = holder /\ next_tid' = next_tid /\ elapsed' = elapsed
    BY DEF load_tid, semaVars
  <1>2. /\ current \in Thread /\ Follows(current, "load", x, r)
        /\ \A o : Doing(q, o) <=> o = "load"
    BY HereFacts
  <1>3. x \in Thread /\ Does(r, At("store", x))
    BY <1>2 DEF Follows
  <1>4. TypeI /\ LockI(td) /\ TidI(td)
    BY DEF Here, Inv
  <1>6. \A s \in SemaIds : value'[s] \in Nat /\ value'[s] <= value[s]
    BY <1>1, <1>4, SMT DEF TypeI
  <1>7. /\ "load" # "down" /\ "load" # "init" /\ "load" # "unblock" /\ "load" # "idle"
        /\ "load" # "enqueue" /\ "load" # "up" /\ "load" # "block"
    OBVIOUS
  <1>8. /\ CodeI(todo)' /\ ReadyI(todo)' /\ WaitI(todo)' /\ WakeI(todo)' /\ DeadI(todo)'
        /\ MakeI(todo)' /\ SignalI(todo)' /\ Moved(td, r)
    BY <1>1, <1>6, <1>7, QuietRest
  <1> HIDE DEF r
  <1>9. /\ Doing(r, "store") /\ ~Doing(r, "enqueue") /\ ~Doing(r, "exit") /\ ~Doing(r, "load")
        /\ \A l \in Locks : /\ ~Does(r, At("hold", l)) /\ ~Does(r, At("up", l))
                            /\ ~Does(r, At("unhold", l))
    BY <1>3, SMT DEF Doing, Does, At
  <1>10. /\ tid_lock \in Locks /\ holder[tid_lock] = current /\ value[tid_lock] = 0
         /\ \A u \in Thread \ {current} : /\ ~Owner(td, u, tid_lock) /\ ~Doing(td[u], "store")
                                          /\ \A t : ~Does(td[u], At("store", t))
    BY <1>2, <1>4, TidLocked
  <1>11. \A l \in Locks : ~Does(q, At("hold", l)) /\ ~Does(q, At("up", l)) /\ ~Doing(q, "store")
    BY <1>2, HeadOps
  <1>12. LockI(todo)'
    <2>1. /\ \A l \in Locks \ {tid_lock} : value'[l] = value[l] /\ holder'[l] = holder[l]
          /\ value'[tid_lock] = 0 /\ holder'[tid_lock] = current
      BY <1>1, <1>10
    <2> QED BY <1>2, <1>4, <1>8, <1>9, <1>10, <1>11, <2>1, LockChange
  <1>13. TidI(todo)'
    <2>1. \A t \in Thread : tid'[t] = IF t = x THEN next_tid ELSE tid[t]
      BY <1>1, <1>4 DEF TypeI
    <2>2. \A t \in Thread : tid[t] < next_tid
      <3>1. \A u \in Thread : \A t : ~Does(td[u], At("store", t))
        BY <1>10, <1>11, HeadOps
      <3> QED BY <1>4, <3>1 DEF TidI
    <2>3. \A t, u \in Thread : Does(todo'[u], At("store", t)) <=> u = current /\ t = x
      <3>1. \A t \in Thread : Does(r, At("store", t)) <=> t = x
        BY <1>3, HeadOps
      <3> QED BY <1>2, <1>8, <1>10, <3>1 DEF Moved
    <2>4. next_tid \in Nat /\ \A t \in Thread : tid[t] \in Nat
      BY <1>4 DEF TypeI
    <2>5. TidsUnique'
      BY <1>4, <2>1, <2>2, <2>4, SMT DEF TidsUnique, TidI
    <2>6. \A t \in Thread : t = x \/ tid'[t] < next_tid'
      BY <1>1, <2>1, <2>2
    <2> QED BY <1>1, <1>2, <1>4, <2>1, <2>3, <2>5, <2>6 DEF TidI
  <1>14. TypeI'
    BY <1>1, <1>2, <1>3, <1>4 DEF TypeI, SchedType, threadVars, sched
  <1> QED BY <1>8, <1>12, <1>13, <1>14 DEF Inv

\* allocate_tid writes next_tid.
LEMMA StoreStep ==
  ASSUME ThreadSets, NEW td, NEW x, Here(td, "store", x), store_tid(x, Tail(td[current]))
  PROVE  Inv(todo)'
  <1> DEFINE q == td[current]
             r == Tail(q)
  <1>1. /\ next_tid' = tid[x] + 1 /\ Then(r)
        /\ UNCHANGED <<threadVars, off, waiters, cond>> /\ value' = value
        /\ holder' = holder /\ tid' = tid /\ elapsed' = elapsed
    BY DEF store_tid, semaVars
  <1>2. /\ current \in Thread /\ Follows(current, "store", x, r)
        /\ \A o : Doing(q, o) <=> o = "store"
    BY HereFacts
  <1>3. x \in Thread /\ Does(r, At("unhold", tid_lock))
    BY <1>2 DEF Follows
  <1>4. TypeI /\ LockI(td) /\ TidI(td) /\ Does(q, At("store", x))
    BY DEF Here, Inv, Does
  <1>6. \A s \in SemaIds : value'[s] \in Nat /\ value'[s] <= value[s]
    BY <1>1, <1>4, SMT DEF TypeI
  <1>7. /\ "store" # "down" /\ "store" # "init" /\ "store" # "unblock" /\ "store" # "idle"
        /\ "store" # "enqueue" /\ "store" # "up" /\ "store" # "block"
    OBVIOUS
  <1>8. /\ CodeI(todo)' /\ ReadyI(todo)' /\ WaitI(todo)' /\ WakeI(todo)' /\ DeadI(todo)'
        /\ MakeI(todo)' /\ SignalI(todo)' /\ Moved(td, r)
    BY <1>1, <1>6, <1>7, QuietRest
  <1> HIDE DEF r
  <1>9. /\ ~Doing(r, "store") /\ ~Doing(r, "enqueue") /\ ~Doing(r, "exit") /\ ~Doing(r, "load")
        /\ \A l \in Locks : /\ ~Does(r, At("hold", l)) /\ ~Does(r, At("up", l))
                            /\ Does(r, At("unhold", l)) <=> l = tid_lock
    BY <1>3, SMT DEF Doing, Does, At
  <1>10. /\ tid_lock \in Locks /\ holder[tid_lock] = current /\ value[tid_lock] = 0
         /\ \A u \in Thread \ {current} : /\ ~Owner(td, u, tid_lock) /\ ~Doing(td[u], "store")
                                          /\ \A t : ~Does(td[u], At("store", t))
    BY <1>2, <1>4, TidLocked
  <1>11. \A l \in Locks : ~Does(q, At("hold", l)) /\ ~Does(q, At("up", l))
    BY <1>2, HeadOps
  <1>12. LockI(todo)'
    <2>1. /\ \A l \in Locks \ {tid_lock} : value'[l] = value[l] /\ holder'[l] = holder[l]
          /\ value'[tid_lock] = 0 /\ holder'[tid_lock] = current
      BY <1>1, <1>10
    <2> QED BY <1>2, <1>4, <1>8, <1>9, <1>10, <1>11, <2>1, LockChange
  <1>13. tid[x] = next_tid
    BY <1>2, <1>3, <1>4 DEF TidI
  <1>14. TidI(todo)'
    <2>1. next_tid \in Nat /\ \A t \in Thread : tid[t] \in Nat
      BY <1>4 DEF TypeI
    <2>2. \A t \in Thread : tid[t] < next_tid \/ tid[t] = next_tid
      BY <1>4 DEF TidI
    <2>3. /\ \A t \in Thread : tid'[t] < next_tid'
          /\ next_tid' > 0
      BY <1>1, <1>13, <2>1, <2>2, SMT
    <2>4. \A t, u \in Thread : ~Does(todo'[u], At("store", t))
      BY <1>8, <1>9, <1>10, HeadOps DEF Moved
    <2>5. TidsUnique'
      BY <1>1, <1>4 DEF TidsUnique, TidI
    <2> QED BY <2>3, <2>4, <2>5 DEF TidI
  <1>15. TypeI'
    BY <1>1, <1>2, <1>3, <1>4, <1>13, SMT DEF TypeI, SchedType, threadVars, sched
  <1> QED BY <1>8, <1>12, <1>14, <1>15 DEF Inv

(* sema_down and sema_try_down take a unit of a positive value: if it is a *)
(* lock's, the lock was free and the thread is about to be its holder.     *)
LEMMA LockTaken ==
  ASSUME NEW td, NEW op \in {"down", "trydown"}, NEW x, Here(td, op, x), NEW r,
         r = Tail(td[current]),
         Moved(td, r), value[x] > 0, value' = [value EXCEPT ![x] = @ - 1], holder' = holder
  PROVE  LockI(todo)' /\ ~Doing(r, "store")
  <1> DEFINE q == td[current]
  <1>1. /\ current \in Thread /\ Follows(current, op, x, r)
        /\ \A o : Doing(q, o) <=> o = op
    BY HereFacts
  <1>2. /\ x \in SemaIds
        /\ IF x \in Locks THEN Does(r, At("hold", x)) ELSE r = <<>> \/ Doing(r, "down")
    BY <1>1 DEF Follows
  <1>3. TypeI /\ LockI(td)
    BY DEF Here, Inv
  <1>4. \A s \in SemaIds : value'[s] = IF s = x THEN value[s] - 1 ELSE value[s]
    BY <1>3 DEF TypeI
  <1>5. Locks \subseteq SemaIds
    BY DEF SemaIds
  <1>6. /\ \A l \in Locks : ~Does(q, At("hold", l)) /\ ~Does(q, At("up", l))
        /\ ~Does(q, At("unhold", tid_lock))
        /\ ~Doing(q, "load") /\ ~Doing(q, "store")
    BY <1>1, HeadOps
  <1>7. CASE x \in Locks
    <2>1. /\ ~Doing(r, "store") /\ ~Doing(r, "enqueue") /\ ~Doing(r, "exit")
               /\ ~Doing(r, "load")
          /\ Does(r, At("hold", x))
          /\ \A l \in Locks : /\ Does(r, At("hold", l)) <=> l = x
                              /\ ~Does(r, At("up", l)) /\ ~Does(r, At("unhold", l))
      BY <1>2, <1>7, SMT DEF Doing, Does, At
    <2>2. value[x] = 1 /\ \A t \in Thread : ~Owner(td, t, x)
      <3>1. OneOwner(td, x)
        BY <1>3, <1>7 DEF LockI
      <3> QED BY <3>1, SMT DEF OneOwner
    <2>3. holder[x] = Null
      BY <1>3, <1>7, <2>2 DEF TypeI, Owner
    <2>4. holder[tid_lock] # current
      BY <1>1, <1>3, <1>6 DEF LockI
    <2>5. value'[x] = 0
      BY <1>2, <1>4, <2>2, SMT
    <2>6. \A l \in Locks \ {x} : value'[l] = value[l] /\ holder'[l] = holder[l]
      BY <1>4, <1>5
    <2>7. tid_lock \in Locks
      BY SynchAssumption
    <2>8. holder'[x] \in {current, Null} /\ holder'[x] # current /\ holder'[tid_lock] # current
      BY <1>1, <2>3, <2>4, ThreadsAssumption
    <2>9. \A t \in Thread \ {current} : ~Owner(td, t, x)
      BY <2>2
    <2>10. LockI(todo)'
      <3>1. \A l \in Locks \ {x} :
           /\ value'[l] = value[l] /\ holder'[l] = holder[l]
           /\ ~Does(td[current], At("hold", l)) /\ ~Does(td[current], At("up", l))
           /\ ~Does(r, At("hold", l)) /\ ~Does(r, At("up", l)) /\ ~Does(r, At("unhold", l))
        BY <1>6, <2>1, <2>6
      <3>2. holder'[tid_lock] = current <=> \/ Doing(r, "load") \/ Doing(r, "store")
                                            \/ Does(r, At("unhold", tid_lock))
        BY <2>1, <2>7, <2>8
      <3>3. Does(r, At("unhold", x)) => holder'[x] = current
        BY <1>7, <2>1
      <3>4. value'[x] = IF \/ holder'[x] = current \/ Does(r, At("hold", x))
                           \/ Does(r, At("up", x)) THEN 0 ELSE 1
        BY <2>1, <2>5
      <3> QED BY <1>1, <1>3, <1>7, <2>1, <2>8, <2>9, <3>1, <3>2, <3>3, <3>4, LockChange
    <2> QED BY <2>1, <2>10
  <1>8. CASE x \notin Locks
    <2>1. NotLock(r) /\ ~Doing(r, "exit") /\ ~Doing(r, "store")
      BY <1>2, <1>8 DEF NotLock, Doing
    <2>2. NotLock(q)
      <3>1. Head(q).op = op
        BY <1>1 DEF Doing
      <3> QED BY <3>1 DEF NotLock
    <2>3. \A l \in Locks : value'[l] = value[l]
      BY <1>4, <1>5, <1>8
    <2> QED BY <1>1, <1>3, <2>1, <2>2, <2>3, LockKept
  <1> QED BY <1>7, <1>8

\* sema_try_down
LEMMA TryDownStep ==
  ASSUME ThreadSets, NEW td, NEW x, Here(td, "trydown", x), sema_try_down(x, Tail(td[current]))
  PROVE  Inv(todo)'
  <1> DEFINE q == td[current]
             r == Tail(q)
  <1>1. /\ IF value[x] > 0 THEN value' = [value EXCEPT ![x] = @ - 1] /\ Then(r)
                           ELSE value' = value /\ Then(<<>>)
        /\ UNCHANGED <<threadVars, off, waiters, cond>> /\ holder' = holder
        /\ tid' = tid /\ next_tid' = next_tid /\ elapsed' = elapsed
    BY DEF sema_try_down, tidVars
  <1>2. /\ current \in Thread /\ Follows(current, "trydown", x, r)
        /\ \A o : Doing(q, o) <=> o = "trydown"
        /\ At("trydown", x) \in Range(q) /\ Range(r) = Range(q) \ {At("trydown", x)}
    BY HereFacts
  <1>3. /\ x \in SemaIds /\ x \notin Thread /\ Range(r) \subseteq {At("hold", x)}
        /\ current # idle
    BY <1>2 DEF Follows
  <1>4. TypeI /\ LockI(td) /\ TidI(td) /\ SignalI(td)
    BY DEF Here, Inv
  <1>5. \A l \in Locks : holder'[l] \in {holder[l], current, Null}
    BY <1>1
  <1>6. ~Doing(q, "store")
    BY <1>2
  <1>7. /\ "trydown" # "down" /\ "trydown" # "init" /\ "trydown" # "unblock"
             /\ "trydown" # "idle"
        /\ "trydown" # "enqueue" /\ "trydown" # "up" /\ "trydown" # "block"
        /\ "trydown" \in {"down", "trydown"}
    OBVIOUS
  <1>8. CASE value[x] > 0
    <2>1. value' = [value EXCEPT ![x] = @ - 1] /\ Then(r)
      BY <1>1, <1>8
    <2>2. \A s \in SemaIds : value'[s] \in Nat /\ value'[s] <= value[s]
      BY <1>4, <1>8, <2>1, SMT DEF TypeI
    <2>3. \A t \in Thread : value'[t] = value[t]
      BY <1>3, <1>4, <2>1 DEF TypeI, SemaIds
    <2>4. /\ CodeI(todo)' /\ ReadyI(todo)' /\ WaitI(todo)' /\ WakeI(todo)' /\ DeadI(todo)'
          /\ MakeI(todo)' /\ SignalI(todo)' /\ Moved(td, r)
      BY <1>1, <1>5, <1>7, <2>1, <2>2, <2>3, QuietRest
    <2>5. LockI(todo)' /\ ~Doing(r, "store")
      BY <1>1, <1>7, <1>8, <2>1, <2>4, LockTaken
    <2>6. TidI(todo)'
      BY <1>1, <1>2, <1>4, <1>6, <2>4, <2>5, TidKept
    <2>7. value' \in [SemaIds -> Nat]
      BY <1>4, <2>1, <2>2 DEF TypeI
    <2>8. TypeI'
      BY <1>1, <1>4, <2>7 DEF TypeI, SchedType, threadVars, sched
    <2> QED BY <2>4, <2>5, <2>6, <2>8 DEF Inv
  <1>9. CASE ~(value[x] > 0)
    <2>1. value' = value /\ todo' = [todo EXCEPT ![current] = <<>>]
      BY <1>1, <1>9 DEF Then
    <2>2. Moved(td, <<>>)
      BY <2>1, ThenMoved
    <2>3. Range(q) \subseteq {At("hold", x), At("trydown", x)} /\ Range(<<>>) = {}
      BY <1>2, <1>3, EmptyRange
    <2>4. \A t : /\ At("unblock", t) \notin Range(q) /\ At("up", t) \notin Range(q)
                 /\ At("down", t) \notin Range(q)
      BY <2>3 DEF At
    <2>5. \A t : /\ Makes(<<>>, t) <=> Makes(q, t)
                 /\ Upping(<<>>, t) <=> Upping(q, t)
                 /\ Waits(<<>>, t) <=> Waits(q, t)
      BY <2>3, <2>4 DEF Makes, Upping, Waits
    <2>6. \A s \in SemaIds : /\ waiters'[s] = waiters[s]
                             /\ \/ value'[s] = value[s] \/ waiters'[s] = <<>>
                                \/ (value'[s] \in Nat /\ value'[s] <= value[s])
      BY <1>1, <2>1
    <2>7. Code(current, <<>>)
      BY <1>3 DEF Code
    <2>8. UNCHANGED <<threadVars, off>>
      BY <1>1
    <2>9. /\ CodeI(todo)' /\ ReadyI(todo)' /\ WaitI(todo)' /\ WakeI(todo)' /\ DeadI(todo)'
          /\ MakeI(todo)'
      BY <1>5, <1>7, <2>1, <2>5, <2>6, <2>7, <2>8, QuietStep
    <2>10. cond' = cond
      BY <1>1
    <2>11. SignalI(todo)'
      BY <1>2, <1>4, <2>1, <2>2, <2>5, <2>10, SignalKept
    <2>12. NotLock(<<>>) /\ ~Doing(<<>>, "exit") /\ ~Doing(<<>>, "store")
      BY DEF NotLock, Doing
    <2>13. NotLock(q)
      <3>1. Head(q).op = "trydown"
        BY <1>2 DEF Doing
      <3> QED BY <3>1 DEF NotLock
    <2>14. LockI(todo)'
      BY <1>1, <1>2, <1>4, <2>1, <2>2, <2>12, <2>13, LockKept
    <2>15. TidI(todo)'
      BY <1>1, <1>2, <1>4, <1>6, <2>2, <2>12, TidKept
    <2>16. TypeI'
      BY <1>1, <1>4, <2>1 DEF TypeI, SchedType, threadVars, sched
    <2> QED BY <2>9, <2>11, <2>14, <2>15, <2>16 DEF Inv
  <1> QED BY <1>8, <1>9, Zenon

\* A step put before no step, or before one.
LEMMA Joins ==
  ASSUME NEW a, NEW b
  PROVE  <<a>> \o <<>> = <<a>> /\ <<a>> \o <<b>> = <<a, b>>
  <1>1. Splits(<<a>>, a, <<>>, {a}) /\ Splits(<<a, b>>, a, <<b>>, {a, b})
    BY Tuple1, Tuple2
  <1>2. <<Head(<<a>>)>> \o Tail(<<a>>) = <<a>>
    BY <1>1, Rejoin DEF Splits
  <1>3. <<Head(<<a, b>>)>> \o Tail(<<a, b>>) = <<a, b>>
    BY <1>1, Rejoin DEF Splits
  <1> QED BY <1>1, <1>2, <1>3 DEF Splits

(* cond_signal takes a waiter off the list and will up its semaphore; a    *)
(* broadcast comes back for the next.                                      *)
LEMMA SignalStep ==
  ASSUME ThreadSets, NEW td, NEW op \in {"signal", "broadcast"}, NEW x, Here(td, op, x),
         NEW rest \in {<<>>, <<At("broadcast", x)>>}, cond_signal(x, rest), cond[x] = <<>>
           => rest = <<>>
  PROVE  Inv(todo)'
  <1> DEFINE q == td[current]
             h == Head(cond[x])
             p == IF cond[x] = <<>> THEN <<>> ELSE <<At("up", h)>> \o rest
  <1>1. /\ todo' = [todo EXCEPT ![current] = p]
        /\ cond' = IF cond[x] = <<>> THEN cond ELSE [cond EXCEPT ![x] = Tail(@)]
        /\ UNCHANGED <<threadVars, off>> /\ waiters' = waiters /\ value' = value
             /\ holder' = holder
        /\ tid' = tid /\ next_tid' = next_tid /\ elapsed' = elapsed
    BY DEF cond_signal, tidVars, semaVars, Then
  <1>2. /\ current \in Thread /\ Follows(current, op, x, Tail(q))
        /\ \A o : Doing(q, o) <=> o = op
        /\ At(op, x) \in Range(q) /\ Range(Tail(q)) = Range(q) \ {At(op, x)}
    BY HereFacts
  <1>3. x \in Conds /\ Tail(q) = <<>> /\ current # idle
    BY <1>2 DEF Follows
  <1>4. TypeI /\ LockI(td) /\ TidI(td) /\ SignalI(td)
    BY DEF Here, Inv
  <1>5. Range(q) = {At(op, x)}
    BY <1>2, <1>3, EmptyRange
  <1>6. cond[x] # <<>> => /\ h \in Thread \ {idle} /\ h \in Range(cond[x])
                          /\ Tail(cond[x]) \in Seq(Thread) /\ IsInjective(Tail(cond[x]))
                          /\ Range(Tail(cond[x])) = Range(cond[x]) \ {h}
    <2>1. cond[x] \in Seq(Thread) /\ IsInjective(cond[x]) /\ ~Listed(idle, x)
      BY <1>3, <1>4 DEF TypeI, SignalI
    <2> QED BY <2>1, InjTail DEF Listed
  <1>7. /\ cond[x] = <<>> => p = <<>>
        /\ cond[x] # <<>> => p = <<At("up", h)>> \/ p = <<At("up", h), At("broadcast", x)>>
    <2>1. \A b : <<At("up", h)>> \o <<>> = <<At("up", h)>>
            /\ <<At("up", h)>> \o <<b>> = <<At("up", h), b>>
      BY Joins
    <2> QED BY <2>1
  <1> HIDE DEF p
  <1>8. cond[x] # <<>> => /\ Does(p, At("up", h)) /\ At("up", h) \in Range(p)
                          /\ Range(p) \subseteq {At("up", h), At("broadcast", x)}
    <2>1. CASE p = <<At("up", h)>>
      <3>1. Splits(p, At("up", h), <<>>, {At("up", h)})
        BY <2>1, Tuple1
      <3> QED BY <3>1 DEF Splits, Does
    <2>2. CASE p = <<At("up", h), At("broadcast", x)>>
      <3>1. Splits(p, At("up", h), <<At("broadcast", x)>>, {At("up", h), At("broadcast", x)})
        BY <2>2, Tuple2
      <3> QED BY <3>1 DEF Splits, Does
    <2> QED BY <1>7, <2>1, <2>2
  <1>9. \A t : /\ At("unblock", t) \notin Range(p) /\ At("down", t) \notin Range(p)
               /\ At("unblock", t) \notin Range(q) /\ At("down", t) \notin Range(q)
               /\ At("up", t) \notin Range(q)
               /\ At("up", t) \in Range(p) <=> cond[x] # <<>> /\ t = h
    <2>1. \A t : /\ At("unblock", t) \notin Range(q) /\ At("down", t) \notin Range(q)
                 /\ At("up", t) \notin Range(q)
      BY <1>5 DEF At
    <2>2. CASE cond[x] = <<>>
      BY <1>7, <2>1, <2>2, EmptyRange
    <2>3. CASE cond[x] # <<>>
      <3>1. \A t : /\ At("unblock", t) \notin Range(p) /\ At("down", t) \notin Range(p)
                   /\ At("up", t) \in Range(p) => t = h
        BY <1>8, <2>3 DEF At
      <3> QED BY <1>8, <2>1, <2>3, <3>1
    <2> QED BY <2>2, <2>3
  <1>10. \A t : /\ ~Makes(p, t) /\ ~Makes(q, t) /\ ~Waits(p, t) /\ ~Waits(q, t) /\ ~Upping(q, t)
                /\ Upping(p, t) <=> cond[x] # <<>> /\ t = h
    BY <1>9 DEF Makes, Waits, Upping
  <1>11. Code(current, p)
    <2>1. CASE cond[x] = <<>>
      BY <1>3, <1>7, <2>1 DEF Code
    <2>2. CASE cond[x] # <<>>
      BY <1>3, <1>6, <1>7, <2>2 DEF Code, SignalCode
    <2> QED BY <2>1, <2>2
  <1>12. /\ op # "down" /\ op # "init" /\ op # "unblock" /\ op # "idle"
    OBVIOUS
  <1>13. /\ \A s \in SemaIds : /\ waiters'[s] = waiters[s]
                               /\ \/ value'[s] = value[s] \/ waiters'[s] = <<>>
                                  \/ (value'[s] \in Nat /\ value'[s] <= value[s])
         /\ \A l \in Locks : holder'[l] \in {holder[l], current, Null}
         /\ \A t \in Thread : Makes(p, t) <=> Makes(q, t)
    BY <1>1, <1>10
  <1>14. /\ CodeI(todo)' /\ ReadyI(todo)' /\ WaitI(todo)' /\ WakeI(todo)' /\ DeadI(todo)'
         /\ MakeI(todo)'
    BY <1>1, <1>11, <1>12, <1>13, QuietStep
  <1>15. Moved(td, p)
    BY <1>1, ThenMoved
  <1>16. /\ NotLock(p) /\ ~Doing(p, "exit") /\ ~Doing(p, "store")
    <2>1. CASE cond[x] = <<>>
      BY <1>7, <2>1 DEF NotLock, Doing
    <2>2. CASE cond[x] # <<>>
      BY <1>6, <1>8, <2>2, SynchAssumption, SMT DEF NotLock, Does, Doing, At
    <2> QED BY <2>1, <2>2
  <1>17. NotLock(q) /\ ~Doing(q, "store")
    <2>1. Head(q).op = op
      BY <1>2 DEF Doing
    <2> QED BY <2>1 DEF NotLock, Doing
  <1>18. LockI(todo)'
    BY <1>1, <1>2, <1>4, <1>15, <1>16, <1>17, LockKept
  <1>19. TidI(todo)'
    BY <1>1, <1>2, <1>4, <1>15, <1>16, <1>17, TidKept
  <1>20. /\ cond' \in [Conds -> Seq(Thread)]
         /\ \A c \in Conds : cond'[c] = IF c = x
              /\ cond[x] # <<>> THEN Tail(cond[x]) ELSE cond[c]
    <2>1. CASE cond[x] = <<>>
      BY <1>1, <1>4, <2>1 DEF TypeI
    <2>2. CASE cond[x] # <<>>
      BY <1>1, <1>4, <1>6, <2>2 DEF TypeI
    <2> QED BY <2>1, <2>2
  <1>21. TypeI'
    BY <1>1, <1>4, <1>20 DEF TypeI, SchedType, threadVars, sched
  <1>22. SignalI(todo)'
    <2>1. CASE cond[x] = <<>>
      <3>1. cond' = cond
        BY <1>1, <2>1
      <3> QED BY <1>1, <1>2, <1>4, <1>10, <1>15, <2>1, <3>1, SignalKept
    <2>2. CASE cond[x] # <<>>
      <3>1. \A t : \A c \in Conds : Listed(t, c)' <=> Listed(t, c) /\ ~(c = x /\ t = h)
        BY <1>6, <1>20, <2>2 DEF Listed
      <3>2. \A t \in Thread : Waits(todo'[t], t) <=> Waits(td[t], t)
        BY <1>10, <1>15 DEF Moved
      <3>3. \A t, u \in Thread : Upping(todo'[u], t) <=> (t = h /\ u = current)
              \/ Upping(td[u], t)
        BY <1>2, <1>10, <1>15, <2>2 DEF Moved
      <3>4. Listed(h, x)
        BY <1>6, <2>2 DEF Listed
      <3>5. /\ Waits(td[h], h) /\ value[h] = 0
            /\ \A u \in Thread : ~Upping(td[u], h)
            /\ \A d \in Conds : Listed(h, d) <=> d = x
        BY <1>3, <1>4, <1>6, <2>2, <3>4 DEF SignalI
      <3>6. ASSUME NEW t \in Thread \ {idle}
            PROVE \/ /\ Waits(todo'[t], t) /\ value'[t] = 0
                     /\ \A u \in Thread : ~Upping(todo'[u], t)
                     /\ \E c \in Conds : \A d \in Conds : Listed(t, d)' <=> d = c
                  \/ /\ Waits(todo'[t], t) /\ value'[t] = 0
                     /\ \E v \in Thread : \A u \in Thread : Upping(todo'[u], t) <=> u = v
                     /\ \A c \in Conds : ~Listed(t, c)'
                  \/ /\ value'[t] = IF Waits(todo'[t], t) THEN 1 ELSE 0
                     /\ \A u \in Thread : ~Upping(todo'[u], t)
                     /\ \A c \in Conds : ~Listed(t, c)'
        <4>1. CASE t = h
          <5>1. Waits(todo'[t], t) /\ value'[t] = 0
            BY <1>1, <3>2, <3>5, <4>1
          <5>2. \A u \in Thread : Upping(todo'[u], t) <=> u = current
            BY <3>3, <3>5, <4>1
          <5>3. \A c \in Conds : ~Listed(t, c)'
            BY <3>1, <3>5, <4>1
          <5> QED BY <1>2, <5>1, <5>2, <5>3
        <4>2. CASE t # h
          <5>1. \/ /\ Waits(td[t], t) /\ value[t] = 0
                   /\ \A u \in Thread : ~Upping(td[u], t)
                   /\ \E c \in Conds : \A d \in Conds : Listed(t, d) <=> d = c
                \/ /\ Waits(td[t], t) /\ value[t] = 0
                   /\ \E v \in Thread : \A u \in Thread : Upping(td[u], t) <=> u = v
                   /\ \A c \in Conds : ~Listed(t, c)
                \/ /\ value[t] = IF Waits(td[t], t) THEN 1 ELSE 0
                   /\ \A u \in Thread : ~Upping(td[u], t)
                   /\ \A c \in Conds : ~Listed(t, c)
            BY <1>4 DEF SignalI
          <5>2. /\ Waits(todo'[t], t) <=> Waits(td[t], t)
                /\ \A u \in Thread : Upping(todo'[u], t) <=> Upping(td[u], t)
                /\ \A c \in Conds : Listed(t, c)' <=> Listed(t, c)
                /\ value'[t] = value[t]
            BY <1>1, <3>1, <3>2, <3>3, <4>2
          <5> QED BY <5>1, <5>2
        <4> QED BY <4>1, <4>2
      <3>7. \A c \in Conds : IsInjective(cond'[c]) /\ ~Listed(idle, c)'
        BY <1>4, <1>6, <1>20, <2>2, <3>1 DEF SignalI
      <3> QED BY <3>6, <3>7 DEF SignalI
    <2> QED BY <2>1, <2>2
  <1> QED BY <1>14, <1>18, <1>19, <1>21, <1>22 DEF Inv

-----------------------------------------------------------------------------
(* sema_down.                                                              *)

(* Nobody but its owner waits on the semaphore on a thread's stack.        *)
LEMMA OwnSemaphore ==
  ASSUME NEW td, TypeI, CodeI(td), WaitI(td), NEW t \in Thread, t # idle, status[t] # "blocked"
  PROVE  waiters[t] = <<>>
  <1>1. t \in SemaIds /\ waiters[t] \in Seq(Thread)
    BY DEF SemaIds, TypeI
  <1>2. ASSUME NEW u \in Thread, u \in Range(waiters[t]) PROVE FALSE
    <2>1. status[u] = "blocked" /\ td[u] # <<>> /\ Head(td[u]) = At("down", t)
      BY <1>1, <1>2 DEF WaitI, Does
    <2>2. Follows(u, "down", t, Tail(td[u]))
      BY <2>1, CodeFollows DEF CodeI
    <2>3. t \in {u, idle}
      BY <2>2 DEF Follows
    <2> QED BY <2>1, <2>3
  <1>3. Range(waiters[t]) \subseteq Thread /\ (waiters[t] = <<>> <=> Range(waiters[t]) = {})
    BY <1>1, RangeOfSeq
  <1> QED BY <1>2, <1>3

\* cond_wait enters the list.
LEMMA EnqueueStep ==
  ASSUME ThreadSets, NEW td, NEW x, Here(td, "enqueue", x), enqueue(x, Tail(td[current]))
  PROVE  Inv(todo)'
  <1> DEFINE q == td[current]
             r == Tail(q)
             l == LockOf[x]
  <1>1. /\ value' = [value EXCEPT ![current] = 0]
             /\ waiters' = [waiters EXCEPT ![current] = <<>>]
        /\ cond' = [cond EXCEPT ![x] = Append(@, current)]
        /\ todo' = [todo EXCEPT ![current] = r]
        /\ UNCHANGED <<threadVars, off>> /\ holder' = holder
        /\ tid' = tid /\ next_tid' = next_tid /\ elapsed' = elapsed
    BY DEF enqueue, tidVars, Then
  <1>2. /\ current \in Thread /\ status[current] = "running" /\ Code(current, r)
        /\ Follows(current, "enqueue", x, r)
        /\ \A o : Doing(q, o) <=> o = "enqueue"
    <2>1. "enqueue" # "block"
      OBVIOUS
    <2> QED BY <2>1, HereFacts
  <1>3. x \in Conds /\ current # idle /\ Does(r, At("unhold", l))
    BY <1>2 DEF Follows
  <1>4. /\ TypeI /\ LockI(td) /\ TidI(td) /\ SignalI(td) /\ CodeI(td) /\ WaitI(td)
        /\ Does(q, At("enqueue", x))
    BY DEF Here, Inv, Does
  <1>5. /\ \A t : Makes(r, t) <=> Makes(q, t)
        /\ \A t : Upping(r, t) <=> Upping(q, t)
        /\ Waits(r, current) /\ ~Waits(q, current)
    <2>1. Leaves("enqueue", x, q, r)
      BY RestFacts
    <2>2. "enqueue" # "init" /\ "enqueue" # "unblock" /\ "enqueue" # "up"
      OBVIOUS
    <2> QED BY <2>1, <2>2 DEF Leaves
  <1> HIDE DEF r
  <1>6. /\ value[current] = 0 /\ \A u \in Thread : ~Upping(td[u], current)
        /\ \A c \in Conds : ~Listed(current, c)
    BY <1>2, <1>3, <1>4, <1>5 DEF SignalI
  <1>7. current \in SemaIds /\ status[current] # "blocked"
    BY <1>2 DEF SemaIds
  <1>8. value' = value /\ waiters' = waiters
    <2>1. waiters[current] = <<>>
      BY <1>2, <1>3, <1>4, <1>7, OwnSemaphore
    <2> QED BY <1>1, <1>4, <1>6, <1>7, <2>1 DEF TypeI
  <1>9. /\ "enqueue" # "down" /\ "enqueue" # "init" /\ "enqueue" # "unblock"
             /\ "enqueue" # "idle"
    OBVIOUS
  <1>10. /\ \A s \in SemaIds : /\ waiters'[s] = waiters[s]
                               /\ \/ value'[s] = value[s] \/ waiters'[s] = <<>>
                                  \/ (value'[s] \in Nat /\ value'[s] <= value[s])
         /\ \A k \in Locks : holder'[k] \in {holder[k], current, Null}
         /\ \A t \in Thread : Makes(r, t) <=> Makes(q, t)
    BY <1>1, <1>5, <1>8
  <1>11. /\ CodeI(todo)' /\ ReadyI(todo)' /\ WaitI(todo)' /\ WakeI(todo)' /\ DeadI(todo)'
         /\ MakeI(todo)'
    BY <1>1, <1>2, <1>9, <1>10, QuietStep
  <1>12. Moved(td, r)
    BY <1>1, ThenMoved
  <1>13. /\ ~Doing(r, "store") /\ ~Doing(r, "enqueue") /\ ~Doing(r, "exit") /\ ~Doing(r, "load")
         /\ \A k \in Locks : /\ ~Does(r, At("hold", k)) /\ ~Does(r, At("up", k))
                             /\ Does(r, At("unhold", k)) => k = l
         /\ ~Doing(q, "store") /\ ~Doing(q, "load") /\ ~Does(q, At("unhold", tid_lock))
         /\ \A k \in Locks : ~Does(q, At("hold", k)) /\ ~Does(q, At("up", k))
    <2>1. /\ ~Doing(r, "store") /\ ~Doing(r, "enqueue") /\ ~Doing(r, "exit")
               /\ ~Doing(r, "load")
          /\ \A k \in Locks : /\ ~Does(r, At("hold", k)) /\ ~Does(r, At("up", k))
                              /\ Does(r, At("unhold", k)) => k = l
      BY <1>3, SMT DEF Doing, Does, At
    <2>2. /\ ~Doing(q, "store") /\ ~Doing(q, "load") /\ ~Does(q, At("unhold", tid_lock))
          /\ \A k \in Locks : ~Does(q, At("hold", k)) /\ ~Does(q, At("up", k))
      BY <1>2, HeadOps
    <2> QED BY <2>1, <2>2
  <1>14. TidI(todo)'
    BY <1>1, <1>2, <1>4, <1>12, <1>13, TidKept
  <1>15. LockI(todo)'
    <2>1. l \in Locks /\ tid_lock \in Locks /\ l # tid_lock
      BY <1>3, SynchAssumption
    <2>2. holder[l] = current
      BY <1>2, <1>3, <1>4 DEF LockI
    <2>3. value[l] = 0 /\ \A u \in Thread \ {current} : ~Owner(td, u, l)
      BY <1>2, <1>4, <2>1, <2>2, SoleOwner DEF Owner
    <2>4. holder[tid_lock] # current
      BY <1>2, <1>4, <1>13 DEF LockI
    <2>5. \A k \in Locks \ {l} :
           /\ value'[k] = value[k] /\ holder'[k] = holder[k]
           /\ ~Does(q, At("hold", k)) /\ ~Does(q, At("up", k))
           /\ ~Does(r, At("hold", k)) /\ ~Does(r, At("up", k)) /\ ~Does(r, At("unhold", k))
      BY <1>1, <1>8, <1>13
    <2>6. value'[l] = 0 /\ holder'[l] = current /\ holder'[tid_lock] # current
      BY <1>1, <1>8, <2>2, <2>3, <2>4
    <2>7. ~Does(r, At("up", l)) /\ ~Does(r, At("unhold", tid_lock))
      BY <1>13, <2>1
    <2> QED BY <1>2, <1>4, <1>12, <1>13, <2>1, <2>3, <2>5, <2>6, <2>7, LockChange
  <1>16. /\ cond[x] \in Seq(Thread) /\ IsInjective(cond[x]) /\ current \notin Range(cond[x])
    BY <1>3, <1>4, <1>6 DEF TypeI, SignalI, Listed
  <1>17. /\ Append(cond[x], current) \in Seq(Thread) /\ IsInjective(Append(cond[x], current))
         /\ Range(Append(cond[x], current)) = Range(cond[x]) \cup {current}
    <2>1. \A s \in Seq(Thread) : current \notin Range(s) /\ IsInjective(s) =>
            /\ Append(s, current) \in Seq(Thread) /\ IsInjective(Append(s, current))
            /\ Range(Append(s, current)) = Range(s) \cup {current}
      BY <1>2, InjAppend
    <2> QED BY <1>16, <2>1
  <1>18. /\ cond' \in [Conds -> Seq(Thread)]
         /\ \A c \in Conds : cond'[c] = IF c = x THEN Append(cond[x], current) ELSE cond[c]
    BY <1>1, <1>3, <1>4, <1>17 DEF TypeI
  <1>19. TypeI'
    BY <1>1, <1>4, <1>8, <1>18 DEF TypeI, SchedType, threadVars, sched
  <1>20. SignalI(todo)'
    <2>1. \A t : \A c \in Conds : Listed(t, c)' <=> Listed(t, c) \/ (c = x /\ t = current)
      BY <1>17, <1>18 DEF Listed
    <2>2. \A t \in Thread : t # current => (Waits(todo'[t], t) <=> Waits(td[t], t))
      BY <1>12 DEF Moved
    <2>3. \A t, u \in Thread : Upping(todo'[u], t) <=> Upping(td[u], t)
      BY <1>5, <1>12 DEF Moved
    <2>4. ASSUME NEW t \in Thread \ {idle}
          PROVE \/ /\ Waits(todo'[t], t) /\ value'[t] = 0
                   /\ \A u \in Thread : ~Upping(todo'[u], t)
                   /\ \E c \in Conds : \A d \in Conds : Listed(t, d)' <=> d = c
                \/ /\ Waits(todo'[t], t) /\ value'[t] = 0
                   /\ \E v \in Thread : \A u \in Thread : Upping(todo'[u], t) <=> u = v
                   /\ \A c \in Conds : ~Listed(t, c)'
                \/ /\ value'[t] = IF Waits(todo'[t], t) THEN 1 ELSE 0
                   /\ \A u \in Thread : ~Upping(todo'[u], t)
                   /\ \A c \in Conds : ~Listed(t, c)'
      <3>1. CASE t = current
        <4>1. Waits(todo'[t], t) /\ value'[t] = 0
          BY <1>5, <1>6, <1>8, <1>12, <3>1 DEF Moved
        <4>2. \A u \in Thread : ~Upping(todo'[u], t)
          BY <1>6, <2>3, <3>1
        <4>3. \A d \in Conds : Listed(t, d)' <=> d = x
          BY <1>6, <2>1, <3>1
        <4> QED BY <1>3, <4>1, <4>2, <4>3
      <3>2. CASE t # current
        <4>1. \/ /\ Waits(td[t], t) /\ value[t] = 0
                 /\ \A u \in Thread : ~Upping(td[u], t)
                 /\ \E c \in Conds : \A d \in Conds : Listed(t, d) <=> d = c
              \/ /\ Waits(td[t], t) /\ value[t] = 0
                 /\ \E v \in Thread : \A u \in Thread : Upping(td[u], t) <=> u = v
                 /\ \A c \in Conds : ~Listed(t, c)
              \/ /\ value[t] = IF Waits(td[t], t) THEN 1 ELSE 0
                 /\ \A u \in Thread : ~Upping(td[u], t)
                 /\ \A c \in Conds : ~Listed(t, c)
          BY <1>4 DEF SignalI
        <4>2. /\ Waits(todo'[t], t) <=> Waits(td[t], t)
              /\ \A u \in Thread : Upping(todo'[u], t) <=> Upping(td[u], t)
              /\ \A c \in Conds : Listed(t, c)' <=> Listed(t, c)
              /\ value'[t] = value[t]
          BY <1>8, <2>1, <2>2, <2>3, <3>2
        <4> QED BY <4>1, <4>2
      <3> QED BY <3>1, <3>2
    <2>5. \A c \in Conds : IsInjective(cond'[c]) /\ ~Listed(idle, c)'
      BY <1>3, <1>4, <1>17, <1>18, <2>1 DEF SignalI
    <2> QED BY <2>4, <2>5 DEF SignalI
  <1> QED BY <1>11, <1>14, <1>15, <1>19, <1>20 DEF Inv

\* The locks, when the running thread's next step stays the same.
LEMMA LockStill ==
  ASSUME NEW td, LockI(td), Moved(td, td[current]), holder' = holder,
         \A l \in Locks : value'[l] = value[l]
  PROVE  LockI(todo)'
  <1>1. \A t \in Thread : todo'[t] = td[t]
    BY DEF Moved
  <1>2. \A t \in Thread : \A l \in Locks : Owner(todo, t, l)' <=> Owner(td, t, l)
    BY <1>1 DEF Owner
  <1>3. \A l \in Locks : OneOwner(todo, l)'
    <2> TAKE l \in Locks
    <2>1. OneOwner(td, l) /\ \A t \in Thread : Owner(todo, t, l)' <=> Owner(td, t, l)
      BY <1>2 DEF LockI
    <2> QED BY <2>1 DEF OneOwner
  <1> QED BY <1>1, <1>3 DEF LockI

\* sema_down finds the value 0, enters the list and blocks.
LEMMA DownBlocks ==
  ASSUME ThreadSets, NEW td, NEW x, Here(td, "down", x), value[x] = 0,
         waiters' = [waiters EXCEPT ![x] = Append(@, current)],
         off' = [off EXCEPT ![current] = TRUE], Then(<<At("down", x)>> \o Tail(td[current])),
         thread_block, UNCHANGED <<all_list, idle_thread, value, holder, cond, tidVars,
           elapsed>>
  PROVE  Inv(todo)'
  <1> DEFINE q == td[current]
  <1>1. /\ current \in Thread /\ status[current] = "running"
             /\ Follows(current, "down", x, Tail(q))
        /\ \A o : Doing(q, o) <=> o = "down"
        /\ Code(current, q) /\ <<At("down", x)>> \o Tail(q) = q
    BY HereFacts
  <1>2. x \in SemaIds /\ current # idle /\ q # <<>>
    <2>1. x \in SemaIds /\ current # idle
      BY <1>1 DEF Follows
    <2> QED BY <2>1 DEF Here
  <1>3. /\ TypeI /\ CodeI(td) /\ ReadyI(td) /\ WaitI(td) /\ WakeI(td) /\ DeadI(td) /\ MakeI(td)
        /\ LockI(td) /\ TidI(td) /\ SignalI(td) /\ Does(q, At("down", x))
    BY DEF Here, Inv, Does
  <1>4. todo' = [todo EXCEPT ![current] = q]
    BY <1>1 DEF Then
  <1>5. Moved(td, q) /\ \A t \in Thread : todo'[t] = td[t]
    <2>1. Moved(td, q)
      BY <1>4, ThenMoved
    <2> QED BY <2>1 DEF Moved
  <1>6. /\ all_list' = all_list /\ idle_thread' = idle_thread /\ value' = value
             /\ holder' = holder
        /\ cond' = cond /\ tid' = tid /\ next_tid' = next_tid /\ elapsed' = elapsed
    BY DEF tidVars
  <1>7. /\ SchedType' /\ SchedOK'
        /\ \A t \in Thread \ {idle} :
              status'[t] = "blocked"
                <=> IF t = current THEN "blocked" = "blocked" ELSE status[t] = "blocked"
        /\ \A t \in Thread :
              status'[t] \in {"none", "dying"} <=>
                IF t = current THEN "blocked" = "dying" ELSE status[t] \in {"none", "dying"}
    <2>1. schedule([status EXCEPT ![current] = "blocked"], ready_list)
      BY DEF thread_block
    <2>2. /\ "blocked" \in {"blocked", "ready", "dying"} /\ "blocked" # "dying"
          /\ ready_list = IF "blocked" = "ready" /\ current # idle_thread
                          THEN Append(ready_list, current) ELSE ready_list
      OBVIOUS
    <2>3. SchedType /\ SchedOK
      BY <1>3 DEF TypeI, ReadyI
    <2> QED BY <1>2, <1>6, <2>1, <2>2, <2>3, Switched
  <1>8. /\ status'[current] = "blocked"
        /\ \A t \in Thread : t # current /\ t # idle
             => (status'[t] = "blocked" <=> status[t] = "blocked")
        /\ \A t \in Thread : status'[t] \in {"none", "dying"}
             => status[t] \in {"none", "dying"} /\ t # current
    <2>1. "blocked" # "dying"
      OBVIOUS
    <2> QED BY <1>1, <1>2, <1>7, <2>1
  <1>9. CodeI(todo)'
    BY <1>1, <1>3, <1>5, CodeKept
  <1>10. ReadyI(todo)'
    BY <1>2, <1>3, <1>5, <1>6, <1>7, ReadyKept
  <1>11. DeadI(todo)'
    <2>1. \A l \in Locks : holder'[l] \in {holder[l], current, Null}
      BY <1>6
    <2> QED BY <1>1, <1>3, <1>5, <1>6, <1>8, <2>1, DeadKept
  <1>12. idle \in Thread /\ td[idle] # <<>> /\ \A s : ~Does(td[idle], At("down", s))
    <2>1. idle \in Thread
      BY ThreadsAssumption
    <2>2. td[idle] # <<>> /\ ~Doing(td[idle], "down")
      BY <1>3, <2>1, IdleSteps DEF CodeI
    <2> QED BY <2>1, <2>2, HeadOps
  <1>13. MakeI(todo)'
    <2>1. \A t \in Thread : (status'[t] = "blocked" /\ todo'[t] = <<>>) <=>
                            (status[t] = "blocked" /\ td[t] = <<>>)
      BY <1>2, <1>5, <1>8, <1>12
    <2> QED BY <1>1, <1>3, <1>5, <2>1, MakeKept
  <1>14. LockI(todo)'
    BY <1>3, <1>5, <1>6, LockStill
  <1>15. SignalI(todo)'
    BY <1>1, <1>3, <1>5, <1>6, SignalKept
  <1>16. ~Doing(q, "store")
    BY <1>1
  <1>17. TidI(todo)'
    BY <1>1, <1>3, <1>5, <1>6, <1>16, TidKept
  <1>18. \A t \in Thread : off'[t] = IF t = current THEN TRUE ELSE off[t]
    BY <1>3 DEF TypeI
  <1>19. status[current] # "blocked"
    BY <1>1
  <1>20. /\ waiters[x] \in Seq(Thread) /\ IsInjective(waiters[x])
              /\ current \notin Range(waiters[x])
    BY <1>1, <1>2, <1>3, <1>19 DEF TypeI, WaitI
  <1>21. /\ Append(waiters[x], current) \in Seq(Thread)
              /\ IsInjective(Append(waiters[x], current))
         /\ Range(Append(waiters[x], current)) = Range(waiters[x]) \cup {current}
    <2>1. \A s \in Seq(Thread) : current \notin Range(s) /\ IsInjective(s) =>
            /\ Append(s, current) \in Seq(Thread) /\ IsInjective(Append(s, current))
            /\ Range(Append(s, current)) = Range(s) \cup {current}
      BY <1>1, InjAppend
    <2> QED BY <1>20, <2>1
  <1>22. /\ waiters' \in [SemaIds -> Seq(Thread)]
         /\ \A s \in SemaIds : waiters'[s] = IF s = x THEN Append(waiters[x],
              current) ELSE waiters[s]
    BY <1>2, <1>3, <1>21 DEF TypeI
  <1>23. WaitI(todo)'
    <2>1. \A t \in Thread : off'[t] => Doing(todo'[t], "down")
      BY <1>1, <1>3, <1>5, <1>18 DEF WaitI
    <2>2. \A t \in Thread \ {idle} : status'[t] = "blocked" /\ todo'[t] # <<>> => off'[t]
      BY <1>3, <1>5, <1>8, <1>18 DEF WaitI
    <2>3. ASSUME NEW s \in SemaIds
          PROVE  /\ IsInjective(waiters'[s])
                 /\ \A t \in Thread :
                      t \in Range(waiters'[s]) <=> status'[t] = "blocked"
                        /\ Does(todo'[t], At("down", s))
      <3>1. /\ IsInjective(waiters[s])
            /\ \A t \in Thread :
                 t \in Range(waiters[s]) <=> status[t] = "blocked" /\ Does(td[t], At("down", s))
        BY <1>3 DEF WaitI
      <3>2. \A t \in Thread : status'[t] = "blocked" /\ Does(todo'[t], At("down", s)) <=>
                              \/ t = current /\ s = x
                              \/ status[t] = "blocked" /\ Does(td[t], At("down", s))
        <4>1. Does(q, At("down", s)) <=> s = x
          BY <1>3, HeadOps
        <4> QED BY <1>1, <1>2, <1>5, <1>8, <1>12, <1>19, <4>1
      <3>3. CASE s = x
        BY <1>21, <1>22, <3>1, <3>2, <3>3
      <3>4. CASE s # x
        BY <1>22, <3>1, <3>2, <3>4
      <3> QED BY <3>3, <3>4
    <2> QED BY <2>1, <2>2, <2>3 DEF WaitI
  <1>24. WakeI(todo)'
    <2> SUFFICES ASSUME NEW s \in SemaIds, waiters'[s] # <<>>
                 PROVE  value'[s] <= Cardinality(WokenOn(todo, s)')
      BY DEF WakeI
    <2>1. CASE s = x
      <3>1. WokenOn(todo, s)' \in SUBSET Thread
        BY DEF WokenOn
      <3>2. Cardinality(WokenOn(todo, s)') \in Nat
        BY <3>1 DEF ThreadSets
      <3> QED BY <1>6, <2>1, <3>2, SMT
    <2>2. CASE s # x
      <3>1. ~Does(q, At("down", s))
        BY <1>3, <2>2, HeadOps
      <3>2. \A t \in Thread : off'[t] /\ status'[t] # "blocked"
              /\ Does(todo'[t], At("down", s)) <=>
                              off[t] /\ status[t] # "blocked" /\ Does(td[t], At("down", s))
        BY <1>5, <1>8, <1>12, <1>18, <3>1
      <3>3. WokenOn(todo, s)' = WokenOn(td, s)
        BY <3>2 DEF WokenOn
      <3>4. waiters[s] # <<>>
        BY <1>22, <2>2
      <3> QED BY <1>3, <1>6, <3>3, <3>4 DEF WakeI
    <2> QED BY <2>1, <2>2
  <1>25. off' \in [Thread -> BOOLEAN]
    BY <1>3 DEF TypeI
  <1>26. TypeI'
    BY <1>3, <1>6, <1>7, <1>22, <1>25 DEF TypeI
  <1> QED BY <1>9, <1>10, <1>11, <1>13, <1>14, <1>15, <1>17, <1>23, <1>24, <1>26 DEF Inv

\* sema_down finds a positive value and takes a unit of it.
LEMMA DownTakes ==
  ASSUME ThreadSets, NEW td, NEW x, Here(td, "down", x), value[x] > 0,
         value' = [value EXCEPT ![x] = @ - 1], off' = [off EXCEPT ![current] = FALSE],
         Then(Tail(td[current])),
           UNCHANGED <<threadVars, waiters, holder, cond, tidVars, elapsed>>
  PROVE  Inv(todo)'
  <1> DEFINE q == td[current]
             r == Tail(q)
  <1>1. /\ current \in Thread /\ status[current] = "running" /\ Follows(current, "down", x, r)
        /\ \A o : Doing(q, o) <=> o = "down"
        /\ Code(current, r)
    <2>1. "down" # "block"
      OBVIOUS
    <2> QED BY <2>1, HereFacts
  <1>2. x \in SemaIds /\ current # idle /\ (x \in Thread => x \in {current, idle})
    BY <1>1 DEF Follows
  <1>3. /\ TypeI /\ CodeI(td) /\ ReadyI(td) /\ WaitI(td) /\ WakeI(td) /\ DeadI(td) /\ MakeI(td)
        /\ LockI(td) /\ TidI(td) /\ SignalI(td) /\ Does(q, At("down", x))
    BY DEF Here, Inv, Does
  <1>4. todo' = [todo EXCEPT ![current] = r]
    BY DEF Then
  <1>5. Moved(td, r) /\ todo'[current] = r /\ \A t \in Thread \ {current} : todo'[t] = td[t]
    <2>1. Moved(td, r)
      BY <1>4, ThenMoved
    <2> QED BY <2>1 DEF Moved
  <1>6. /\ status' = status /\ ready_list' = ready_list /\ current' = current
             /\ thread_ticks' = thread_ticks
        /\ all_list' = all_list /\ idle_thread' = idle_thread /\ waiters' = waiters
             /\ holder' = holder
        /\ cond' = cond /\ tid' = tid /\ next_tid' = next_tid /\ elapsed' = elapsed
    BY DEF tidVars, threadVars, sched
  <1>7. /\ \A t : Makes(r, t) <=> Makes(q, t)
        /\ \A t : Upping(r, t) <=> Upping(q, t)
        /\ Waits(r, current) <=> Waits(q, current) /\ x # current
        /\ x = current => Waits(q, current)
    <2>1. Leaves("down", x, q, r)
      BY RestFacts
    <2>2. "down" # "init" /\ "down" # "unblock" /\ "down" # "up"
      OBVIOUS
    <2> QED BY <2>1, <2>2 DEF Leaves
  <1>8. LockI(todo)' /\ ~Doing(r, "store")
    <2>1. "down" \in {"down", "trydown"}
      OBVIOUS
    <2> QED BY <1>5, <1>6, <2>1, LockTaken
  <1> HIDE DEF r
  <1>9. /\ \A s \in SemaIds : value'[s] = IF s = x THEN value[s] - 1 ELSE value[s]
        /\ value' \in [SemaIds -> Nat] /\ value[x] \in Nat
    BY <1>2, <1>3, SMT DEF TypeI
  <1>10. CodeI(todo)'
    BY <1>1, <1>3, <1>5, CodeKept
  <1>11. SchedOK'
    BY <1>3, <1>6 DEF ReadyI, SchedOK
  <1>12. ReadyI(todo)'
    BY <1>2, <1>3, <1>5, <1>6, <1>11, ReadyKept
  <1>13. status[current] # "blocked" /\ status[current] \notin {"none", "dying"}
           /\ ~Doing(q, "store")
    BY <1>1
  <1>14. DeadI(todo)'
    <2>1. \A l \in Locks : holder'[l] \in {holder[l], current, Null}
      BY <1>6
    <2>2. \A t \in Thread : status'[t] \in {"none", "dying"} => status[t] \in {"none", "dying"}
            /\ t # current
      BY <1>6, <1>13
    <2> QED BY <1>1, <1>3, <1>5, <1>6, <2>1, <2>2, DeadKept
  <1>15. MakeI(todo)'
    <2>1. \A t \in Thread : (status'[t] = "blocked" /\ todo'[t] = <<>>) <=>
                            (status[t] = "blocked" /\ td[t] = <<>>)
      BY <1>5, <1>6, <1>13
    <2> QED BY <1>1, <1>3, <1>5, <1>7, <2>1, MakeKept
  <1>16. TidI(todo)'
    BY <1>1, <1>3, <1>5, <1>6, <1>8, <1>13, TidKept
  <1>17. \A t \in Thread : off'[t] = IF t = current THEN FALSE ELSE off[t]
    BY <1>3 DEF TypeI
  <1>18. WaitI(todo)'
    <2>1. \A t \in Thread : off'[t] => Doing(todo'[t], "down")
      BY <1>3, <1>5, <1>17 DEF WaitI
    <2>2. \A t \in Thread \ {idle} : status'[t] = "blocked" /\ todo'[t] # <<>> => off'[t]
      BY <1>3, <1>5, <1>6, <1>13, <1>17 DEF WaitI
    <2>3. ASSUME NEW s \in SemaIds
          PROVE  /\ IsInjective(waiters'[s])
                 /\ \A t \in Thread :
                      t \in Range(waiters'[s]) <=> status'[t] = "blocked"
                        /\ Does(todo'[t], At("down", s))
      <3>1. /\ IsInjective(waiters[s])
            /\ \A t \in Thread :
                 t \in Range(waiters[s]) <=> status[t] = "blocked" /\ Does(td[t], At("down", s))
        BY <1>3 DEF WaitI
      <3> QED BY <1>5, <1>6, <1>13, <3>1
    <2> QED BY <2>1, <2>2, <2>3 DEF WaitI
  <1>19. WakeI(todo)'
    <2> SUFFICES ASSUME NEW s \in SemaIds, waiters'[s] # <<>>
                 PROVE  value'[s] <= Cardinality(WokenOn(todo, s)')
      BY DEF WakeI
    <2> DEFINE A == WokenOn(td, s)
               B == WokenOn(todo, s)'
    <2>1. A \in SUBSET Thread /\ B \in SUBSET Thread
      BY DEF WokenOn
    <2>2. \A t \in Thread : t \in B <=> t \in A /\ t # current
      BY <1>5, <1>6, <1>17 DEF WokenOn
    <2>3. value[s] <= Cardinality(A)
      BY <1>3, <1>6 DEF WakeI
    <2>4. Cardinality(A) \in Nat /\ Cardinality(B) \in Nat
      BY <2>1 DEF ThreadSets
    <2>5. current \in A => s = x
      BY <1>3, HeadOps DEF WokenOn
    <2> HIDE DEF A, B
    <2>6. CASE current \in A
      <3>1. A = B \cup {current} /\ current \notin B
        BY <2>1, <2>2, <2>6
      <3>2. Cardinality(A) = Cardinality(B) + 1
        BY <1>1, <2>1, <3>1 DEF ThreadSets
      <3> QED BY <1>9, <2>3, <2>4, <2>5, <2>6, <3>2, SMT DEF B
    <2>7. CASE current \notin A
      <3>1. A = B
        BY <2>1, <2>2, <2>7
      <3>2. value[s] \in Nat
        BY <1>3 DEF TypeI
      <3>3. value'[s] <= value[s]
        BY <1>9, <3>2, SMT
      <3> QED BY <1>9, <2>3, <2>4, <3>1, <3>2, <3>3, SMT DEF B
    <2> QED BY <2>6, <2>7
  <1>20. SignalI(todo)'
    <2>1. Thread \subseteq SemaIds
      BY DEF SemaIds
    <2>2. CASE x # current
      <3>1. \A t \in Thread \ {idle} : value'[t] = value[t]
        BY <1>2, <1>9, <2>1, <2>2
      <3> QED BY <1>1, <1>3, <1>5, <1>6, <1>7, <2>2, <3>1, SignalKept
    <2>3. CASE x = current
      <3>1. /\ value[current] = 1 /\ \A u \in Thread : ~Upping(td[u], current)
            /\ \A c \in Conds : ~Listed(current, c)
        <4>1. Waits(q, current) /\ value[current] # 0
          BY <1>7, <1>9, <2>3, SMT
        <4> QED BY <1>1, <1>2, <1>3, <4>1 DEF SignalI
      <3>2. value'[current] = 0 /\ \A t \in Thread : t # current => value'[t] = value[t]
        BY <1>1, <1>9, <2>1, <2>3, <3>1, SMT
      <3>3. /\ ~Waits(todo'[current], current)
            /\ \A t \in Thread : t # current => (Waits(todo'[t], t) <=> Waits(td[t], t))
        BY <1>5, <1>7, <2>3
      <3>4. \A t, u \in Thread : Upping(todo'[u], t) <=> Upping(td[u], t)
        BY <1>5, <1>7
      <3>5. \A t : \A c \in Conds : Listed(t, c)' <=> Listed(t, c)
        BY <1>6 DEF Listed
      <3>6. ASSUME NEW t \in Thread \ {idle}
            PROVE \/ /\ Waits(todo'[t], t) /\ value'[t] = 0
                     /\ \A u \in Thread : ~Upping(todo'[u], t)
                     /\ \E c \in Conds : \A d \in Conds : Listed(t, d)' <=> d = c
                  \/ /\ Waits(todo'[t], t) /\ value'[t] = 0
                     /\ \E v \in Thread : \A u \in Thread : Upping(todo'[u], t) <=> u = v
                     /\ \A c \in Conds : ~Listed(t, c)'
                  \/ /\ value'[t] = IF Waits(todo'[t], t) THEN 1 ELSE 0
                     /\ \A u \in Thread : ~Upping(todo'[u], t)
                     /\ \A c \in Conds : ~Listed(t, c)'
        <4>1. CASE t = current
          BY <3>1, <3>2, <3>3, <3>4, <3>5, <4>1
        <4>2. CASE t # current
          <5>1. \/ /\ Waits(td[t], t) /\ value[t] = 0
                   /\ \A u \in Thread : ~Upping(td[u], t)
                   /\ \E c \in Conds : \A d \in Conds : Listed(t, d) <=> d = c
                \/ /\ Waits(td[t], t) /\ value[t] = 0
                   /\ \E v \in Thread : \A u \in Thread : Upping(td[u], t) <=> u = v
                   /\ \A c \in Conds : ~Listed(t, c)
                \/ /\ value[t] = IF Waits(td[t], t) THEN 1 ELSE 0
                   /\ \A u \in Thread : ~Upping(td[u], t)
                   /\ \A c \in Conds : ~Listed(t, c)
            BY <1>3 DEF SignalI
          <5>2. /\ Waits(todo'[t], t) <=> Waits(td[t], t)
                /\ \A u \in Thread : Upping(todo'[u], t) <=> Upping(td[u], t)
                /\ \A c \in Conds : Listed(t, c)' <=> Listed(t, c)
                /\ value'[t] = value[t]
            BY <3>2, <3>3, <3>4, <3>5, <4>2
          <5> QED BY <5>1, <5>2
        <4> QED BY <4>1, <4>2
      <3>7. \A c \in Conds : IsInjective(cond'[c]) /\ ~Listed(idle, c)'
        BY <1>3, <1>6, <3>5 DEF SignalI
      <3> QED BY <3>6, <3>7 DEF SignalI
    <2> QED BY <2>2, <2>3
  <1>21. off' \in [Thread -> BOOLEAN]
    BY <1>3 DEF TypeI
  <1>22. TypeI'
    BY <1>3, <1>6, <1>9, <1>21 DEF TypeI, SchedType
  <1> QED BY <1>8, <1>10, <1>12, <1>14, <1>15, <1>16, <1>18, <1>19, <1>20, <1>22 DEF Inv

\* sema_down: the thread blocks, or takes a unit of the value.
LEMMA DownStep ==
  ASSUME ThreadSets, NEW td, NEW x, Here(td, "down", x), sema_down(x, Tail(td[current]))
  PROVE  Inv(todo)'
  BY DownBlocks, DownTakes DEF sema_down

-----------------------------------------------------------------------------
(* sema_up.                                                                *)

\* thread_unblock
LEMMA Unblocked ==
  ASSUME SchedType, SchedOK, NEW h \in Thread, h # idle, status[h] = "blocked",
         thread_unblock(h), idle_thread' = idle_thread
  PROVE  /\ SchedType' /\ SchedOK'
         /\ \A t \in Thread : status'[t] = IF t = h THEN "ready" ELSE status[t]
  <1>1. /\ ready_list' = Append(ready_list, h) /\ status' = [status EXCEPT ![h] = "ready"]
        /\ current' = current /\ thread_ticks' = thread_ticks
    BY DEF thread_unblock
  <1>2. \A t \in Thread : status'[t] = IF t = h THEN "ready" ELSE status[t]
    BY <1>1 DEF SchedType
  <1>3. h \notin Range(ready_list) /\ h # current /\ h # idle_thread
    <2>1. h # Null
      BY ThreadsAssumption
    <2> QED BY <2>1 DEF SchedOK, SchedType
  <1>4. /\ ready_list' \in Seq(Thread) /\ IsInjective(ready_list')
        /\ Range(ready_list') = Range(ready_list) \cup {h}
    <2>1. ready_list \in Seq(Thread) /\ IsInjective(ready_list)
      BY DEF SchedType, SchedOK
    <2>2. /\ Append(ready_list, h) \in Seq(Thread) /\ IsInjective(Append(ready_list, h))
          /\ Range(Append(ready_list, h)) = Range(ready_list) \cup {h}
      BY <1>3, <2>1, InjAppend
    <2> QED BY <1>1, <2>2
  <1>5. status' \in [Thread -> Statuses]
    <2>1. "ready" \in Statuses
      BY DEF Statuses
    <2> QED BY <1>1, <2>1 DEF SchedType
  <1>6. SchedType'
    BY <1>1, <1>4, <1>5 DEF SchedType
  <1>7. \A t \in Thread : status'[t] = "running" <=> t = current
    BY <1>2, <1>3 DEF SchedOK
  <1>8. \A t \in Thread : t \in Range(ready_list') <=> status'[t] = "ready" /\ t # idle_thread
    BY <1>2, <1>3, <1>4 DEF SchedOK
  <1>9. status'[idle] = status[idle]
    BY <1>2, ThreadsAssumption
  <1>10. SchedOK'
    BY <1>1, <1>4, <1>7, <1>8, <1>9 DEF SchedOK
  <1> QED BY <1>2, <1>6, <1>10

(* sema_up, by the running thread or in an interrupt handler while it is   *)
(* about to do q, which makes it go on with p.                             *)
LEMMA Upped ==
  ASSUME ThreadSets, NEW td, NEW p, Moved(td, p), NEW x \in SemaIds, sema_up(x),
         TypeI, CodeI(td), ReadyI(td), WaitI(td), WakeI(td), DeadI(td), MakeI(td),
         ~off[current], Code(current, p),
         current = idle => ~Doing(td[idle], "idle") \/ p = td[idle],
         \A t \in Thread : Makes(p, t) <=> Makes(td[current], t)
  PROVE  /\ TypeI' /\ CodeI(todo)' /\ ReadyI(todo)' /\ WaitI(todo)' /\ WakeI(todo)'
         /\ DeadI(todo)' /\ MakeI(todo)'
  <1> DEFINE h == Head(waiters[x])
  <1>1. /\ value' = [value EXCEPT ![x] = @ + 1]
        /\ all_list' = all_list /\ idle_thread' = idle_thread /\ off' = off /\ holder' = holder
        /\ cond' = cond /\ tid' = tid /\ next_tid' = next_tid /\ elapsed' = elapsed
    BY DEF sema_up, tidVars
  <1>2. SchedType /\ SchedOK /\ current \in Thread /\ status[current] = "running"
    BY DEF TypeI, ReadyI, SchedType, SchedOK
  <1>3. status[current] # "blocked" /\ status[current] \notin {"none", "dying"}
    BY <1>2
  <1>4. CodeI(todo)'
    BY <1>2, CodeKept
  <1>5. /\ \A s \in SemaIds : value'[s] = IF s = x THEN value[s] + 1 ELSE value[s]
        /\ value' \in [SemaIds -> Nat] /\ value[x] \in Nat
    BY <1>1, SMT DEF TypeI
  <1>6. \A l \in Locks : holder'[l] \in {holder[l], current, Null}
    BY <1>1
  <1>7. \A t \in Thread : t # current => todo'[t] = td[t]
    BY DEF Moved
  <1>8. CASE waiters[x] = <<>>
    <2>1. /\ status' = status /\ ready_list' = ready_list /\ current' = current
          /\ thread_ticks' = thread_ticks /\ waiters' = waiters
      BY <1>8 DEF sema_up, sched
    <2>2. SchedType' /\ SchedOK'
      BY <1>1, <1>2, <2>1 DEF SchedType, SchedOK
    <2>3. TypeI'
      BY <1>1, <1>5, <2>1, <2>2 DEF TypeI
    <2>4. ReadyI(todo)'
      BY <1>1, <2>2, ReadyKept
    <2>5. \A s \in SemaIds : waiters'[s] = waiters[s]
            /\ (value'[s] = value[s] \/ waiters'[s] = <<>>
                 \/ (value'[s] \in Nat /\ value'[s] <= value[s]))
      BY <1>5, <1>8, <2>1
    <2>6. WaitI(todo)' /\ WakeI(todo)'
      BY <1>1, <1>2, <1>3, <1>4, <2>1, <2>5, WaitKept
    <2>7. DeadI(todo)'
      BY <1>1, <1>2, <1>3, <1>6, <2>1, DeadKept
    <2>8. \A t \in Thread : (status'[t] = "blocked" /\ todo'[t] = <<>>) <=>
                            (status[t] = "blocked" /\ td[t] = <<>>)
      BY <1>3, <1>7, <2>1
    <2>9. MakeI(todo)'
      BY <1>2, <2>8, MakeKept
    <2> QED BY <1>4, <2>3, <2>4, <2>6, <2>7, <2>9
  <1>9. CASE waiters[x] # <<>>
    <2>1. /\ thread_unblock(h) /\ waiters' = [waiters EXCEPT ![x] = Tail(@)]
      BY <1>9 DEF sema_up
    <2>2. /\ h \in Thread /\ h \in Range(waiters[x]) /\ Tail(waiters[x]) \in Seq(Thread)
          /\ IsInjective(Tail(waiters[x])) /\ Range(Tail(waiters[x])) = Range(waiters[x]) \ {h}
      <3>1. waiters[x] \in Seq(Thread) /\ IsInjective(waiters[x])
        BY DEF TypeI, WaitI
      <3> QED BY <1>9, <3>1, InjTail
    <2>3. status[h] = "blocked" /\ Does(td[h], At("down", x))
      BY <2>2 DEF WaitI
    <2>4. h # idle /\ h # current /\ td[h] # <<>>
      <3>1. idle \in Thread
        BY ThreadsAssumption
      <3>2. ~Doing(td[idle], "down")
        BY <3>1, IdleSteps DEF CodeI
      <3> QED BY <1>3, <2>3, <3>2, HeadOps DEF Does
    <2>5. off[h]
      BY <2>2, <2>3, <2>4 DEF WaitI
    <2>6. /\ SchedType' /\ SchedOK'
          /\ \A t \in Thread : status'[t] = IF t = h THEN "ready" ELSE status[t]
      BY <1>1, <1>2, <2>1, <2>2, <2>3, <2>4, Unblocked
    <2>7. /\ \A t \in Thread : status'[t] = "blocked" <=> status[t] = "blocked" /\ t # h
          /\ \A t \in Thread : status'[t] \in {"none", "dying"}
               => status[t] \in {"none", "dying"}
      BY <2>6
    <2>8. /\ waiters' \in [SemaIds -> Seq(Thread)]
          /\ \A s \in SemaIds : waiters'[s] = IF s = x THEN Tail(waiters[x]) ELSE waiters[s]
      BY <2>1, <2>2 DEF TypeI
    <2>9. TypeI'
      BY <1>1, <1>5, <2>6, <2>8 DEF TypeI
    <2>10. ReadyI(todo)'
      BY <1>1, <2>6, ReadyKept
    <2>11. DeadI(todo)'
      <3>1. \A t \in Thread : status'[t] \in {"none", "dying"}
              => status[t] \in {"none", "dying"} /\ t # current
        BY <1>3, <2>7
      <3> QED BY <1>1, <1>2, <1>6, <3>1, DeadKept
    <2>12. MakeI(todo)'
      <3>1. \A t \in Thread : (status'[t] = "blocked" /\ todo'[t] = <<>>) <=>
                              (status[t] = "blocked" /\ td[t] = <<>>)
        BY <1>3, <1>7, <2>4, <2>7
      <3> QED BY <1>2, <3>1, MakeKept
    <2>13. WaitI(todo)'
      <3>1. \A t \in Thread : off'[t] => Doing(todo'[t], "down")
        BY <1>1, <1>7 DEF WaitI
      <3>2. \A t \in Thread \ {idle} : status'[t] = "blocked" /\ todo'[t] # <<>> => off'[t]
        BY <1>1, <1>3, <1>7, <2>7 DEF WaitI
      <3>3. ASSUME NEW s \in SemaIds
            PROVE  /\ IsInjective(waiters'[s])
                   /\ \A t \in Thread :
                        t \in Range(waiters'[s]) <=> status'[t] = "blocked"
                          /\ Does(todo'[t], At("down", s))
        <4>1. /\ IsInjective(waiters[s])
              /\ \A t \in Thread :
                   t \in Range(waiters[s]) <=> status[t] = "blocked"
                     /\ Does(td[t], At("down", s))
          BY DEF WaitI
        <4>2. \A t \in Thread : status'[t] = "blocked" /\ Does(todo'[t], At("down", s)) <=>
                                status[t] = "blocked" /\ Does(td[t], At("down", s)) /\ t # h
          BY <1>3, <1>7, <2>7
        <4>3. CASE s = x
          BY <2>2, <2>8, <4>1, <4>2, <4>3
        <4>4. CASE s # x
          <5>1. ~Does(td[h], At("down", s))
            BY <2>3, <4>4, HeadOps
          <5> QED BY <2>8, <4>1, <4>2, <4>4, <5>1
        <4> QED BY <4>3, <4>4
      <3> QED BY <3>1, <3>2, <3>3 DEF WaitI
    <2>14. WakeI(todo)'
      <3> SUFFICES ASSUME NEW s \in SemaIds, waiters'[s] # <<>>
                   PROVE  value'[s] <= Cardinality(WokenOn(todo, s)')
        BY DEF WakeI
      <3> DEFINE A == WokenOn(td, s)
                 B == WokenOn(todo, s)'
      <3>1. A \in SUBSET Thread /\ B \in SUBSET Thread
        BY DEF WokenOn
      <3>2. \A t \in Thread : t \in B <=> t \in A \/ (t = h /\ s = x)
        <4>1. Does(td[h], At("down", s)) <=> s = x
          BY <2>3, HeadOps
        <4> QED BY <1>1, <1>7, <2>4, <2>5, <2>7, <4>1 DEF WokenOn
      <3>3. h \notin A
        BY <2>3 DEF WokenOn
      <3>4. waiters[s] # <<>>
        BY <1>9, <2>8
      <3>5. value[s] <= Cardinality(A)
        BY <3>4 DEF WakeI
      <3>6. Cardinality(A) \in Nat /\ Cardinality(B) \in Nat
        BY <3>1 DEF ThreadSets
      <3> HIDE DEF A, B
      <3>7. CASE s = x
        <4>1. B = A \cup {h}
          BY <2>2, <3>1, <3>2, <3>7
        <4>2. Cardinality(B) = Cardinality(A) + 1
          BY <2>2, <3>1, <3>3, <4>1 DEF ThreadSets
        <4> QED BY <1>5, <3>5, <3>6, <3>7, <4>2, SMT DEF B
      <3>8. CASE s # x
        <4>1. B = A
          BY <3>1, <3>2, <3>8
        <4> QED BY <1>5, <3>5, <3>8, <4>1 DEF B
      <3> QED BY <3>7, <3>8
    <2> QED BY <1>4, <2>9, <2>10, <2>11, <2>12, <2>13, <2>14
  <1> QED BY <1>8, <1>9, Zenon

\* sema_up, called by the running thread.
LEMMA UpStep ==
  ASSUME ThreadSets, NEW td, NEW x, Here(td, "up", x), sema_up(x), Then(Tail(td[current]))
  PROVE  Inv(todo)'
  <1> DEFINE q == td[current]
             r == Tail(q)
  <1>1. /\ value' = [value EXCEPT ![x] = @ + 1] /\ holder' = holder
        /\ cond' = cond /\ tid' = tid /\ next_tid' = next_tid
    BY DEF sema_up, tidVars
  <1>2. /\ current \in Thread /\ Follows(current, "up", x, r)
        /\ \A o : Doing(q, o) <=> o = "up"
        /\ Code(current, r) /\ ~off[current]
    <2>1. "up" # "block" /\ "up" # "down"
      OBVIOUS
    <2> QED BY <2>1, HereFacts
  <1>3. /\ x \in SemaIds
        /\ \/ r = <<>> \/ Doing(r, "down") \/ Doing(r, "unblock")
           \/ Doing(r, "broadcast") \/ Doing(r, "block")
    BY <1>2 DEF Follows
  <1>4. /\ TypeI /\ CodeI(td) /\ ReadyI(td) /\ WaitI(td) /\ WakeI(td) /\ DeadI(td) /\ MakeI(td)
        /\ LockI(td) /\ TidI(td) /\ SignalI(td) /\ Does(q, At("up", x))
    BY DEF Here, Inv, Does
  <1>5. Moved(td, r) /\ todo'[current] = r /\ \A t \in Thread \ {current} : todo'[t] = td[t]
    <2>1. todo' = [todo EXCEPT ![current] = r]
      BY DEF Then
    <2>2. Moved(td, r)
      BY <2>1, ThenMoved
    <2> QED BY <2>2 DEF Moved
  <1>6. /\ \A t : Makes(r, t) <=> Makes(q, t)
        /\ \A t : Upping(r, t) <=> Upping(q, t) /\ t # x
        /\ Upping(q, x)
        /\ Waits(r, current) <=> Waits(q, current)
    <2>1. Leaves("up", x, q, r)
      BY RestFacts
    <2>2. "up" # "init" /\ "up" # "unblock" /\ "up" # "down" /\ "up" # "enqueue"
      OBVIOUS
    <2> QED BY <2>1, <2>2 DEF Leaves
  <1> HIDE DEF r
  <1>7. ~Doing(q, "idle") /\ ~Doing(q, "store") /\ ~Doing(q, "load")
          /\ ~Does(q, At("unhold", tid_lock))
    BY <1>2, HeadOps
  <1>8. /\ TypeI' /\ CodeI(todo)' /\ ReadyI(todo)' /\ WaitI(todo)' /\ WakeI(todo)'
        /\ DeadI(todo)' /\ MakeI(todo)'
    BY <1>2, <1>3, <1>4, <1>5, <1>6, <1>7, Upped
  <1>9. /\ ~Doing(r, "store") /\ ~Doing(r, "enqueue") /\ ~Doing(r, "exit") /\ ~Doing(r, "load")
        /\ \A l \in Locks : /\ ~Does(r, At("hold", l)) /\ ~Does(r, At("up", l))
                            /\ ~Does(r, At("unhold", l))
        /\ NotLock(r)
    BY <1>3, SMT DEF Doing, Does, At, NotLock
  <1>10. TidI(todo)'
    BY <1>1, <1>2, <1>4, <1>5, <1>7, <1>9, TidKept
  <1>11. \A s \in SemaIds : value'[s] = IF s = x THEN value[s] + 1 ELSE value[s]
    BY <1>1, <1>4 DEF TypeI
  <1>12. Locks \subseteq SemaIds /\ Thread \subseteq SemaIds
    BY DEF SemaIds
  <1>13. LockI(todo)'
    <2>1. CASE x \in Locks
      <3>1. holder[x] # current
        BY <1>2, <1>4, <2>1 DEF LockI
      <3>2. value[x] = 0 /\ \A t \in Thread \ {current} : ~Owner(td, t, x)
        BY <1>2, <1>4, <2>1, SoleOwner DEF Owner
      <3>3. holder[x] = Null
        BY <1>4, <2>1, <3>1, <3>2 DEF TypeI, Owner
      <3>4. \A l \in Locks \ {x} :
              /\ value'[l] = value[l] /\ holder'[l] = holder[l]
              /\ ~Does(td[current], At("hold", l)) /\ ~Does(td[current], At("up", l))
              /\ ~Does(r, At("hold", l)) /\ ~Does(r, At("up", l)) /\ ~Does(r, At("unhold", l))
        <4>1. \A l \in Locks \ {x} : value'[l] = value[l] /\ holder'[l] = holder[l]
          BY <1>1, <1>11, <1>12
        <4>2. \A l \in Locks \ {x} : ~Does(q, At("hold", l)) /\ ~Does(q, At("up", l))
          BY <1>2, <1>4, HeadOps
        <4> QED BY <1>9, <4>1, <4>2
      <3>5. value'[x] = 1
        BY <1>3, <1>11, <3>2, SMT
      <3>6. holder[tid_lock] # current
        BY <1>2, <1>4, <1>7 DEF LockI
      <3>7. tid_lock \in Locks
        BY SynchAssumption
      <3>8. holder'[x] \in {current, Null} /\ holder'[x] # current
        BY <1>1, <1>2, <3>1, <3>3
      <3>9. value'[x] = IF \/ holder'[x] = current \/ Does(r, At("hold", x))
                           \/ Does(r, At("up", x)) THEN 0 ELSE 1
        BY <1>9, <2>1, <3>5, <3>8
      <3>10. holder'[tid_lock] = current <=> \/ Doing(r, "load") \/ Doing(r, "store")
                                             \/ Does(r, At("unhold", tid_lock))
        BY <1>1, <1>9, <3>6, <3>7
      <3> QED BY <1>2, <1>4, <1>5, <1>9, <2>1, <3>2, <3>4, <3>8, <3>9, <3>10, LockChange
    <2>2. CASE x \notin Locks
      <3>1. NotLock(q)
        <4>1. Head(q).op = "up" /\ Head(q).x = x
          BY <1>4, SMT DEF Does, At
        <4> QED BY <2>2, <4>1 DEF NotLock
      <3>2. \A l \in Locks : value'[l] = value[l]
        BY <1>11, <1>12, <2>2
      <3> QED BY <1>1, <1>2, <1>4, <1>5, <1>9, <3>1, <3>2, LockKept
    <2> QED BY <2>1, <2>2
  <1>14. SignalI(todo)'
    <2>1. CASE x \notin Thread \ {idle}
      <3>1. \A t \in Thread \ {idle} : value'[t] = value[t]
        BY <1>11, <1>12, <2>1
      <3>2. \A t \in Thread \ {idle} : Upping(r, t) <=> Upping(q, t)
        BY <1>6, <2>1
      <3> QED BY <1>1, <1>2, <1>4, <1>5, <1>6, <3>1, <3>2, SignalKept
    <2>2. CASE x \in Thread \ {idle}
      <3>1. /\ Waits(td[x], x) /\ value[x] = 0 /\ \A c \in Conds : ~Listed(x, c)
            /\ \A u \in Thread : Upping(td[u], x) <=> u = current
        BY <1>2, <1>4, <1>6, <2>2 DEF SignalI
      <3>2. value'[x] = 1 /\ \A t \in Thread : t # x => value'[t] = value[t]
        BY <1>3, <1>11, <1>12, <3>1, SMT
      <3>3. \A t \in Thread : Waits(todo'[t], t) <=> Waits(td[t], t)
        BY <1>5, <1>6
      <3>4. \A t, u \in Thread : Upping(todo'[u], t) <=> Upping(td[u], t) /\ t # x
        BY <1>5, <1>6, <3>1
      <3>5. \A t : \A c \in Conds : Listed(t, c)' <=> Listed(t, c)
        BY <1>1 DEF Listed
      <3>6. ASSUME NEW t \in Thread \ {idle}
            PROVE \/ /\ Waits(todo'[t], t) /\ value'[t] = 0
                     /\ \A u \in Thread : ~Upping(todo'[u], t)
                     /\ \E c \in Conds : \A d \in Conds : Listed(t, d)' <=> d = c
                  \/ /\ Waits(todo'[t], t) /\ value'[t] = 0
                     /\ \E v \in Thread : \A u \in Thread : Upping(todo'[u], t) <=> u = v
                     /\ \A c \in Conds : ~Listed(t, c)'
                  \/ /\ value'[t] = IF Waits(todo'[t], t) THEN 1 ELSE 0
                     /\ \A u \in Thread : ~Upping(todo'[u], t)
                     /\ \A c \in Conds : ~Listed(t, c)'
        <4>1. CASE t = x
          BY <3>1, <3>2, <3>3, <3>4, <3>5, <4>1
        <4>2. CASE t # x
          <5>1. \/ /\ Waits(td[t], t) /\ value[t] = 0
                   /\ \A u \in Thread : ~Upping(td[u], t)
                   /\ \E c \in Conds : \A d \in Conds : Listed(t, d) <=> d = c
                \/ /\ Waits(td[t], t) /\ value[t] = 0
                   /\ \E v \in Thread : \A u \in Thread : Upping(td[u], t) <=> u = v
                   /\ \A c \in Conds : ~Listed(t, c)
                \/ /\ value[t] = IF Waits(td[t], t) THEN 1 ELSE 0
                   /\ \A u \in Thread : ~Upping(td[u], t)
                   /\ \A c \in Conds : ~Listed(t, c)
            BY <1>4 DEF SignalI
          <5>2. /\ Waits(todo'[t], t) <=> Waits(td[t], t)
                /\ \A u \in Thread : Upping(todo'[u], t) <=> Upping(td[u], t)
                /\ \A c \in Conds : Listed(t, c)' <=> Listed(t, c)
                /\ value'[t] = value[t]
            BY <3>2, <3>3, <3>4, <3>5, <4>2
          <5> QED BY <5>1, <5>2
        <4> QED BY <4>1, <4>2
      <3>7. \A c \in Conds : IsInjective(cond'[c]) /\ ~Listed(idle, c)'
        BY <1>1, <1>4, <3>5 DEF SignalI
      <3> QED BY <3>6, <3>7 DEF SignalI
    <2> QED BY <2>1, <2>2
  <1> QED BY <1>8, <1>10, <1>13, <1>14 DEF Inv

(* Interrupted: a thread at hlt goes on, the others stay where they are.   *)
LEMMA InterruptMoves ==
  ASSUME Inv(todo), Interrupted
  PROVE  \E p : /\ Moved(todo, p) /\ Code(current, p)
                /\ \/ p = todo[current]
                   \/ /\ current = idle /\ ~Doing(todo[idle], "idle")
                           /\ ~Doing(todo[idle], "store")
                      /\ NotLock(todo[idle]) /\ NotLock(p) /\ ~Doing(p, "exit")
                           /\ ~Doing(p, "store")
                /\ \A t : /\ Makes(p, t) <=> Makes(todo[current], t)
                          /\ Upping(p, t) <=> Upping(todo[current], t)
  <1>1. current \in Thread /\ DOMAIN todo = Thread /\ Code(current, todo[current])
    BY DEF Inv, TypeI, SchedType, CodeI
  <1>2. CASE todo[current] = idle_loop
    <2>1. todo' = [todo EXCEPT ![current] = Tail(idle_loop)]
      BY <1>2 DEF Interrupted, Then
    <2>2. Splits(idle_loop, At("hlt", Null), <<At("block", Null)>>,
            {At("hlt", Null), At("block", Null)})
      BY Tuple2 DEF idle_loop
    <2> DEFINE p == <<At("block", Null)>>
    <2>3. Splits(p, At("block", Null), <<>>, {At("block", Null)})
      BY Tuple1
    <2>4. Tail(idle_loop) = p
      BY <2>2 DEF Splits
    <2> HIDE DEF p
    <2>5. Moved(todo, p)
      BY <1>1, <2>1, <2>4 DEF Moved
    <2>6. current = idle
      <3>1. todo[current] # <<>> /\ Head(todo[current]) = At("hlt", Null)
        BY <1>2, <2>2 DEF Splits
      <3>2. Follows(current, "hlt", Null, Tail(todo[current]))
        BY <1>1, <3>1, CodeFollows
      <3> QED BY <3>2 DEF Follows
    <2>7. Code(current, p)
      BY <2>6 DEF Code, IdleCode, p
    <2>8. /\ ~Doing(todo[idle], "idle") /\ ~Doing(todo[idle], "store") /\ NotLock(todo[idle])
          /\ NotLock(p) /\ ~Doing(p, "exit") /\ ~Doing(p, "store")
      BY <1>2, <2>2, <2>3, <2>6, SMT DEF Splits, Doing, NotLock, At
    <2>9. \A t : /\ At("unblock", t) \notin Range(p) /\ At("unblock", t) \notin Range(idle_loop)
                 /\ At("up", t) \notin Range(p) /\ At("up", t) \notin Range(idle_loop)
      <3>1. Range(p) = {At("block", Null)}
              /\ Range(idle_loop) = {At("hlt", Null), At("block", Null)}
        BY <2>2, <2>3 DEF Splits
      <3> QED BY <3>1 DEF At
    <2>10. \A t : /\ Makes(p, t) <=> Makes(todo[current], t)
                  /\ Upping(p, t) <=> Upping(todo[current], t)
      BY <1>2, <2>9 DEF Makes, Upping
    <2> QED BY <2>5, <2>6, <2>7, <2>8, <2>10
  <1>3. CASE todo[current] # idle_loop
    <2>1. todo' = todo
      BY <1>3 DEF Interrupted
    <2>2. Moved(todo, todo[current])
      BY <1>1, <2>1 DEF Moved
    <2> QED BY <1>1, <2>2
  <1> QED BY <1>2, <1>3

\* A device's handler ups a semaphore.
LEMMA DeviceStep ==
  ASSUME ThreadSets, Inv(todo), NEW s \in Semas, device_interrupt(s)
  PROVE  Inv(todo)'
  <1>1. ~off[current] /\ sema_up(s) /\ Interrupted
    BY DEF device_interrupt
  <1>2. PICK p : /\ Moved(todo, p) /\ Code(current, p)
                 /\ \/ p = todo[current]
                    \/ /\ current = idle /\ ~Doing(todo[idle], "idle")
                            /\ ~Doing(todo[idle], "store")
                       /\ NotLock(todo[idle]) /\ NotLock(p) /\ ~Doing(p, "exit")
                            /\ ~Doing(p, "store")
                 /\ \A t : /\ Makes(p, t) <=> Makes(todo[current], t)
                           /\ Upping(p, t) <=> Upping(todo[current], t)
    BY <1>1, InterruptMoves
  <1>3. /\ TypeI /\ CodeI(todo) /\ ReadyI(todo) /\ WaitI(todo) /\ WakeI(todo) /\ DeadI(todo)
        /\ MakeI(todo) /\ LockI(todo) /\ TidI(todo) /\ SignalI(todo)
    BY DEF Inv
  <1>4. current \in Thread /\ s \in SemaIds /\ s \notin Locks /\ s \notin Thread
    BY <1>3, SynchAssumption DEF TypeI, SchedType, SemaIds
  <1>5. current = idle => ~Doing(todo[idle], "idle") \/ p = todo[idle]
    BY <1>2
  <1>6. /\ TypeI' /\ CodeI(todo)' /\ ReadyI(todo)' /\ WaitI(todo)' /\ WakeI(todo)'
        /\ DeadI(todo)' /\ MakeI(todo)'
    BY <1>1, <1>2, <1>3, <1>4, <1>5, Upped
  <1>7. /\ value' = [value EXCEPT ![s] = @ + 1] /\ holder' = holder
        /\ cond' = cond /\ tid' = tid /\ next_tid' = next_tid
    BY <1>1 DEF sema_up, tidVars
  <1>8. /\ \A l \in Locks : value'[l] = value[l]
        /\ \A t \in Thread : value'[t] = value[t]
    BY <1>3, <1>4, <1>7 DEF TypeI, SemaIds
  <1>9. LockI(todo)'
    <2>1. CASE p = todo[current]
      BY <1>2, <1>3, <1>7, <1>8, <2>1, LockStill
    <2>2. CASE p # todo[current]
      BY <1>2, <1>3, <1>4, <1>7, <1>8, <2>2, LockKept
    <2> QED BY <2>1, <2>2
  <1>10. SignalI(todo)'
    <2>1. current # idle => (Waits(p, current) <=> Waits(todo[current], current))
      BY <1>2
    <2> QED BY <1>2, <1>3, <1>4, <1>7, <1>8, <2>1, SignalKept
  <1>11. TidI(todo)'
    <2>1. CASE p = todo[current]
      <3>1. \A t \in Thread : todo'[t] = todo[t]
        BY <1>2, <2>1 DEF Moved
      <3> QED BY <1>3, <1>7, <3>1 DEF TidI, TidsUnique
    <2>2. CASE p # todo[current]
      BY <1>2, <1>3, <1>4, <1>7, <2>2, TidKept
    <2> QED BY <2>1, <2>2
  <1> QED BY <1>6, <1>9, <1>10, <1>11 DEF Inv
=============================================================================
