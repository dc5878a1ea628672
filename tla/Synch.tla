------------------------------- MODULE Synch --------------------------------
(***************************************************************************)
(* Semaphores, locks and condition variables of Pintos                     *)
(* (pintos/src/threads/synch.c), the threads that use them, and the two    *)
(* interrupts that get in between: the timer's, which ends a time slice,   *)
(* and a device's, whose handler ups a semaphore.                          *)
(*                                                                         *)
(* A call is the sequence of steps between which interrupts are on; todo   *)
(* holds the steps its thread has still to take.  A thread outside of any  *)
(* call may make any call whose assertions hold.                           *)
(***************************************************************************)
EXTENDS Threads, Functions

CONSTANTS Semas,           \* semaphores the threads and the devices share
          Locks, tid_lock,
          Conds,
          LockOf,          \* the lock each condition variable goes with
          MaxValue,        \* bound on the semaphores' values
          MaxTid,          \* bound on the thread identifiers
          MaxSleep         \* longest timer_sleep

ASSUME SynchAssumption ==
  /\ tid_lock \in Locks
  /\ LockOf \in [Conds -> Locks \ {tid_lock}]
  /\ Semas \cap Locks = {} /\ (Semas \cup Locks) \cap Thread = {}
  /\ MaxValue \in Nat /\ MaxTid \in Nat /\ MaxSleep \in Nat

VARIABLES todo,
          off,       \* the thread resumes in sema_down, interrupts disabled
          value, waiters,  \* the semaphores
          holder,    \* the locks' holders
          cond,      \* the threads in each condition variable's list
          tid, next_tid,
          elapsed    \* ticks since a thread called timer_sleep

semaVars == <<value, waiters>>
tidVars == <<tid, next_tid>>
vars == <<threadVars, todo, off, semaVars, holder, cond, tidVars, elapsed>>

(* A lock is its semaphore.  A thread stands for the semaphore on its      *)
(* stack: the waiter of a cond_wait, and idle_started (of idle).           *)
SemaIds == Semas \cup Locks \cup Thread

At(op, x) == [op |-> op, x |-> x]

-----------------------------------------------------------------------------
(* The calls *)

\* The lock is given up before the holder is cleared.
lock_release_UpFirst(l) == <<At("up", l), At("unhold", l)>>

lock_acquire(l) == <<At("down", l), At("hold", l)>>
lock_release(l) == <<At("unhold", l), At("up", l)>>

\* The lock is released before the waiter is in the list.
cond_wait_ReleaseFirst(c) ==
  lock_release(LockOf[c]) \o <<At("enqueue", c), At("down", current)>>
    \o lock_acquire(LockOf[c])

cond_wait(c) ==
  <<At("enqueue", c)>> \o lock_release(LockOf[c]) \o <<At("down", current)>>
    \o lock_acquire(LockOf[c])

\* Two threads may both read next_tid before either writes it.
allocate_tid_Unlocked(t) == <<At("load", t), At("store", t)>>

allocate_tid(t) ==
  lock_acquire(tid_lock) \o <<At("load", t), At("store", t)>>
    \o lock_release(tid_lock)

thread_create(t) == <<At("init", t)>> \o allocate_tid(t) \o <<At("unblock", t)>>

\* The function of the idle thread, until and from its first sti; hlt.
idle_func == <<At("idle", Null), At("up", idle), At("block", Null)>>
idle_loop == <<At("hlt", Null), At("block", Null)>>

lock_held(l) == holder[l] = current

\* The calls the running thread may make.
Calls ==
  (UNION {{<<At("down", s)>>, <<At("trydown", s)>>} : s \in Semas})
    \cup {<<At("up", s)>> : s \in {s \in Semas : value[s] < MaxValue}}
    \cup (UNION {{lock_acquire(l), <<At("trydown", l), At("hold", l)>>} :
                   l \in {l \in Locks \ {tid_lock} : ~lock_held(l)}})
    \cup {lock_release(l) : l \in {l \in Locks : lock_held(l)}}
    \cup (UNION {{cond_wait(c), <<At("signal", c)>>, <<At("broadcast", c)>>} :
                   c \in {c \in Conds : lock_held(LockOf[c])}})
    \cup {thread_create(t) : t \in {t \in Thread : status[t] = "none" /\ next_tid < MaxTid}}
    \cup {<<At("sleep", n)>> : n \in 1..MaxSleep}
    \cup {<<At("yield", Null)>>}
    \cup IF \E l \in Locks : lock_held(l) THEN {} ELSE {<<At("exit", Null)>>}

-----------------------------------------------------------------------------
(* The steps; rest is what the running thread does next. *)

Then(rest) == todo' = [todo EXCEPT ![current] = rest]

\* A thread that was woken takes the value it was woken for, checked or not.
sema_down_If(s, rest) ==
  \/ /\ value[s] = 0 /\ ~off[current]
     /\ waiters' = [waiters EXCEPT ![s] = Append(@, current)]
     /\ off' = [off EXCEPT ![current] = TRUE]
     /\ Then(<<At("down", s)>> \o rest)
     /\ thread_block
     /\ UNCHANGED <<all_list, idle_thread, value, holder, cond, tidVars, elapsed>>
  \/ /\ value[s] > 0 \/ off[current]
     /\ value' = [value EXCEPT ![s] = @ - 1]
     /\ off' = [off EXCEPT ![current] = FALSE]
     /\ Then(rest)
     /\ UNCHANGED <<threadVars, waiters, holder, cond, tidVars, elapsed>>

\* Runs from here with interrupts off until it blocks or is done.
sema_down(s, rest) ==
  \/ /\ value[s] = 0
     /\ waiters' = [waiters EXCEPT ![s] = Append(@, current)]
     /\ off' = [off EXCEPT ![current] = TRUE]
     /\ Then(<<At("down", s)>> \o rest)
     /\ thread_block
     /\ UNCHANGED <<all_list, idle_thread, value, holder, cond, tidVars, elapsed>>
  \/ /\ value[s] > 0
     /\ value' = [value EXCEPT ![s] = @ - 1]
     /\ off' = [off EXCEPT ![current] = FALSE]
     /\ Then(rest)
     /\ UNCHANGED <<threadVars, waiters, holder, cond, tidVars, elapsed>>

\* A failure ends the call: lock_try_acquire does not set the holder.
sema_try_down(s, rest) ==
  /\ IF value[s] > 0
     THEN value' = [value EXCEPT ![s] = @ - 1] /\ Then(rest)
     ELSE UNCHANGED value /\ Then(<<>>)
  /\ UNCHANGED <<threadVars, off, waiters, holder, cond, tidVars, elapsed>>

\* A waiter is woken only by the up that makes the value positive.
sema_up_IfZero(s) ==
  /\ value' = [value EXCEPT ![s] = @ + 1]
  /\ IF waiters[s] # <<>> /\ value[s] = 0
     THEN /\ thread_unblock(Head(waiters[s]))
          /\ waiters' = [waiters EXCEPT ![s] = Tail(@)]
     ELSE UNCHANGED <<sched, waiters>>
  /\ UNCHANGED <<all_list, idle_thread, off, holder, cond, tidVars, elapsed>>

sema_up(s) ==
  /\ value' = [value EXCEPT ![s] = @ + 1]
  /\ IF waiters[s] # <<>>
     THEN /\ thread_unblock(Head(waiters[s]))
          /\ waiters' = [waiters EXCEPT ![s] = Tail(@)]
     ELSE UNCHANGED <<sched, waiters>>
  /\ UNCHANGED <<all_list, idle_thread, off, holder, cond, tidVars, elapsed>>

set_holder(l, t, rest) ==
  /\ holder' = [holder EXCEPT ![l] = t] /\ Then(rest)
  /\ UNCHANGED <<threadVars, off, semaVars, cond, tidVars, elapsed>>

\* cond_wait: sema_init (&waiter.semaphore, 0), and into the list.
enqueue(c, rest) ==
  /\ value' = [value EXCEPT ![current] = 0]
  /\ waiters' = [waiters EXCEPT ![current] = <<>>]
  /\ cond' = [cond EXCEPT ![c] = Append(@, current)]
  /\ Then(rest)
  /\ UNCHANGED <<threadVars, off, holder, tidVars, elapsed>>

\* The waiter is taken off the list, and its semaphore will be upped.
cond_signal(c, rest) ==
  /\ IF cond[c] = <<>>
     THEN Then(rest) /\ UNCHANGED cond
     ELSE /\ Then(<<At("up", Head(cond[c]))>> \o rest)
          /\ cond' = [cond EXCEPT ![c] = Tail(@)]
  /\ UNCHANGED <<threadVars, off, semaVars, holder, tidVars, elapsed>>

cond_broadcast(c, rest) ==
  cond_signal(c, IF cond[c] = <<>> THEN rest ELSE <<At("broadcast", c)>> \o rest)

\* thread_create: the page becomes a thread.
create(t, rest) ==
  /\ init_thread(t)
  /\ Then(rest)
  /\ UNCHANGED <<idle_thread, off, semaVars, holder, cond, tidVars, elapsed>>

\* tid = next_tid++ is a load and a store.
load_tid(t, rest) ==
  /\ tid' = [tid EXCEPT ![t] = next_tid] /\ Then(rest)
  /\ UNCHANGED <<threadVars, off, semaVars, holder, cond, next_tid, elapsed>>

store_tid(t, rest) ==
  /\ next_tid' = tid[t] + 1 /\ Then(rest)
  /\ UNCHANGED <<threadVars, off, semaVars, holder, cond, tid, elapsed>>

unblock(t, rest) ==
  /\ thread_unblock(t)
  /\ Then(rest)
  /\ UNCHANGED <<all_list, idle_thread, off, semaVars, holder, cond, tidVars, elapsed>>

yield(rest) ==
  /\ thread_yield
  /\ Then(rest)
  /\ UNCHANGED <<all_list, idle_thread, off, semaVars, holder, cond, tidVars, elapsed>>

\* The thread sleeps a tick less than it was asked to.
timer_sleep_Early(n, rest) ==
  IF elapsed[current] >= n - 1
  THEN /\ elapsed' = [elapsed EXCEPT ![current] = 0] /\ Then(rest)
       /\ UNCHANGED <<threadVars, off, semaVars, holder, cond, tidVars>>
  ELSE yield(<<At("sleep", n)>> \o rest)

timer_sleep(n, rest) ==
  IF elapsed[current] >= n
  THEN /\ elapsed' = [elapsed EXCEPT ![current] = 0] /\ Then(rest)
       /\ UNCHANGED <<threadVars, off, semaVars, holder, cond, tidVars>>
  ELSE yield(<<At("sleep", n)>> \o rest)

\* Its page may be used again, for a thread that has not made a call yet.
exit ==
  /\ thread_exit
  /\ Then(<<>>)
  /\ tid' = [tid EXCEPT ![current] = 0]
  /\ UNCHANGED <<idle_thread, off, semaVars, holder, cond, next_tid, elapsed>>

idle_init(rest) ==
  /\ idle_thread' = current /\ Then(rest)
  /\ UNCHANGED <<sched, all_list, off, semaVars, holder, cond, tidVars, elapsed>>

\* The next time round it is at "sti; hlt", where only an interrupt helps.
idle_block ==
  /\ thread_block
  /\ Then(idle_loop)
  /\ UNCHANGED <<all_list, idle_thread, off, semaVars, holder, cond, tidVars, elapsed>>

Step(at, rest) ==
  \/ at.op = "down" /\ sema_down(at.x, rest)
  \/ at.op = "trydown" /\ sema_try_down(at.x, rest)
  \/ at.op = "up" /\ sema_up(at.x) /\ Then(rest)
  \/ at.op = "hold" /\ set_holder(at.x, current, rest)
  \/ at.op = "unhold" /\ set_holder(at.x, Null, rest)
  \/ at.op = "enqueue" /\ enqueue(at.x, rest)
  \/ at.op = "signal" /\ cond_signal(at.x, rest)
  \/ at.op = "broadcast" /\ cond_broadcast(at.x, rest)
  \/ at.op = "init" /\ create(at.x, rest)
  \/ at.op = "load" /\ load_tid(at.x, rest)
  \/ at.op = "store" /\ store_tid(at.x, rest)
  \/ at.op = "unblock" /\ unblock(at.x, rest)
  \/ at.op = "yield" /\ yield(rest)
  \/ at.op = "sleep" /\ timer_sleep(at.x, rest)
  \/ at.op = "exit" /\ exit
  \/ at.op = "idle" /\ idle_init(rest)
  \/ at.op = "block" /\ idle_block

-----------------------------------------------------------------------------
\* After thread_init and thread_start's thread_create ("idle", ...).
Init ==
  /\ status = [t \in Thread |-> CASE t = main -> "running"
                                  [] t = idle -> "ready"
                                  [] OTHER -> "none"]
  /\ ready_list = <<idle>> /\ all_list = {main, idle}
  /\ current = main /\ idle_thread = Null /\ thread_ticks = 0
  /\ todo = [t \in Thread |->
              CASE t = main -> <<At("down", idle)>>
                [] t = idle -> idle_func
                [] OTHER -> <<>>]
  /\ off = [t \in Thread |-> FALSE]
  /\ value = [s \in SemaIds |-> IF s \in Locks THEN 1 ELSE 0]
  /\ waiters = [s \in SemaIds |-> <<>>]
  /\ holder = [l \in Locks |-> Null]
  /\ cond = [c \in Conds |-> <<>>]
  /\ tid = [t \in Thread |-> CASE t = main -> 1 [] t = idle -> 2 [] OTHER -> 0]
  /\ next_tid = 3
  /\ elapsed = [t \in Thread |-> 0]

\* The running thread goes on with its call, or makes another.
Continue == todo[current] # <<>> /\ Step(Head(todo[current]), Tail(todo[current]))

Call ==
  /\ todo[current] = <<>> /\ current # idle
  /\ \E call \in Calls : Step(Head(call), Tail(call))

\* An interrupt ends the hlt instruction.
Interrupted ==
  IF todo[current] = idle_loop THEN Then(Tail(idle_loop)) ELSE UNCHANGED todo

At_sleep(t) == todo[t] # <<>> /\ Head(todo[t]).op = "sleep"

\* Ticks are only counted in the time slice.
timer_interrupt_NoCount ==
  /\ ~off[current]
  /\ thread_tick
  /\ Interrupted
  /\ UNCHANGED <<all_list, idle_thread, off, semaVars, holder, cond, tidVars, elapsed>>

timer_interrupt ==
  /\ ~off[current]
  /\ thread_tick
  /\ Interrupted
  /\ elapsed' = [t \in Thread |-> IF At_sleep(t) /\ elapsed[t] < MaxSleep
                                 THEN elapsed[t] + 1 ELSE elapsed[t]]
  /\ UNCHANGED <<all_list, idle_thread, off, semaVars, holder, cond, tidVars>>

\* A device's handler: no yield when it returns.
device_interrupt(s) ==
  /\ ~off[current] /\ value[s] < MaxValue
  /\ sema_up(s)
  /\ Interrupted

Next == Continue \/ Call \/ timer_interrupt \/ \E s \in Semas : device_interrupt(s)

Spec == Init /\ [][Next]_vars

(* A thread that is scheduled again and again gets on with its call (its   *)
(* time slice is long enough for a step), and timer interrupts keep        *)
(* coming: one that comes while interrupts are off is pending until they   *)
(* are on again.  No call need ever be made.                               *)
Fairness ==
  /\ \A t \in Thread : SF_vars(current = t /\ Continue)
  /\ SF_vars(timer_interrupt)

FairSpec == Spec /\ Fairness

-----------------------------------------------------------------------------
Steps(t) == Range(todo[t])

TypeOK ==
  /\ status \in [Thread -> Statuses] /\ all_list \subseteq Thread
  /\ current \in Thread /\ idle_thread \in {Null, idle}
  /\ thread_ticks \in 0..TIME_SLICE - 1
  /\ off \in [Thread -> BOOLEAN]
  /\ DOMAIN value = SemaIds /\ \A s \in SemaIds : value[s] \in Nat
  /\ DOMAIN waiters = SemaIds /\ DOMAIN cond = Conds
  /\ holder \in [Locks -> Thread \cup {Null}]
  /\ tid \in [Thread -> Nat] /\ next_tid \in Nat
  /\ elapsed \in [Thread -> 0..MaxSleep]

(* thread.h: the elem member "can be an element in the run queue, or it    *)
(* can be an element in a semaphore wait list.  It can be used these two   *)
(* ways only because they are mutually exclusive": the ready list holds    *)
(* the ready threads, each once, a semaphore's list the threads blocked in *)
(* its sema_down, and no other thread is in a list.  idle: "After that,    *)
(* the idle thread never appears in the ready list."                       *)
ElemInOneList ==
  /\ {t \in Thread : status[t] = "running"} = {current}
  /\ IsInjective(ready_list)
  /\ Range(ready_list) = {t \in Thread : status[t] = "ready"} \ {idle_thread}
  /\ \A s \in SemaIds :
       /\ IsInjective(waiters[s])
       /\ Range(waiters[s]) = {t \in Thread : /\ status[t] = "blocked"
                                             /\ todo[t] # <<>>
                                             /\ Head(todo[t]) = At("down", s)}
  /\ \A t \in Thread :
       status[t] = "blocked" /\ t # idle_thread /\ todo[t] = <<>> =>
         \E u \in Thread : At("unblock", t) \in Steps(u)

\* The threads woken on s that have not looked at its value again yet.
Woken(s) == {t \in Thread : /\ off[t] /\ status[t] # "blocked"
                            /\ Head(todo[t]) = At("down", s)}

(* sema_up "increments SEMA's value and wakes up one thread": while        *)
(* threads wait, every unit of the value has a woken thread coming for it, *)
(* even if other threads take units in the meantime and woken threads go   *)
(* back to sleep.                                                          *)
NoLostWakeup ==
  \A s \in SemaIds :
    waiters[s] # <<>> => value[s] <= Cardinality(Woken(s))

\* t has taken the lock: it is, was, or is about to be the holder.
Owns(t, l) ==
  \/ holder[l] = t
  \/ todo[t] # <<>> /\ Head(todo[t]) \in {At("hold", l), At("up", l)}

(* "A lock can be held by at most a single thread at any given time", and  *)
(* it is free exactly when no thread has it, although the holder is set    *)
(* after the semaphore is down and cleared before it is up again.          *)
LockExclusive ==
  \A l \in Locks : value[l] + Cardinality({t \in Thread : Owns(t, l)}) = 1

(* cond_wait "atomically releases LOCK and waits": from the moment it is   *)
(* in the list until its sema_down is through, a waiter is in the list,    *)
(* or has been signalled, once; after that no list refers to the           *)
(* semaphore, which is on its stack.                                       *)
NoLostSignal ==
  \A t \in Thread \ {idle} :
    LET listed == {c \in Conds : \E i \in DOMAIN cond[c] : cond[c][i] = t}
        upping == {u \in Thread : At("up", t) \in Steps(u)}
    IN  /\ \A c \in listed : IsInjective(cond[c])
        /\ Cardinality(listed) + Cardinality(upping) + value[t]
             = IF At("down", t) \in Steps(t)
               THEN IF Head(todo[t]).op = "enqueue" THEN 0 ELSE 1
               ELSE 0

(* allocate_tid never gives a tid to two threads: next_tid++ is not atomic,*)
(* but tid_lock is held around it.                                         *)
TidsUnique ==
  \A t, u \in Thread : tid[t] = tid[u] /\ tid[t] # 0 => t = u

(* When thread_schedule_tail frees the page of a thread that died, no list *)
(* and no lock refers to it any more.                                      *)
NothingDangling ==
  \A t \in Thread : status[t] \in {"none", "dying"} =>
    /\ t # current /\ t \notin Range(ready_list) \cup all_list
    /\ \A s \in SemaIds : t \notin Range(waiters[s])
    /\ \A c \in Conds : t \notin Range(cond[c])
    /\ \A l \in Locks : holder[l] # t

(* A thread never returns from timer_sleep before the ticks it asked for.  *)
SleepsLongEnough ==
  [][\A t \in Thread : At_sleep(t) /\ todo'[t] # todo[t] =>
       elapsed[t] >= Head(todo[t]).x]_vars

(* Round robin: a ready thread runs, whatever the others do.               *)
ReadyThreadRuns ==
  \A t \in Thread \ {idle} : status[t] = "ready" ~> status[t] = "running"

(* A sleeping thread wakes up.                                             *)
SleepEnds == \A t \in Thread : At_sleep(t) ~> ~At_sleep(t)

(* timer_sleep takes as long as it was asked to and then ends.             *)
SleepsAsAsked == SleepsLongEnough /\ SleepEnds

(* Threads are accounted for in every step of the scheduler: each is in    *)
(* exactly the list its status says, tids differ, and nothing refers to    *)
(* the page of a thread that has exited.                                   *)
ThreadsAccounted == TypeOK /\ ElemInOneList /\ TidsUnique /\ NothingDangling
=============================================================================
