------------------------------ MODULE Threads -------------------------------
(***************************************************************************)
(* The scheduler of Pintos, pintos/src/threads/thread.c, on its one CPU:   *)
(* the state of the threads, the ready list, and what happens when the     *)
(* running thread blocks, yields, exits, or unblocks another.  All of it   *)
(* runs with interrupts off, so each operation is one step.  A thread is   *)
(* named by the page that holds it; a page goes back to the allocator when *)
(* its thread has exited and may be given to another thread.  Priorities   *)
(* are stored by this scheduler but never read, so they are left out.      *)
(***************************************************************************)
EXTENDS Integers, Sequences, FiniteSets

CONSTANTS Thread,       \* pages
          main, idle,   \* the initial thread, and the one thread_start creates
          Null,
          TIME_SLICE    \* ticks to give each thread

ASSUME ThreadsAssumption ==
  /\ IsFiniteSet(Thread) /\ main \in Thread /\ idle \in Thread /\ main # idle
  /\ Null \notin Thread
  /\ TIME_SLICE \in Nat \ {0}

VARIABLES status,       \* "none" for a page that holds no thread
          ready_list,
          all_list,     \* as a set: nothing depends on its order
          current,      \* the running thread
          idle_thread,  \* Null until the idle thread has run
          thread_ticks  \* ticks since the last switch

sched == <<status, ready_list, current, thread_ticks>>
threadVars == <<sched, all_list, idle_thread>>

Statuses == {"none", "blocked", "ready", "running", "dying"}

-----------------------------------------------------------------------------
next_thread_to_run(ready) == IF ready = <<>> THEN idle_thread ELSE Head(ready)

(* schedule and thread_schedule_tail: the current thread, whose status in  *)
(* st is no longer "running", makes way for the next one, and its page is  *)
(* freed if it is dying (main's page was not allocated).                   *)
schedule(st, ready) ==
  LET next == next_thread_to_run(ready) IN
  /\ current' = next
  /\ ready_list' = IF ready = <<>> THEN ready ELSE Tail(ready)
  /\ status' = [t \in Thread |->
                  CASE t = next -> "running"
                    [] st[t] = "dying" /\ t # main -> "none"
                    [] OTHER -> st[t]]
  /\ thread_ticks' = 0

thread_block == schedule([status EXCEPT ![current] = "blocked"], ready_list)

\* The yielding thread goes to the front of the ready list.
thread_yield_Front ==
  schedule([status EXCEPT ![current] = "ready"],
           IF current = idle_thread THEN ready_list
           ELSE <<current>> \o ready_list)

\* The idle thread goes to the ready list like any other.
thread_yield_Idle ==
  schedule([status EXCEPT ![current] = "ready"], Append(ready_list, current))

thread_yield ==
  schedule([status EXCEPT ![current] = "ready"],
           IF current = idle_thread THEN ready_list
           ELSE Append(ready_list, current))

\* Does not preempt the running thread.
thread_unblock(t) ==
  /\ ready_list' = Append(ready_list, t)
  /\ status' = [status EXCEPT ![t] = "ready"]
  /\ UNCHANGED <<current, thread_ticks>>

\* The dead thread stays in the list of all threads.
thread_exit_Listed ==
  /\ schedule([status EXCEPT ![current] = "dying"], ready_list)
  /\ UNCHANGED all_list

thread_exit ==
  /\ all_list' = all_list \ {current}
  /\ schedule([status EXCEPT ![current] = "dying"], ready_list)

\* The page t, which the page allocator gave to thread_create, is a thread.
init_thread(t) ==
  /\ status[t] = "none"
  /\ status' = [status EXCEPT ![t] = "blocked"]
  /\ all_list' = all_list \cup {t}
  /\ UNCHANGED <<ready_list, current, thread_ticks>>

\* timer_interrupt, thread_tick and the yield at the end of intr_handler.
thread_tick ==
  IF thread_ticks + 1 >= TIME_SLICE
  THEN thread_yield
  ELSE thread_ticks' = thread_ticks + 1 /\ UNCHANGED <<status, ready_list, current>>
=============================================================================
