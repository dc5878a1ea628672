----------------------------- MODULE WorkQueue -----------------------------
(***************************************************************************)
(* The work queue of kvstore/src/server/wq.c: a list of jobs, a pthread    *)
(* mutex and a condition variable.  Any number of threads call wq_push and *)
(* any number call wq_pop.  Every access to shared state is a step of its  *)
(* own, so the mutex is what keeps wq_pop's read of the head and its       *)
(* DL_DELETE together.                                                     *)
(***************************************************************************)
EXTENDS Integers, Sequences, FiniteSets

CONSTANTS Pushers,  \* threads that call wq_push
          Poppers,  \* threads that call wq_pop in a loop
          Items,    \* jobs; each is pushed at most once
          None      \* "no thread" and "no job"

Threads == Pushers \cup Poppers

ASSUME WorkQueueAssumption ==
  /\ Pushers \cap Poppers = {}
  /\ None \notin Threads \cup Items

VARIABLES queue,    \* the items of the list at wq->head
          mutex,    \* owner of wq->lock
          pc,       \* where each thread is
          job,      \* the local of wq_pop, the argument of wq_push
          pushed,   \* history: items in the order wq_push appended them
          received  \* history: items in the order wq_pop removed them

vars == <<queue, mutex, pc, job, pushed, received>>

PusherPC == {"out", "append"}
PopperPC == {"out", "head", "wait", "wake", "take", "work"}

Init ==
  /\ queue = <<>>
  /\ mutex = None
  /\ pc = [t \in Threads |-> "out"]
  /\ job = [t \in Threads |-> None]
  /\ pushed = <<>>
  /\ received = <<>>

\* Threads blocked in pthread_cond_wait(&wq->cond, &wq->lock).
Waiters == {t \in Poppers : pc[t] = "wait"}

InSeq(i, s) == \E n \in 1..Len(s) : s[n] = i

-----------------------------------------------------------------------------
\* pthread_mutex_lock was forgotten.
Lock_Dropped(t) == mutex' = t

Lock(t) == mutex = None /\ mutex' = t

Unlock == mutex' = None

\* wq_push does not signal.
Signal_Never(t) == pc' = [pc EXCEPT ![t] = "out"]

\* pthread_cond_signal only when the queue was empty before the append.
Signal_WhenEmpty(t) ==
  \/ /\ Waiters = {} \/ queue # <<>>
     /\ pc' = [pc EXCEPT ![t] = "out"]
  \/ /\ queue = <<>>
     /\ \E w \in Waiters : pc' = [pc EXCEPT ![t] = "out", ![w] = "wake"]

\* pthread_cond_signal by the pushing thread t: wakes one waiter, if any.
Signal(t) ==
  \/ /\ Waiters = {}
     /\ pc' = [pc EXCEPT ![t] = "out"]
  \/ \E w \in Waiters : pc' = [pc EXCEPT ![t] = "out", ![w] = "wake"]

\* wq_push up to the point where the mutex is held.
PushLock(t, i) ==
  /\ pc[t] = "out"
  /\ ~InSeq(i, pushed) /\ \A u \in Pushers : job[u] # i
  /\ Lock(t)
  /\ pc' = [pc EXCEPT ![t] = "append"]
  /\ job' = [job EXCEPT ![t] = i]
  /\ UNCHANGED <<queue, pushed, received>>

\* DL_APPEND, pthread_cond_signal, pthread_mutex_unlock.
PushAppend(t) ==
  /\ pc[t] = "append"
  /\ queue' = Append(queue, job[t])
  /\ pushed' = Append(pushed, job[t])
  /\ job' = [job EXCEPT ![t] = None]
  /\ Signal(t)
  /\ Unlock
  /\ UNCHANGED received

-----------------------------------------------------------------------------
PopLock(t) ==
  /\ pc[t] = "out"
  /\ Lock(t)
  /\ pc' = [pc EXCEPT ![t] = "head"]
  /\ UNCHANGED <<queue, job, pushed, received>>

\* The loop finds wq->head == NULL: pthread_cond_wait releases the mutex.
PopWait(t) ==
  /\ pc[t] = "head"
  /\ queue = <<>>
  /\ Unlock
  /\ pc' = [pc EXCEPT ![t] = "wait"]
  /\ UNCHANGED <<queue, job, pushed, received>>

\* POSIX allows pthread_cond_wait to wake without a signal.
SpuriousWakeup(t) ==
  /\ pc[t] = "wait"
  /\ pc' = [pc EXCEPT ![t] = "wake"]
  /\ UNCHANGED <<queue, mutex, job, pushed, received>>

\* A woken thread takes the mutex again before pthread_cond_wait returns.
PopRelock(t) ==
  /\ pc[t] = "wake"
  /\ Lock(t)
  /\ pc' = [pc EXCEPT ![t] = "head"]
  /\ UNCHANGED <<queue, job, pushed, received>>

\* job = wq->head->item
PopTake(t) ==
  /\ pc[t] = "head"
  /\ queue # <<>>
  /\ job' = [job EXCEPT ![t] = Head(queue)]
  /\ pc' = [pc EXCEPT ![t] = "take"]
  /\ UNCHANGED <<queue, mutex, pushed, received>>

\* DL_DELETE(wq->head, wq->head), pthread_mutex_unlock, return job.  With
\* wq->head == NULL it would fault: there is no step.
PopDelete(t) ==
  /\ pc[t] = "take"
  /\ queue # <<>>
  /\ queue' = Tail(queue)
  /\ received' = Append(received, job[t])
  /\ pc' = [pc EXCEPT ![t] = "work"]
  /\ Unlock
  /\ UNCHANGED <<job, pushed>>

\* The caller of wq_pop has finished with the job and calls wq_pop again.
PopAgain(t) ==
  /\ pc[t] = "work"
  /\ pc' = [pc EXCEPT ![t] = "out"]
  /\ job' = [job EXCEPT ![t] = None]
  /\ UNCHANGED <<queue, mutex, pushed, received>>

-----------------------------------------------------------------------------
PopStep(t) ==
  \/ PopLock(t) \/ PopWait(t) \/ PopRelock(t)
  \/ PopTake(t) \/ PopDelete(t) \/ PopAgain(t)

Next ==
  \/ \E t \in Pushers : PushAppend(t) \/ \E i \in Items : PushLock(t, i)
  \/ \E t \in Poppers : PopStep(t) \/ SpuriousWakeup(t)

Spec == Init /\ [][Next]_vars

-----------------------------------------------------------------------------
TypeOK ==
  /\ queue \in Seq(Items)
  /\ mutex \in Threads \cup {None}
  /\ pc \in [Threads -> PusherPC \cup PopperPC]
  /\ \A t \in Pushers : pc[t] \in PusherPC
  /\ \A t \in Poppers : pc[t] \in PopperPC
  /\ job \in [Threads -> Items \cup {None}]
  /\ pushed \in Seq(Items)
  /\ received \in Seq(Items)

(* wq.h: "For each item added to the queue, exactly one thread should      *)
(* receive the item."  What wq_pop has handed out, followed by what is     *)
(* still queued, is what wq_push appended, in that order: no job is lost,  *)
(* handed out twice or overtaken.                                          *)
ExactlyOnceInOrder == pushed = received \o queue

(* No job is stranded by a signal that woke nobody or the wrong thread:    *)
(* while some thread sleeps in wq_pop, there are at least as many woken    *)
(* threads on their way to the head as there are queued jobs.              *)
NoStrandedItem ==
  Waiters # {} =>
    Cardinality({t \in Poppers : pc[t] \in {"wake", "head"}})
      >= Len(queue) - Cardinality({t \in Poppers : pc[t] = "take"})
=============================================================================
