---------------------------- MODULE SynchProofs -----------------------------
(***************************************************************************)
(* No wakeup and no signal is lost, a lock has one owner, every thread is  *)
(* where its status says, and no sleep is cut short: the invariant of      *)
(* SynchInvariant is kept by the remaining steps, those of the scheduler   *)
(* and the timer, and so by the system.                                    *)
(***************************************************************************)
EXTENDS SynchInvariant

(* Zenon is the prover of the leaves that name none.                       *)
USE ZenonT(60)


-----------------------------------------------------------------------------
(* The steps that switch to another thread.                                *)

(* The running thread, its new status X, makes way for another and will go *)
(* on with p.                                                              *)
LEMMA SwitchAway ==
  ASSUME ThreadSets, NEW td, NEW p, Inv(td), Moved(td, p), Code(current, p), ~off[current],
         NEW X \in {"blocked", "ready", "dying"}, NEW ready,
         ready = IF X = "ready" /\ current # idle_thread
                 THEN Append(ready_list, current) ELSE ready_list,
         schedule([status EXCEPT ![current] = X], ready),
         current = idle => (X = "blocked" => idle_thread = idle) /\ X # "dying",
         current # idle => X # "blocked",
         UNCHANGED <<idle_thread, off, value, waiters, holder>>,
         all_list' = IF X = "dying" THEN all_list \ {current} ELSE all_list,
         X = "dying" => p = <<>> /\ \A l \in Locks : holder[l] # current,
         current = idle => ~Doing(td[idle], "idle") \/ p = td[idle],
         \A t \in Thread : Makes(p, t) <=> Makes(td[current], t)
  PROVE  /\ SchedType' /\ CodeI(todo)' /\ ReadyI(todo)' /\ WaitI(todo)' /\ WakeI(todo)'
         /\ DeadI(todo)' /\ MakeI(todo)'
  <1>1. /\ TypeI /\ CodeI(td) /\ ReadyI(td) /\ WaitI(td) /\ WakeI(td) /\ DeadI(td) /\ MakeI(td)
    BY DEF Inv
  <1>2. SchedType /\ SchedOK /\ current \in Thread /\ status[current] = "running"
    BY <1>1 DEF TypeI, ReadyI, SchedType, SchedOK
  <1>3. status[current] # "blocked"
    BY <1>2
  <1>4. /\ idle_thread' = idle_thread /\ off' = off /\ value' = value /\ waiters' = waiters
        /\ holder' = holder
    OBVIOUS
  <1>5. current = idle /\ X = "blocked" => idle_thread = idle
    OBVIOUS
  <1>6. /\ SchedType' /\ SchedOK'
        /\ \A t \in Thread \ {idle} :
              status'[t] = "blocked"
                <=> IF t = current THEN X = "blocked" ELSE status[t] = "blocked"
        /\ \A t \in Thread :
              status'[t] \in {"none", "dying"} <=>
                IF t = current THEN X = "dying" ELSE status[t] \in {"none", "dying"}
    BY <1>2, <1>4, <1>5, Switched
  <1>7. CodeI(todo)'
    BY <1>1, <1>2, CodeKept
  <1>8. ReadyI(todo)'
    BY <1>1, <1>4, <1>6, ReadyKept
  <1>9. /\ current # idle => status'[current] # "blocked"
        /\ \A t \in Thread \ {idle, current} : status'[t] = "blocked" <=> status[t] = "blocked"
    BY <1>2, <1>6
  <1>10. \A s \in SemaIds : waiters'[s] = waiters[s]
           /\ (value'[s] = value[s] \/ waiters'[s] = <<>>
                \/ (value'[s] \in Nat /\ value'[s] <= value[s]))
    BY <1>4
  <1>11. WaitI(todo)' /\ WakeI(todo)'
    BY <1>1, <1>2, <1>4, <1>7, <1>9, <1>10, WaitKept
  <1>12. \A t \in Thread : t # current => todo'[t] = td[t]
    BY DEF Moved
  <1>13. todo'[current] = p
    BY DEF Moved
  <1>14. DeadI(todo)'
    <2> SUFFICES ASSUME NEW t \in Thread, status'[t] \in {"none", "dying"}
                 PROVE  todo'[t] = <<>> /\ t \notin all_list' /\ \A l \in Locks : holder'[l] # t
      BY DEF DeadI
    <2>1. CASE t = current
      BY <1>4, <1>6, <1>13, <2>1
    <2>2. CASE t # current
      <3>1. status[t] \in {"none", "dying"}
        BY <1>6, <2>2
      <3>2. td[t] = <<>> /\ t \notin all_list /\ \A l \in Locks : holder[l] # t
        BY <1>1, <3>1 DEF DeadI
      <3>3. t \notin all_list'
        BY <3>2
      <3> QED BY <1>4, <1>12, <2>2, <3>2, <3>3
    <2> QED BY <2>1, <2>2
  <1>15. MakeI(todo)'
    <2>1. idle \in Thread
      BY ThreadsAssumption
    <2>2. td[idle] # <<>> /\ todo'[idle] # <<>>
      <3>1. Code(idle, td[idle]) /\ Code(idle, todo'[idle])
        BY <1>1, <1>7, <2>1 DEF CodeI
      <3> QED BY <3>1, IdleSteps
    <2>3. \A t \in Thread : (status'[t] = "blocked" /\ todo'[t] = <<>>) <=>
                            (status[t] = "blocked" /\ td[t] = <<>>)
      BY <1>3, <1>9, <1>12, <2>2
    <2> QED BY <1>1, <1>2, <2>3, MakeKept
  <1> QED BY <1>6, <1>7, <1>8, <1>11, <1>14, <1>15

(* A step of the running thread to another thread's turn; nothing but the  *)
(* scheduler changes, and the ticks a thread sleeps.                       *)
LEMMA YieldStep ==
  ASSUME ThreadSets, NEW td, NEW op, NEW x, Here(td, op, x), NEW p, Code(current, p),
         todo' = [todo EXCEPT ![current] = p],
         thread_yield, UNCHANGED <<all_list, idle_thread, off, semaVars, holder, cond,
           tidVars>>,
         elapsed' \in [Thread -> 0..MaxSleep], op \in {"yield", "sleep"},
         p \in {<<>>, td[current]}
  PROVE  Inv(todo)'
  <1> DEFINE q == td[current]
  <1>1. /\ current \in Thread /\ Follows(current, op, x, Tail(q))
        /\ \A o : Doing(q, o) <=> o = op
        /\ At(op, x) \in Range(q) /\ Range(Tail(q)) = Range(q) \ {At(op, x)}
        /\ ~off[current]
    <2>1. op # "down"
      OBVIOUS
    <2> QED BY <2>1, HereFacts
  <1>2. Tail(q) = <<>> /\ current # idle
    BY <1>1 DEF Follows
  <1>3. Range(q) = {At(op, x)}
    BY <1>1, <1>2, EmptyRange
  <1>4. \A t : /\ At("unblock", t) \notin Range(q) /\ At("up", t) \notin Range(q)
               /\ At("down", t) \notin Range(q)
    BY <1>3 DEF At
  <1>5. \A t : /\ Makes(p, t) <=> Makes(q, t)
               /\ Upping(p, t) <=> Upping(q, t)
               /\ Waits(p, t) <=> Waits(q, t)
    BY <1>4, EmptyRange DEF Makes, Upping, Waits
  <1>6. /\ all_list' = all_list /\ idle_thread' = idle_thread /\ off' = off /\ value' = value
        /\ waiters' = waiters /\ holder' = holder /\ cond' = cond /\ tid' = tid
             /\ next_tid' = next_tid
    BY DEF semaVars, tidVars
  <1>7. Inv(td) /\ TypeI /\ LockI(td) /\ TidI(td) /\ SignalI(td)
    BY DEF Here, Inv
  <1>8. Moved(td, p)
    BY ThenMoved
  <1>9. /\ SchedType' /\ CodeI(todo)' /\ ReadyI(todo)' /\ WaitI(todo)' /\ WakeI(todo)'
        /\ DeadI(todo)' /\ MakeI(todo)'
    <2> DEFINE ready == IF current = idle_thread THEN ready_list ELSE Append(ready_list,
          current)
    <2>1. schedule([status EXCEPT ![current] = "ready"], ready)
      BY DEF thread_yield
    <2>2. /\ "ready" \in {"blocked", "ready", "dying"} /\ "ready" # "dying"
               /\ "ready" # "blocked"
      OBVIOUS
    <2>3. ready = IF "ready" = "ready" /\ current # idle_thread
                  THEN Append(ready_list, current) ELSE ready_list
      OBVIOUS
    <2>4. all_list' = IF "ready" = "dying" THEN all_list \ {current} ELSE all_list
      BY <1>6, <2>2
    <2>5. UNCHANGED <<idle_thread, off, value, waiters, holder>>
      BY <1>6
    <2> HIDE DEF ready
    <2> QED BY <1>1, <1>2, <1>5, <1>7, <1>8, <2>1, <2>2, <2>3, <2>4, <2>5, SwitchAway
  <1>10. /\ ~Doing(q, "store") /\ ~Doing(p, "store") /\ ~Doing(p, "exit") /\ NotLock(q)
              /\ NotLock(p)
    <2>1. ~Doing(q, "store") /\ ~Doing(q, "exit") /\ NotLock(q)
      <3>1. Head(q).op = op
        BY <1>1 DEF Doing
      <3> QED BY <3>1 DEF Doing, NotLock
    <2> QED BY <2>1 DEF NotLock, Doing
  <1>11. LockI(todo)'
    BY <1>1, <1>6, <1>7, <1>8, <1>10, LockKept
  <1>12. SignalI(todo)'
    BY <1>1, <1>5, <1>6, <1>7, <1>8, SignalKept
  <1>13. TidI(todo)'
    BY <1>1, <1>6, <1>7, <1>8, <1>10, TidKept
  <1>14. TypeI'
    BY <1>6, <1>7, <1>9 DEF TypeI
  <1> QED BY <1>9, <1>11, <1>12, <1>13, <1>14 DEF Inv

\* thread_exit
LEMMA ExitStep ==
  ASSUME ThreadSets, NEW td, NEW x, Here(td, "exit", x), exit
  PROVE  Inv(todo)'
  <1> DEFINE q == td[current]
  <1>1. /\ current \in Thread /\ Follows(current, "exit", x, Tail(q))
        /\ \A o : Doing(q, o) <=> o = "exit"
        /\ At("exit", x) \in Range(q) /\ Range(Tail(q)) = Range(q) \ {At("exit", x)}
        /\ ~off[current] /\ status[current] = "running"
    <2>1. "exit" # "down"
      OBVIOUS
    <2> QED BY <2>1, HereFacts
  <1>2. Tail(q) = <<>> /\ current # idle
    BY <1>1 DEF Follows
  <1>3. Range(q) = {At("exit", x)}
    BY <1>1, <1>2, EmptyRange
  <1>4. \A t : /\ At("unblock", t) \notin Range(q) /\ At("up", t) \notin Range(q)
               /\ At("down", t) \notin Range(q)
    BY <1>3 DEF At
  <1>5. \A t : /\ Makes(<<>>, t) <=> Makes(q, t)
               /\ Upping(<<>>, t) <=> Upping(q, t)
               /\ Waits(<<>>, t) <=> Waits(q, t)
    BY <1>4, EmptyRange DEF Makes, Upping, Waits
  <1>6. /\ all_list' = all_list \ {current} /\ idle_thread' = idle_thread /\ off' = off
             /\ value' = value
        /\ waiters' = waiters /\ holder' = holder /\ cond' = cond /\ next_tid' = next_tid
        /\ elapsed' = elapsed /\ tid' = [tid EXCEPT ![current] = 0]
        /\ todo' = [todo EXCEPT ![current] = <<>>]
        /\ schedule([status EXCEPT ![current] = "dying"], ready_list)
    BY DEF exit, thread_exit, Then, semaVars
  <1>7. Inv(td) /\ TypeI /\ CodeI(td) /\ MakeI(td) /\ LockI(td) /\ TidI(td) /\ SignalI(td)
    BY DEF Here, Inv
  <1>8. Moved(td, <<>>)
    BY <1>6, ThenMoved
  <1>9. Code(current, <<>>)
    BY <1>2 DEF Code
  <1>10. \A l \in Locks : holder[l] # current
    BY <1>1, <1>7 DEF LockI
  <1>11. /\ SchedType' /\ CodeI(todo)' /\ ReadyI(todo)' /\ WaitI(todo)' /\ WakeI(todo)'
         /\ DeadI(todo)' /\ MakeI(todo)'
    <2>1. /\ "dying" \in {"blocked", "ready", "dying"} /\ "dying" # "blocked"
               /\ "dying" # "ready"
      OBVIOUS
    <2>2. ready_list = IF "dying" = "ready" /\ current # idle_thread
                       THEN Append(ready_list, current) ELSE ready_list
      BY <2>1
    <2>3. all_list' = IF "dying" = "dying" THEN all_list \ {current} ELSE all_list
      BY <1>6
    <2>4. UNCHANGED <<idle_thread, off, value, waiters, holder>>
      BY <1>6
    <2> QED BY <1>1, <1>2, <1>5, <1>6, <1>7, <1>8, <1>9, <1>10, <2>1, <2>2, <2>3, <2>4,
               SwitchAway
  <1>12. /\ ~Doing(<<>>, "exit") /\ NotLock(q) /\ NotLock(<<>>)
    <2>1. NotLock(q)
      <3>1. Head(q).op = "exit"
        BY <1>1 DEF Doing
      <3> QED BY <3>1 DEF NotLock
    <2> QED BY <2>1 DEF NotLock, Doing
  <1>13. LockI(todo)'
    BY <1>1, <1>6, <1>7, <1>8, <1>12, LockKept
  <1>14. SignalI(todo)'
    BY <1>1, <1>5, <1>6, <1>7, <1>8, SignalKept
  <1>15. TidI(todo)'
    <2>1. \A t \in Thread : tid'[t] = IF t = current THEN 0 ELSE tid[t]
      BY <1>6, <1>7 DEF TypeI
    <2>2. ~Doing(q, "store") /\ ~Doing(<<>>, "store")
      BY <1>1, HeadOps
    <2>3. \A t, u \in Thread : Does(todo'[u], At("store", t)) <=> Does(td[u], At("store", t))
      BY <1>8, <2>2, HeadOps DEF Moved
    <2>4. ASSUME NEW t \in Thread, NEW u \in Thread, Does(td[u], At("store", t))
                 PROVE t # current
      <3>1. td[u] # <<>> /\ Head(td[u]) = At("store", t)
        BY <2>4 DEF Does
      <3>2. /\ Follows(u, "store", t, Tail(td[u])) /\ Range(Tail(td[u])) \subseteq Range(td[u])
        BY <1>7, <3>1, CodeFollows DEF CodeI
      <3>3. At("unblock", t) \in Range(Tail(td[u])) /\ ~Doing(td[u], "init")
        BY <3>1, <3>2, SMT DEF Follows, At, Doing
      <3>4. Makes(td[u], t)
        BY <3>2, <3>3 DEF Makes
      <3>5. status[t] = "blocked"
        BY <1>7, <3>4 DEF MakeI
      <3> QED BY <1>1, <3>5
    <2>5. next_tid > 0 /\ next_tid \in Nat
      BY <1>7 DEF TidI, TypeI
    <2>6. 0 < next_tid
      BY <2>5
    <2>7. TidsUnique'
      BY <1>7, <2>1 DEF TidsUnique, TidI
    <2>8. ASSUME NEW t \in Thread
          PROVE  \/ tid'[t] < next_tid'
                 \/ tid'[t] = next_tid' /\ \E u \in Thread : Does(todo'[u], At("store", t))
      <3>1. CASE t = current
        BY <1>6, <2>1, <2>6, <3>1
      <3>2. CASE t # current
        <4>1. tid'[t] = tid[t] /\ next_tid' = next_tid
          BY <1>6, <2>1, <3>2
        <4>2. \/ tid[t] < next_tid
              \/ tid[t] = next_tid /\ \E u \in Thread : Does(td[u], At("store", t))
          BY <1>7 DEF TidI
        <4> QED BY <2>3, <4>1, <4>2
      <3> QED BY <3>1, <3>2
    <2>9. \A t, u \in Thread : Does(todo'[u], At("store", t)) => tid'[t] = next_tid'
      BY <1>6, <1>7, <2>1, <2>3, <2>4 DEF TidI
    <2> QED BY <1>6, <2>5, <2>7, <2>8, <2>9 DEF TidI
  <1>16. tid' \in [Thread -> Nat] /\ all_list' \subseteq Thread
    <2>1. 0 \in Nat
      OBVIOUS
    <2> QED BY <1>6, <1>7, <2>1 DEF TypeI
  <1>17. TypeI'
    BY <1>6, <1>7, <1>11, <1>16 DEF TypeI
  <1> QED BY <1>11, <1>13, <1>14, <1>15, <1>17 DEF Inv

-----------------------------------------------------------------------------
(* thread_create and thread_unblock.                                       *)

\* thread_create: init_thread
LEMMA InitStep ==
  ASSUME ThreadSets, NEW td, NEW x, Here(td, "init", x), create(x, Tail(td[current]))
  PROVE  Inv(todo)'
  <1> DEFINE q == td[current]
             r == Tail(q)
  <1>1. /\ status[x] = "none" /\ status' = [status EXCEPT ![x] = "blocked"]
        /\ all_list' = all_list \cup {x} /\ ready_list' = ready_list /\ current' = current
        /\ thread_ticks' = thread_ticks /\ todo' = [todo EXCEPT ![current] = r]
        /\ idle_thread' = idle_thread /\ off' = off /\ value' = value /\ waiters' = waiters
        /\ holder' = holder /\ cond' = cond /\ tid' = tid /\ next_tid' = next_tid
             /\ elapsed' = elapsed
    BY DEF create, init_thread, Then, semaVars, tidVars
  <1>2. /\ current \in Thread /\ status[current] = "running" /\ Follows(current, "init", x, r)
        /\ \A o : Doing(q, o) <=> o = "init"
        /\ Code(current, r) /\ ~off[current]
    <2>1. "init" # "block" /\ "init" # "down"
      OBVIOUS
    <2> QED BY <2>1, HereFacts
  <1>3. /\ x \in Thread /\ Does(r, At("down", tid_lock)) /\ current # idle
        /\ \A t : At("unblock", t) \in Range(r) <=> t = x
    BY <1>2 DEF Follows
  <1>4. /\ TypeI /\ CodeI(td) /\ ReadyI(td) /\ WaitI(td) /\ WakeI(td) /\ DeadI(td) /\ MakeI(td)
        /\ LockI(td) /\ TidI(td) /\ SignalI(td) /\ SchedOK
    BY DEF Here, Inv, ReadyI
  <1>5. Moved(td, r) /\ todo'[current] = r /\ \A t \in Thread \ {current} : todo'[t] = td[t]
    <2>1. Moved(td, r)
      BY <1>1, ThenMoved
    <2> QED BY <2>1 DEF Moved
  <1>6. /\ \A t : Upping(r, t) <=> Upping(q, t)
        /\ Waits(r, current) <=> Waits(q, current)
    <2>1. Leaves("init", x, q, r)
      BY RestFacts
    <2>2. "init" # "down" /\ "init" # "enqueue" /\ "init" # "up"
      OBVIOUS
    <2> QED BY <2>1, <2>2 DEF Leaves
  <1> HIDE DEF r
  <1>7. /\ Doing(r, "down") /\ ~Doing(r, "init") /\ ~Doing(r, "store") /\ ~Doing(r, "exit")
        /\ NotLock(r) /\ NotLock(q) /\ ~Doing(q, "store")
    <2>1. Head(q).op = "init"
      BY <1>2 DEF Doing
    <2> QED BY <1>3, <2>1, SMT DEF Doing, Does, At, NotLock
  <1>8. \A t : ~Makes(q, t) /\ (Makes(r, t) <=> t = x)
    BY <1>2, <1>3, <1>7 DEF Makes
  <1>9. \A t \in Thread : status'[t] = IF t = x THEN "blocked" ELSE status[t]
    BY <1>1, <1>4 DEF TypeI, SchedType
  <1>10. x # current /\ x # idle /\ status[current] # "blocked" /\ status[x] # "blocked"
    BY <1>1, <1>2, <1>4 DEF SchedOK
  <1>11. td[x] = <<>> /\ todo'[x] = <<>>
    <2>1. td[x] = <<>>
      BY <1>1, <1>3, <1>4 DEF DeadI
    <2> QED BY <1>3, <1>5, <1>10, <2>1
  <1>12. CodeI(todo)'
    BY <1>2, <1>4, <1>5, CodeKept
  <1>13. SchedOK'
    BY <1>1, <1>4, <1>9, <1>10, SMT DEF SchedOK
  <1>14. ReadyI(todo)'
    BY <1>1, <1>3, <1>4, <1>5, <1>13, ReadyKept
  <1>15. /\ status'[current] # "blocked"
         /\ \A t \in Thread \ {idle, current} : td[t] # <<>> =>
              (status'[t] = "blocked" <=> status[t] = "blocked")
    BY <1>2, <1>9, <1>10, <1>11
  <1>16. WaitI(todo)' /\ WakeI(todo)'
    <2>1. \A s \in SemaIds : waiters'[s] = waiters[s]
            /\ (value'[s] = value[s] \/ waiters'[s] = <<>>
                 \/ (value'[s] \in Nat /\ value'[s] <= value[s]))
      BY <1>1
    <2> QED BY <1>1, <1>2, <1>4, <1>5, <1>12, <1>15, <2>1, WaitKept
  <1>17. DeadI(todo)'
    <2> SUFFICES ASSUME NEW t \in Thread, status'[t] \in {"none", "dying"}
                 PROVE  todo'[t] = <<>> /\ t \notin all_list' /\ \A l \in Locks : holder'[l] # t
      BY DEF DeadI
    <2>1. t # x /\ status[t] \in {"none", "dying"} /\ t # current
      BY <1>2, <1>9
    <2> QED BY <1>1, <1>4, <1>5, <2>1 DEF DeadI
  <1>18. MakeI(todo)'
    <2>1. \A u \in Thread : ~Makes(td[u], x)
      BY <1>3, <1>4, <1>10 DEF MakeI
    <2>2. \A t, u \in Thread : Makes(todo'[u], t) <=> (t = x /\ u = current) \/ Makes(td[u], t)
      BY <1>2, <1>5, <1>8
    <2>3. \A t, u \in Thread : Makes(todo'[u], t) => status'[t] = "blocked" /\ todo'[t] = <<>>
      <3>1. \A t, u \in Thread : Makes(td[u], t) => status[t] = "blocked" /\ td[t] = <<>>
        BY <1>4 DEF MakeI
      <3> QED BY <1>5, <1>9, <1>10, <1>11, <2>2, <3>1
    <2>4. \A t, u, v \in Thread : Makes(todo'[u], t) /\ Makes(todo'[v], t) => u = v
      <3>1. \A t, u, v \in Thread : Makes(td[u], t) /\ Makes(td[v], t) => u = v
        BY <1>4 DEF MakeI
      <3> SUFFICES ASSUME NEW t \in Thread, NEW u \in Thread, NEW v \in Thread,
                          Makes(todo'[u], t), Makes(todo'[v], t)
                   PROVE  u = v
        OBVIOUS
      <3>2. CASE t = x
        <4>1. u = current /\ v = current
          BY <2>1, <2>2, <3>2
        <4> QED BY <4>1
      <3>3. CASE t # x
        <4>1. Makes(td[u], t) /\ Makes(td[v], t)
          BY <2>2, <3>3
        <4> QED BY <3>1, <4>1
      <3> QED BY <3>2, <3>3
    <2>5. \A t \in Thread : status'[t] = "blocked" /\ todo'[t] = <<>> =>
            \E u \in Thread : Makes(todo'[u], t)
      <3> SUFFICES ASSUME NEW t \in Thread, status'[t] = "blocked", todo'[t] = <<>>
                   PROVE  \E u \in Thread : Makes(todo'[u], t)
        OBVIOUS
      <3>1. CASE t = x
        BY <1>2, <2>2, <3>1
      <3>2. CASE t # x
        <4>1. status[t] = "blocked" /\ td[t] = <<>>
          BY <1>5, <1>9, <1>10, <3>2
        <4>2. \E u \in Thread : Makes(td[u], t)
          BY <1>4, <4>1 DEF MakeI
        <4> QED BY <2>2, <4>2
      <3> QED BY <3>1, <3>2
    <2> QED BY <2>3, <2>4, <2>5 DEF MakeI
  <1>19. LockI(todo)'
    BY <1>1, <1>2, <1>4, <1>5, <1>7, LockKept
  <1>20. SignalI(todo)'
    BY <1>1, <1>2, <1>4, <1>5, <1>6, SignalKept
  <1>21. TidI(todo)'
    BY <1>1, <1>2, <1>4, <1>5, <1>7, TidKept
  <1>22. TypeI'
    <2>1. "blocked" \in Statuses
      BY DEF Statuses
    <2>2. status' \in [Thread -> Statuses] /\ all_list' \subseteq Thread
      BY <1>1, <1>3, <1>4, <2>1 DEF TypeI, SchedType
    <2> QED BY <1>1, <1>4, <2>2 DEF TypeI, SchedType
  <1> QED BY <1>12, <1>14, <1>16, <1>17, <1>18, <1>19, <1>20, <1>21, <1>22 DEF Inv

\* thread_create: thread_unblock
LEMMA UnblockStep ==
  ASSUME ThreadSets, NEW td, NEW x, Here(td, "unblock", x), unblock(x, Tail(td[current]))
  PROVE  Inv(todo)'
  <1> DEFINE q == td[current]
  <1>1. /\ current \in Thread /\ status[current] = "running"
        /\ Follows(current, "unblock", x, Tail(q))
        /\ \A o : Doing(q, o) <=> o = "unblock"
        /\ At("unblock", x) \in Range(q) /\ Range(Tail(q)) = Range(q) \ {At("unblock", x)}
        /\ ~off[current]
    <2>1. "unblock" # "down"
      OBVIOUS
    <2> QED BY <2>1, HereFacts
  <1>2. Tail(q) = <<>> /\ x \in Thread /\ current # idle
    BY <1>1 DEF Follows
  <1>3. /\ thread_unblock(x) /\ todo' = [todo EXCEPT ![current] = <<>>]
        /\ all_list' = all_list
        /\ idle_thread' = idle_thread /\ off' = off /\ value' = value /\ waiters' = waiters
        /\ holder' = holder /\ cond' = cond /\ tid' = tid /\ next_tid' = next_tid
             /\ elapsed' = elapsed
    BY <1>2 DEF unblock, Then, semaVars, tidVars
  <1>4. /\ TypeI /\ CodeI(td) /\ ReadyI(td) /\ WaitI(td) /\ WakeI(td) /\ DeadI(td) /\ MakeI(td)
        /\ LockI(td) /\ TidI(td) /\ SignalI(td) /\ SchedOK /\ SchedType
    BY DEF Here, Inv, ReadyI, TypeI
  <1>5. Range(q) = {At("unblock", x)}
    BY <1>1, <1>2, EmptyRange
  <1>6. \A t : /\ At("unblock", t) \in Range(q) <=> t = x
               /\ At("up", t) \notin Range(q) /\ At("down", t) \notin Range(q)
    BY <1>5 DEF At
  <1>7. /\ ~Doing(q, "init") /\ ~Doing(q, "store") /\ NotLock(q)
        /\ ~Doing(<<>>, "store") /\ ~Doing(<<>>, "exit") /\ NotLock(<<>>)
    <2>1. Head(q).op = "unblock"
      BY <1>1 DEF Doing
    <2> QED BY <2>1 DEF Doing, NotLock
  <1>8. \A t : /\ ~Makes(<<>>, t) /\ (Makes(q, t) <=> t = x)
               /\ Upping(<<>>, t) <=> Upping(q, t)
               /\ Waits(<<>>, t) <=> Waits(q, t)
    BY <1>6, <1>7, EmptyRange DEF Makes, Upping, Waits
  <1>9. Moved(td, <<>>) /\ todo'[current] = <<>>
          /\ \A t \in Thread \ {current} : todo'[t] = td[t]
    <2>1. Moved(td, <<>>)
      BY <1>3, ThenMoved
    <2> QED BY <2>1 DEF Moved
  <1>10. status[x] = "blocked" /\ td[x] = <<>>
    BY <1>1, <1>2, <1>4, <1>8 DEF MakeI
  <1>11. x # current /\ x # idle /\ status[current] # "blocked"
           /\ status[current] \notin {"none", "dying"}
    <2>1. idle \in Thread
      BY ThreadsAssumption
    <2>2. td[idle] # <<>>
      BY <1>4, <2>1, IdleSteps DEF CodeI
    <2> QED BY <1>1, <1>10, <2>2
  <1>12. /\ SchedType' /\ SchedOK'
         /\ \A t \in Thread : status'[t] = IF t = x THEN "ready" ELSE status[t]
    BY <1>2, <1>3, <1>4, <1>10, <1>11, Unblocked
  <1>13. /\ \A t \in Thread : status'[t] = "blocked" <=> status[t] = "blocked" /\ t # x
         /\ \A t \in Thread : status'[t] \in {"none", "dying"}
              => status[t] \in {"none", "dying"}
    BY <1>12
  <1>14. Code(current, <<>>)
    BY <1>2 DEF Code
  <1>15. CodeI(todo)'
    BY <1>1, <1>4, <1>9, <1>14, CodeKept
  <1>16. ReadyI(todo)'
    BY <1>2, <1>3, <1>4, <1>9, <1>12, ReadyKept
  <1>17. WaitI(todo)' /\ WakeI(todo)'
    <2>1. \A s \in SemaIds : waiters'[s] = waiters[s]
            /\ (value'[s] = value[s] \/ waiters'[s] = <<>>
                 \/ (value'[s] \in Nat /\ value'[s] <= value[s]))
      BY <1>3
    <2>2. /\ status'[current] # "blocked"
          /\ \A t \in Thread \ {idle, current} : td[t] # <<>> =>
               (status'[t] = "blocked" <=> status[t] = "blocked")
      BY <1>1, <1>10, <1>11, <1>13
    <2> QED BY <1>1, <1>3, <1>4, <1>9, <1>15, <2>1, <2>2, WaitKept
  <1>18. DeadI(todo)'
    <2>1. \A t \in Thread : status'[t] \in {"none", "dying"} => status[t] \in {"none", "dying"}
            /\ t # current
      BY <1>11, <1>13
    <2>2. \A l \in Locks : holder'[l] \in {holder[l], current, Null}
      BY <1>3
    <2> QED BY <1>1, <1>3, <1>4, <1>9, <2>1, <2>2, DeadKept
  <1>19. MakeI(todo)'
    <2>1. \A u \in Thread : Makes(td[u], x) <=> u = current
      BY <1>1, <1>2, <1>4, <1>8 DEF MakeI
    <2>2. \A t, u \in Thread : Makes(todo'[u], t) <=> Makes(td[u], t) /\ t # x
      BY <1>1, <1>2, <1>8, <1>9, <2>1
    <2>3. \A t \in Thread : t # current => todo'[t] = td[t]
      BY <1>9
    <2>4. \A t, u \in Thread : Makes(todo'[u], t) => status'[t] = "blocked" /\ todo'[t] = <<>>
      <3>1. \A t, u \in Thread : Makes(td[u], t) => status[t] = "blocked" /\ td[t] = <<>>
        BY <1>4 DEF MakeI
      <3> QED BY <1>9, <1>13, <2>2, <2>3, <3>1
    <2>5. \A t, u, v \in Thread : Makes(todo'[u], t) /\ Makes(todo'[v], t) => u = v
      BY <1>4, <2>2 DEF MakeI
    <2>6. \A t \in Thread : status'[t] = "blocked" /\ todo'[t] = <<>> =>
            \E u \in Thread : Makes(todo'[u], t)
      <3> SUFFICES ASSUME NEW t \in Thread, status'[t] = "blocked", todo'[t] = <<>>
                   PROVE  \E u \in Thread : Makes(todo'[u], t)
        OBVIOUS
      <3>1. status[t] = "blocked" /\ t # x /\ td[t] = <<>>
        BY <1>11, <1>13, <2>3
      <3>2. \E u \in Thread : Makes(td[u], t)
        BY <1>4, <3>1 DEF MakeI
      <3> QED BY <2>2, <3>1, <3>2
    <2> QED BY <2>4, <2>5, <2>6 DEF MakeI
  <1>20. LockI(todo)'
    BY <1>1, <1>3, <1>4, <1>7, <1>9, LockKept
  <1>21. SignalI(todo)'
    BY <1>1, <1>3, <1>4, <1>8, <1>9, SignalKept
  <1>22. TidI(todo)'
    BY <1>1, <1>3, <1>4, <1>7, <1>9, TidKept
  <1>23. TypeI'
    BY <1>3, <1>4, <1>12 DEF TypeI
  <1> QED BY <1>15, <1>16, <1>17, <1>18, <1>19, <1>20, <1>21, <1>22, <1>23 DEF Inv

-----------------------------------------------------------------------------
(* timer_sleep, the idle thread and the timer.                             *)

\* thread_yield and timer_sleep
LEMMA SleepStep ==
  ASSUME ThreadSets, NEW td, NEW op \in {"yield", "sleep"}, NEW x, Here(td, op, x),
         \/ op = "yield" /\ yield(Tail(td[current]))
         \/ op = "sleep" /\ timer_sleep(x, Tail(td[current]))
  PROVE  Inv(todo)'
  <1> DEFINE q == td[current]
             r == Tail(q)
  <1>1. /\ current \in Thread /\ status[current] = "running" /\ Follows(current, op, x, r)
        /\ \A o : Doing(q, o) <=> o = op
        /\ Code(current, r) /\ Code(current, q) /\ <<At(op, x)>> \o r = q
    <2>1. op # "block"
      OBVIOUS
    <2> QED BY <2>1, HereFacts
  <1>2. r = <<>> /\ current # idle
    BY <1>1 DEF Follows
  <1>3. TypeI /\ LockI(td) /\ TidI(td)
    BY DEF Here, Inv
  <1>4. ASSUME NEW p \in {r, q}, yield(p) PROVE Inv(todo)'
    <2>1. /\ thread_yield /\ UNCHANGED <<all_list, idle_thread, off, semaVars, holder, cond,
               tidVars>>
          /\ elapsed' = elapsed /\ todo' = [todo EXCEPT ![current] = p]
      BY <1>4 DEF yield, Then
    <2>2. elapsed' \in [Thread -> 0..MaxSleep]
      BY <1>3, <2>1 DEF TypeI
    <2>3. p \in {<<>>, td[current]} /\ Code(current, p)
      BY <1>1, <1>2
    <2> QED BY <2>1, <2>2, <2>3, YieldStep
  <1>5. ASSUME op = "sleep", elapsed[current] >= x, elapsed' = [elapsed EXCEPT ![current] = 0],
               Then(r),
               UNCHANGED <<threadVars, off, semaVars, holder, cond, tidVars>>
        PROVE  Inv(todo)'
    <2>1. /\ value' = value /\ holder' = holder /\ UNCHANGED <<threadVars, off, waiters, cond>>
          /\ tid' = tid /\ next_tid' = next_tid
      BY <1>5 DEF semaVars, tidVars
    <2>2. /\ op # "down" /\ op # "init" /\ op # "unblock" /\ op # "idle" /\ op # "up"
               /\ op # "enqueue"
          /\ op # "block"
      OBVIOUS
    <2>3. /\ \A s \in SemaIds : value'[s] \in Nat /\ value'[s] <= value[s]
      BY <1>3, <2>1, SMT DEF TypeI
    <2>4. /\ \A l \in Locks : holder'[l] \in {holder[l], current, Null}
          /\ \A t \in Thread : value'[t] = value[t]
      BY <2>1
    <2>5. /\ CodeI(todo)' /\ ReadyI(todo)' /\ WaitI(todo)' /\ WakeI(todo)' /\ DeadI(todo)'
          /\ MakeI(todo)' /\ SignalI(todo)' /\ Moved(td, r)
      BY <1>5, <2>1, <2>2, <2>3, <2>4, QuietRest
    <2>6. /\ ~Doing(q, "store") /\ ~Doing(r, "store") /\ ~Doing(r, "exit") /\ NotLock(q)
               /\ NotLock(r)
      <3>1. ~Doing(q, "store") /\ ~Doing(q, "exit") /\ NotLock(q)
        <4>1. Head(q).op = op
          BY <1>1 DEF Doing
        <4> QED BY <4>1 DEF Doing, NotLock
      <3> HIDE DEF q
      <3> QED BY <1>2, <3>1 DEF NotLock, Doing
    <2>7. LockI(todo)'
      BY <1>1, <1>3, <2>1, <2>4, <2>5, <2>6, LockKept
    <2>8. TidI(todo)'
      BY <1>1, <1>3, <2>1, <2>5, <2>6, TidKept
    <2>9. elapsed' \in [Thread -> 0..MaxSleep]
      <3>1. 0 \in 0..MaxSleep
        BY SynchAssumption, SMT
      <3>2. elapsed \in [Thread -> 0..MaxSleep]
        BY <1>3 DEF TypeI
      <3> QED BY <1>1, <1>5, <3>1, <3>2
    <2>10. TypeI'
      BY <1>3, <2>1, <2>9 DEF TypeI, SchedType, threadVars, sched
    <2> QED BY <2>5, <2>7, <2>8, <2>10 DEF Inv
  <1>6. CASE op = "yield" /\ yield(r)
    BY <1>4, <1>6
  <1>7. CASE op = "sleep" /\ timer_sleep(x, r)
    <2>1. <<At("sleep", x)>> \o r = q
      BY <1>1, <1>7
    <2>2. CASE elapsed[current] >= x
      BY <1>5, <1>7, <2>2 DEF timer_sleep
    <2>3. CASE ~(elapsed[current] >= x)
      <3>1. yield(q)
        BY <1>7, <2>1, <2>3 DEF timer_sleep
      <3> QED BY <1>4, <3>1
    <2> QED BY <2>2, <2>3
  <1> QED BY <1>6, <1>7

\* idle: the idle thread is known from here on.
LEMMA IdleStep ==
  ASSUME ThreadSets, NEW td, NEW x, Here(td, "idle", x), idle_init(Tail(td[current]))
  PROVE  Inv(todo)'
  <1> DEFINE q == td[current]
             r == Tail(q)
  <1>1. /\ idle_thread' = current /\ todo' = [todo EXCEPT ![current] = r]
        /\ status' = status /\ ready_list' = ready_list /\ current' = current
             /\ thread_ticks' = thread_ticks
        /\ all_list' = all_list /\ off' = off /\ value' = value /\ waiters' = waiters
        /\ holder' = holder /\ cond' = cond /\ tid' = tid /\ next_tid' = next_tid
             /\ elapsed' = elapsed
    BY DEF idle_init, Then, semaVars, tidVars, sched
  <1>2. /\ current \in Thread /\ status[current] = "running" /\ Follows(current, "idle", x, r)
        /\ \A o : Doing(q, o) <=> o = "idle"
        /\ Code(current, r) /\ ~off[current]
    <2>1. "idle" # "block" /\ "idle" # "down"
      OBVIOUS
    <2> QED BY <2>1, HereFacts
  <1>3. current = idle
    BY <1>2 DEF Follows
  <1>4. /\ TypeI /\ CodeI(td) /\ ReadyI(td) /\ WaitI(td) /\ WakeI(td) /\ DeadI(td) /\ MakeI(td)
        /\ LockI(td) /\ TidI(td) /\ SignalI(td) /\ SchedOK
    BY DEF Here, Inv, ReadyI
  <1>5. Moved(td, r) /\ \A t \in Thread \ {current} : todo'[t] = td[t]
    <2>1. Moved(td, r)
      BY <1>1, ThenMoved
    <2> QED BY <2>1 DEF Moved
  <1>6. /\ \A t : Upping(r, t) <=> Upping(q, t)
        /\ \A t : Makes(r, t) <=> Makes(q, t)
    <2>1. Leaves("idle", x, q, r)
      BY RestFacts
    <2>2. "idle" # "init" /\ "idle" # "unblock" /\ "idle" # "up"
      OBVIOUS
    <2> QED BY <2>1, <2>2 DEF Leaves
  <1>7. /\ ~Doing(r, "store") /\ ~Doing(r, "exit") /\ NotLock(r) /\ NotLock(q)
             /\ ~Doing(q, "store")
    <2>1. Head(q).op = "idle"
      BY <1>2 DEF Doing
    <2>2. r = <<At("up", idle), At("block", Null)>>
      <3>1. IdleCode(q)
        <4>1. Code(idle, q)
          BY <1>2, <1>3, HereFacts
        <4> QED BY <4>1 DEF Code
      <3>2. At("block", Null).op # "idle" /\ At("hlt", Null).op # "idle"
              /\ At("up", idle).op # "idle"
        BY DEF At
      <3>3. /\ Tail(<<At("idle", Null), At("up", idle), At("block", Null)>>)
                 = <<At("up", idle), At("block", Null)>>
            /\ Head(<<At("up", idle), At("block", Null)>>) = At("up", idle)
            /\ Head(<<At("block", Null)>>) = At("block", Null)
            /\ Head(<<At("hlt", Null), At("block", Null)>>) = At("hlt", Null)
        BY SMT
      <3> QED BY <2>1, <3>1, <3>2, <3>3 DEF IdleCode
    <2>3. Head(r) = At("up", idle)
      BY <2>2, Tuple2 DEF Splits
    <2>4. idle \notin Locks
      BY SynchAssumption, ThreadsAssumption
    <2> HIDE DEF r, q
    <2> QED BY <2>1, <2>3, <2>4, SMT DEF Doing, At, NotLock
  <1> HIDE DEF r
  <1>8. status[current] # "blocked" /\ status[current] \notin {"none", "dying"}
    BY <1>2
  <1>9. CodeI(todo)'
    BY <1>2, <1>4, <1>5, CodeKept
  <1>10. ReadyI(todo)'
    <2>1. /\ idle_thread' = idle /\ idle # Null
      BY <1>1, <1>3, ThreadsAssumption
    <2>2. \A t \in Thread : t \in Range(ready_list) <=> status[t] = "ready" /\ t # idle
      <3>1. status[idle] # "ready" /\ idle_thread \in {Null, idle} /\ Null \notin Thread
        BY <1>2, <1>3, <1>4, ThreadsAssumption DEF TypeI, SchedType
      <3> QED BY <1>4, <3>1 DEF SchedOK
    <2> QED BY <1>1, <1>4, <2>1, <2>2 DEF ReadyI, SchedOK
  <1>11. WaitI(todo)' /\ WakeI(todo)'
    <2>1. \A s \in SemaIds : waiters'[s] = waiters[s]
            /\ (value'[s] = value[s] \/ waiters'[s] = <<>>
                 \/ (value'[s] \in Nat /\ value'[s] <= value[s]))
      BY <1>1
    <2> QED BY <1>1, <1>2, <1>3, <1>4, <1>5, <1>9, <2>1, WaitKept
  <1>12. DeadI(todo)'
    <2>1. \A t \in Thread : status'[t] \in {"none", "dying"} => status[t] \in {"none", "dying"}
            /\ t # current
      BY <1>1, <1>8
    <2>2. \A l \in Locks : holder'[l] \in {holder[l], current, Null}
      BY <1>1
    <2> QED BY <1>1, <1>2, <1>4, <1>5, <2>1, <2>2, DeadKept
  <1>13. MakeI(todo)'
    <2>1. \A t \in Thread : (status'[t] = "blocked" /\ todo'[t] = <<>>) <=>
                            (status[t] = "blocked" /\ td[t] = <<>>)
      BY <1>1, <1>5, <1>8
    <2> QED BY <1>2, <1>4, <1>5, <1>6, <2>1, MakeKept
  <1>14. LockI(todo)'
    BY <1>1, <1>2, <1>4, <1>5, <1>7, LockKept
  <1>15. SignalI(todo)'
    BY <1>1, <1>2, <1>3, <1>4, <1>5, <1>6, SignalKept
  <1>16. TidI(todo)'
    BY <1>1, <1>2, <1>4, <1>5, <1>7, TidKept
  <1>17. TypeI'
    BY <1>1, <1>3, <1>4 DEF TypeI, SchedType
  <1> QED BY <1>9, <1>10, <1>11, <1>12, <1>13, <1>14, <1>15, <1>16, <1>17 DEF Inv

(* The timer's interrupt and the idle thread's thread_block.               *)
LEMMA SwitchRest ==
  ASSUME NEW td, NEW p, Inv(td), Moved(td, p), SchedType', CodeI(todo)', ReadyI(todo)',
         WaitI(todo)',
         WakeI(todo)', DeadI(todo)', MakeI(todo)',
         UNCHANGED <<all_list, off, semaVars, holder, cond, tidVars>>,
         elapsed' \in [Thread -> 0..MaxSleep],
         \/ p = td[current]
         \/ /\ current = idle /\ ~Doing(td[idle], "store") /\ NotLock(td[idle])
            /\ NotLock(p) /\ ~Doing(p, "exit") /\ ~Doing(p, "store"),
         \A t : Upping(p, t) <=> Upping(td[current], t)
  PROVE  Inv(todo)'
  <1>1. TypeI /\ LockI(td) /\ TidI(td) /\ SignalI(td)
    BY DEF Inv
  <1>2. /\ all_list' = all_list /\ off' = off /\ value' = value /\ waiters' = waiters
        /\ holder' = holder /\ cond' = cond /\ tid' = tid /\ next_tid' = next_tid
    BY DEF semaVars, tidVars
  <1>3. current \in Thread
    BY <1>1 DEF TypeI, SchedType
  <1>4. LockI(todo)'
    <2>1. CASE p = td[current]
      BY <1>1, <1>2, <2>1, LockStill
    <2>2. CASE p # td[current]
      BY <1>1, <1>2, <1>3, <2>2, LockKept
    <2> QED BY <2>1, <2>2
  <1>5. SignalI(todo)'
    <2>1. current # idle => (Waits(p, current) <=> Waits(td[current], current))
      OBVIOUS
    <2> QED BY <1>1, <1>2, <1>3, <2>1, SignalKept
  <1>6. TidI(todo)'
    <2>1. CASE p = td[current]
      <3>1. \A t \in Thread : todo'[t] = td[t]
        BY <2>1 DEF Moved
      <3> QED BY <1>1, <1>2, <3>1 DEF TidI, TidsUnique
    <2>2. CASE p # td[current]
      BY <1>1, <1>2, <1>3, <2>2, TidKept
    <2> QED BY <2>1, <2>2
  <1>7. TypeI'
    BY <1>1, <1>2 DEF TypeI
  <1> QED BY <1>4, <1>5, <1>6, <1>7 DEF Inv

\* The idle thread blocks.
LEMMA BlockStep ==
  ASSUME ThreadSets, NEW td, NEW x, Here(td, "block", x), idle_block
  PROVE  Inv(todo)'
  <1> DEFINE q == td[current]
  <1>1. /\ current \in Thread /\ Follows(current, "block", x, Tail(q))
        /\ \A o : Doing(q, o) <=> o = "block"
        /\ At("block", x) \in Range(q) /\ Range(Tail(q)) = Range(q) \ {At("block", x)}
        /\ ~off[current]
    <2>1. "block" # "down"
      OBVIOUS
    <2> QED BY <2>1, HereFacts
  <1>2. Tail(q) = <<>> /\ current = idle
    BY <1>1 DEF Follows
  <1>3. Range(q) = {At("block", x)}
    BY <1>1, <1>2, EmptyRange
  <1>4. /\ todo' = [todo EXCEPT ![current] = idle_loop]
        /\ schedule([status EXCEPT ![current] = "blocked"], ready_list)
        /\ all_list' = all_list /\ idle_thread' = idle_thread /\ off' = off
        /\ value' = value /\ waiters' = waiters /\ holder' = holder /\ elapsed' = elapsed
        /\ UNCHANGED <<all_list, off, semaVars, holder, cond, tidVars>>
    BY DEF idle_block, thread_block, Then, semaVars
  <1>5. Splits(idle_loop, At("hlt", Null), <<At("block", Null)>>,
          {At("hlt", Null), At("block", Null)})
    BY Tuple2 DEF idle_loop
  <1>6. \A t : /\ At("unblock", t) \notin Range(q) /\ At("up", t) \notin Range(q)
               /\ At("unblock", t) \notin Range(idle_loop)
                    /\ At("up", t) \notin Range(idle_loop)
    BY <1>3, <1>5 DEF At, Splits
  <1>7. \A t : /\ Makes(idle_loop, t) <=> Makes(q, t)
               /\ Upping(idle_loop, t) <=> Upping(q, t)
    BY <1>6 DEF Makes, Upping
  <1>8. Inv(td) /\ TypeI /\ ReadyI(td)
    BY DEF Here, Inv
  <1>9. Moved(td, idle_loop)
    BY <1>4, ThenMoved
  <1>10. Code(current, idle_loop)
    BY <1>2 DEF Code, IdleCode, idle_loop
  <1>11. /\ ~Doing(q, "idle") /\ ~Doing(q, "store") /\ NotLock(q)
         /\ NotLock(idle_loop) /\ ~Doing(idle_loop, "exit") /\ ~Doing(idle_loop, "store")
    <2>1. Head(q).op = "block"
      BY <1>1 DEF Doing
    <2> HIDE DEF q
    <2> QED BY <1>5, <2>1, SMT DEF Splits, Doing, NotLock, At
  <1>12. idle_thread = idle
    BY <1>2, <1>8, <1>11 DEF ReadyI, TypeI, SchedType
  <1>13. /\ SchedType' /\ CodeI(todo)' /\ ReadyI(todo)' /\ WaitI(todo)' /\ WakeI(todo)'
         /\ DeadI(todo)' /\ MakeI(todo)'
    <2>1. /\ "blocked" \in {"blocked", "ready", "dying"} /\ "blocked" # "dying"
               /\ "blocked" # "ready"
      OBVIOUS
    <2>2. ready_list = IF "blocked" = "ready" /\ current # idle_thread
                       THEN Append(ready_list, current) ELSE ready_list
      BY <2>1
    <2>3. all_list' = IF "blocked" = "dying" THEN all_list \ {current} ELSE all_list
      BY <1>4, <2>1
    <2>4. UNCHANGED <<idle_thread, off, value, waiters, holder>>
      BY <1>4
    <2> QED BY <1>1, <1>2, <1>4, <1>7, <1>8, <1>9, <1>10, <1>11, <1>12, <2>1, <2>2, <2>3, <2>4,
               SwitchAway
  <1>14. elapsed' \in [Thread -> 0..MaxSleep]
    BY <1>4, <1>8 DEF TypeI
  <1> QED BY <1>2, <1>4, <1>7, <1>8, <1>9, <1>11, <1>13, <1>14, SwitchRest

\* timer_interrupt, which may end the time slice.
LEMMA TimerStep ==
  ASSUME ThreadSets, Inv(todo), timer_interrupt
  PROVE  Inv(todo)'
  <1>1. /\ ~off[current] /\ thread_tick /\ Interrupted
        /\ elapsed' = [t \in Thread |-> IF At_sleep(t) /\ elapsed[t] < MaxSleep
                                        THEN elapsed[t] + 1 ELSE elapsed[t]]
        /\ UNCHANGED <<all_list, off, semaVars, holder, cond, tidVars>>
        /\ all_list' = all_list /\ idle_thread' = idle_thread /\ off' = off /\ value' = value
        /\ waiters' = waiters /\ holder' = holder
    BY DEF timer_interrupt, semaVars
  <1>2. PICK p : /\ Moved(todo, p) /\ Code(current, p)
                 /\ \/ p = todo[current]
                    \/ /\ current = idle /\ ~Doing(todo[idle], "idle")
                            /\ ~Doing(todo[idle], "store")
                       /\ NotLock(todo[idle]) /\ NotLock(p) /\ ~Doing(p, "exit")
                            /\ ~Doing(p, "store")
                 /\ \A t : /\ Makes(p, t) <=> Makes(todo[current], t)
                           /\ Upping(p, t) <=> Upping(todo[current], t)
    BY <1>1, InterruptMoves
  <1>3. /\ TypeI /\ CodeI(todo) /\ ReadyI(todo) /\ WaitI(todo) /\ WakeI(todo) /\ DeadI(todo)
        /\ MakeI(todo) /\ current \in Thread /\ status[current] = "running" /\ SchedOK
             /\ SchedType
    BY DEF Inv, TypeI, SchedType, ReadyI, SchedOK
  <1>4. elapsed' \in [Thread -> 0..MaxSleep]
    <2>1. \A t \in Thread : elapsed[t] \in 0..MaxSleep
      BY <1>3 DEF TypeI
    <2>2. \A t \in Thread : (IF At_sleep(t) /\ elapsed[t] < MaxSleep
                             THEN elapsed[t] + 1 ELSE elapsed[t]) \in 0..MaxSleep
      BY <2>1, SynchAssumption, SMT
    <2> QED BY <1>1, <2>2
  <1>5. current = idle => ~Doing(todo[idle], "idle") \/ p = todo[idle]
    BY <1>2
  <1>6. /\ SchedType' /\ CodeI(todo)' /\ ReadyI(todo)' /\ WaitI(todo)' /\ WakeI(todo)'
        /\ DeadI(todo)' /\ MakeI(todo)'
    <2>1. CASE thread_ticks + 1 >= TIME_SLICE
      <3> DEFINE ready == IF current = idle_thread THEN ready_list ELSE Append(ready_list,
            current)
      <3>1. schedule([status EXCEPT ![current] = "ready"], ready)
        BY <1>1, <2>1 DEF thread_tick, thread_yield
      <3>2. /\ "ready" \in {"blocked", "ready", "dying"} /\ "ready" # "dying"
                 /\ "ready" # "blocked"
        OBVIOUS
      <3>3. ready = IF "ready" = "ready" /\ current # idle_thread
                    THEN Append(ready_list, current) ELSE ready_list
        OBVIOUS
      <3>4. all_list' = IF "ready" = "dying" THEN all_list \ {current} ELSE all_list
        BY <1>1, <3>2
      <3>5. UNCHANGED <<idle_thread, off, value, waiters, holder>>
        BY <1>1
      <3> HIDE DEF ready
      <3> QED BY <1>1, <1>2, <1>5, <3>1, <3>2, <3>3, <3>4, <3>5, SwitchAway
    <2>2. CASE ~(thread_ticks + 1 >= TIME_SLICE)
      <3>1. /\ thread_ticks' = thread_ticks + 1 /\ status' = status /\ ready_list' = ready_list
            /\ current' = current
        BY <1>1, <2>2 DEF thread_tick
      <3>2. SchedType'
        <4>1. thread_ticks' \in 0..TIME_SLICE - 1
          BY <1>3, <2>2, <3>1, ThreadsAssumption, SMT DEF SchedType
        <4> QED BY <1>1, <1>3, <3>1, <4>1 DEF SchedType
      <3>3. SchedOK'
        BY <1>1, <1>3, <3>1 DEF SchedOK
      <3>4. CodeI(todo)'
        BY <1>2, <1>3, CodeKept
      <3>5. ReadyI(todo)'
        BY <1>1, <1>2, <1>3, <1>5, <3>3, ReadyKept
      <3>6. status[current] # "blocked" /\ status[current] \notin {"none", "dying"}
        BY <1>3
      <3>7. \A s \in SemaIds : waiters'[s] = waiters[s]
              /\ (value'[s] = value[s] \/ waiters'[s] = <<>>
                   \/ (value'[s] \in Nat /\ value'[s] <= value[s]))
        BY <1>1
      <3>8. WaitI(todo)' /\ WakeI(todo)'
        BY <1>1, <1>2, <1>3, <3>1, <3>4, <3>6, <3>7, WaitKept
      <3>9. DeadI(todo)'
        <4>1. \A t \in Thread : status'[t] \in {"none", "dying"}
                => status[t] \in {"none", "dying"} /\ t # current
          BY <3>1, <3>6
        <4>2. \A l \in Locks : holder'[l] \in {holder[l], current, Null}
          BY <1>1
        <4> QED BY <1>1, <1>2, <1>3, <4>1, <4>2, DeadKept
      <3>10. MakeI(todo)'
        <4>1. \A t \in Thread : (status'[t] = "blocked" /\ todo'[t] = <<>>) <=>
                                (status[t] = "blocked" /\ todo[t] = <<>>)
          BY <1>2, <3>1, <3>6 DEF Moved
        <4> QED BY <1>2, <1>3, <4>1, MakeKept
      <3> QED BY <3>2, <3>4, <3>5, <3>8, <3>9, <3>10
    <2> QED BY <2>1, <2>2
  <1> QED BY <1>1, <1>2, <1>4, <1>6, SwitchRest, Zenon

-----------------------------------------------------------------------------
(* The calls the running thread may make.                                  *)

\* q is s followed by t.
Joined(s, t, q) == s \o t = q

\* A list is its first step followed by the others.
LEMMA Cons ==
  ASSUME NEW q, NEW a, NEW r, NEW S, Splits(q, a, r, S)
  PROVE  Joined(<<a>>, r, q)
  BY Rejoin DEF Splits, Joined

\* The lists with which Longer goes from the list r to <<a>> \o r.
Grows(S, a, r, v, s, q, p) ==
  /\ a \in S /\ r \in Seq(S) /\ v \in Seq(S)
  /\ Joined(<<a>>, r, q) /\ Joined(r, v, s) /\ Joined(<<a>>, s, p)

\* A longer list followed by the same one.
LEMMA Longer ==
  ASSUME NEW S, NEW a, NEW r, NEW v, NEW s, NEW q, NEW p, Grows(S, a, r, v, s, q, p)
  PROVE  Joined(q, v, p)
  <1> USE DEF Grows
  <1>1. <<a>> \in Seq(S)
    BY SMT
  <1>2. (<<a>> \o r) \o v = <<a>> \o (r \o v)
    <2>1. ASSUME NEW b \in Seq(S) PROVE (b \o r) \o v = b \o (r \o v)
      BY <2>1, SMT
    <2> QED BY <1>1, <2>1
  <1> QED BY <1>2 DEF Joined

\* The steps of cond_wait.
LEMMA WaitIs ==
  ASSUME NEW c
  PROVE  cond_wait(c) = <<At("enqueue", c), At("unhold", LockOf[c]), At("up", LockOf[c]),
                          At("down", current), At("down", LockOf[c]), At("hold", LockOf[c])>>
  <1>1. ASSUME NEW a, NEW b, NEW d, NEW e, NEW f, NEW g
        PROVE  /\ Joined(<<a>>, <<b, d>>, <<a, b, d>>)
                  /\ Joined(<<a, b, d>>, <<e>>, <<a, b, d, e>>)
               /\ Joined(<<a, b, d, e>>, <<f, g>>, <<a, b, d, e, f, g>>)
    <2> DEFINE S == {a, b, d, e, f, g}
    <2>1. a \in S /\ b \in S /\ d \in S /\ e \in S /\ f \in S /\ g \in S
      OBVIOUS
    <2>2. /\ <<d>> \in Seq(S)
          /\ <<e>> \in Seq(S)
          /\ <<b, d>> \in Seq(S)
          /\ <<d, e>> \in Seq(S)
          /\ <<f, g>> \in Seq(S)
          /\ <<b, d, e>> \in Seq(S)
      BY <2>1, SMT
    <2> HIDE DEF S
    <2>3. /\ Splits(<<d, e>>, d, <<e>>, {d, e})
          /\ Splits(<<b, d>>, b, <<d>>, {b, d})
      BY Tuple2
    <2>4. /\ Joined(<<d>>, <<e>>, <<d, e>>)
          /\ Joined(<<b>>, <<d>>, <<b, d>>)
      BY <2>3, Cons
    <2>5. /\ Splits(<<a, b, d>>, a, <<b, d>>, {a, b, d})
          /\ Splits(<<b, d, e>>, b, <<d, e>>, {b, d, e})
          /\ Splits(<<e, f, g>>, e, <<f, g>>, {e, f, g})
      BY Tuple3
    <2>6. /\ Joined(<<a>>, <<b, d>>, <<a, b, d>>)
          /\ Joined(<<b>>, <<d, e>>, <<b, d, e>>)
          /\ Joined(<<e>>, <<f, g>>, <<e, f, g>>)
      BY <2>5, Cons
    <2>7. /\ Splits(<<a, b, d, e>>, a, <<b, d, e>>, {a, b, d, e})
          /\ Splits(<<d, e, f, g>>, d, <<e, f, g>>, {d, e, f, g})
      BY Tuple4
    <2>8. /\ Joined(<<a>>, <<b, d, e>>, <<a, b, d, e>>)
          /\ Joined(<<d>>, <<e, f, g>>, <<d, e, f, g>>)
      BY <2>7, Cons
    <2>9. Splits(<<b, d, e, f, g>>, b, <<d, e, f, g>>, {b, d, e, f, g})
      BY Tuple5
    <2>10. Joined(<<b>>, <<d, e, f, g>>, <<b, d, e, f, g>>)
      BY <2>9, Cons
    <2>11. Splits(<<a, b, d, e, f, g>>, a, <<b, d, e, f, g>>, {a, b, d, e, f, g})
      BY Tuple6
    <2>12. Joined(<<a>>, <<b, d, e, f, g>>, <<a, b, d, e, f, g>>)
      BY <2>11, Cons
    <2>13. Joined(<<b, d>>, <<e>>, <<b, d, e>>)
      <3>1. b \in S /\ <<d>> \in Seq(S) /\ <<e>> \in Seq(S)
        BY <2>1, <2>2
      <3>2. /\ Joined(<<b>>, <<d>>, <<b, d>>) /\ Joined(<<d>>, <<e>>, <<d, e>>)
            /\ Joined(<<b>>, <<d, e>>, <<b, d, e>>)
        BY <2>4, <2>6
      <3>3. Grows(S, b, <<d>>, <<e>>, <<d, e>>, <<b, d>>, <<b, d, e>>)
        BY <3>1, <3>2 DEF Grows
      <3> QED BY <3>3, Longer
    <2>14. Joined(<<a, b, d>>, <<e>>, <<a, b, d, e>>)
      <3>1. a \in S /\ <<b, d>> \in Seq(S) /\ <<e>> \in Seq(S)
        BY <2>1, <2>2
      <3>2. /\ Joined(<<a>>, <<b, d>>, <<a, b, d>>) /\ Joined(<<b, d>>, <<e>>, <<b, d, e>>)
            /\ Joined(<<a>>, <<b, d, e>>, <<a, b, d, e>>)
        BY <2>6, <2>8, <2>13
      <3>3. Grows(S, a, <<b, d>>, <<e>>, <<b, d, e>>, <<a, b, d>>, <<a, b, d, e>>)
        BY <3>1, <3>2 DEF Grows
      <3> QED BY <3>3, Longer
    <2>15. Joined(<<d, e>>, <<f, g>>, <<d, e, f, g>>)
      <3>1. d \in S /\ <<e>> \in Seq(S) /\ <<f, g>> \in Seq(S)
        BY <2>1, <2>2
      <3>2. /\ Joined(<<d>>, <<e>>, <<d, e>>) /\ Joined(<<e>>, <<f, g>>, <<e, f, g>>)
            /\ Joined(<<d>>, <<e, f, g>>, <<d, e, f, g>>)
        BY <2>4, <2>6, <2>8
      <3>3. Grows(S, d, <<e>>, <<f, g>>, <<e, f, g>>, <<d, e>>, <<d, e, f, g>>)
        BY <3>1, <3>2 DEF Grows
      <3> QED BY <3>3, Longer
    <2>16. Joined(<<b, d, e>>, <<f, g>>, <<b, d, e, f, g>>)
      <3>1. b \in S /\ <<d, e>> \in Seq(S) /\ <<f, g>> \in Seq(S)
        BY <2>1, <2>2
      <3>2. /\ Joined(<<b>>, <<d, e>>, <<b, d, e>>)
                 /\ Joined(<<d, e>>, <<f, g>>, <<d, e, f, g>>)
            /\ Joined(<<b>>, <<d, e, f, g>>, <<b, d, e, f, g>>)
        BY <2>6, <2>10, <2>15
      <3>3. Grows(S, b, <<d, e>>, <<f, g>>, <<d, e, f, g>>, <<b, d, e>>, <<b, d, e, f, g>>)
        BY <3>1, <3>2 DEF Grows
      <3> QED BY <3>3, Longer
    <2>17. Joined(<<a, b, d, e>>, <<f, g>>, <<a, b, d, e, f, g>>)
      <3>1. a \in S /\ <<b, d, e>> \in Seq(S) /\ <<f, g>> \in Seq(S)
        BY <2>1, <2>2
      <3>2. /\ Joined(<<a>>, <<b, d, e>>, <<a, b, d, e>>)
                 /\ Joined(<<b, d, e>>, <<f, g>>, <<b, d, e, f, g>>)
            /\ Joined(<<a>>, <<b, d, e, f, g>>, <<a, b, d, e, f, g>>)
        BY <2>8, <2>12, <2>16
      <3>3. Grows(S, a, <<b, d, e>>, <<f, g>>, <<b, d, e, f, g>>, <<a, b, d, e>>,
              <<a, b, d, e, f, g>>)
        BY <3>1, <3>2 DEF Grows
      <3> QED BY <3>3, Longer
    <2> QED BY <2>6, <2>14, <2>17
  <1> DEFINE l == LockOf[c]
  <1>2. /\ Joined(<<At("enqueue", c)>>, <<At("unhold", l), At("up", l)>>,
                  <<At("enqueue", c), At("unhold", l), At("up", l)>>)
        /\ Joined(<<At("enqueue", c), At("unhold", l), At("up", l)>>, <<At("down", current)>>,
                  <<At("enqueue", c), At("unhold", l), At("up", l), At("down", current)>>)
        /\ Joined(<<At("enqueue", c), At("unhold", l), At("up", l), At("down", current)>>,
                  <<At("down", l), At("hold", l)>>,
                  <<At("enqueue", c), At("unhold", l), At("up", l), At("down", current),
                    At("down", l), At("hold", l)>>)
    BY <1>1
  <1> QED BY <1>2 DEF Joined, cond_wait, lock_release, lock_acquire

\* The steps of thread_create.
LEMMA CreateIs ==
  ASSUME NEW t
  PROVE  thread_create(t) =
           <<At("init", t), At("down", tid_lock), At("hold", tid_lock), At("load", t),
             At("store", t), At("unhold", tid_lock), At("up", tid_lock), At("unblock", t)>>
  <1>1. ASSUME NEW a, NEW b, NEW c, NEW d, NEW e, NEW f, NEW g, NEW h
        PROVE  /\ Joined(<<b, c>>, <<d, e>>, <<b, c, d, e>>)
               /\ Joined(<<b, c, d, e>>, <<f, g>>, <<b, c, d, e, f, g>>)
               /\ Joined(<<a>>, <<b, c, d, e, f, g>>, <<a, b, c, d, e, f, g>>)
               /\ Joined(<<a, b, c, d, e, f, g>>, <<h>>, <<a, b, c, d, e, f, g, h>>)
    <2> DEFINE S == {a, b, c, d, e, f, g, h}
    <2>1. a \in S /\ b \in S /\ c \in S /\ d \in S /\ e \in S /\ f \in S /\ g \in S /\ h \in S
      OBVIOUS
    <2>2. /\ <<c>> \in Seq(S)
          /\ <<e>> \in Seq(S)
          /\ <<g>> \in Seq(S)
          /\ <<h>> \in Seq(S)
          /\ <<d, e>> \in Seq(S)
          /\ <<f, g>> \in Seq(S)
          /\ <<c, d, e>> \in Seq(S)
          /\ <<e, f, g>> \in Seq(S)
          /\ <<d, e, f, g>> \in Seq(S)
          /\ <<c, d, e, f, g>> \in Seq(S)
          /\ <<b, c, d, e, f, g>> \in Seq(S)
      BY <2>1, SMT
    <2> HIDE DEF S
    <2>3. /\ Splits(<<b, c>>, b, <<c>>, {b, c})
          /\ Splits(<<d, e>>, d, <<e>>, {d, e})
          /\ Splits(<<g, h>>, g, <<h>>, {g, h})
          /\ Splits(<<f, g>>, f, <<g>>, {f, g})
      BY Tuple2
    <2>4. /\ Joined(<<b>>, <<c>>, <<b, c>>)
          /\ Joined(<<d>>, <<e>>, <<d, e>>)
          /\ Joined(<<g>>, <<h>>, <<g, h>>)
          /\ Joined(<<f>>, <<g>>, <<f, g>>)
      BY <2>3, Cons
    <2>5. /\ Splits(<<c, d, e>>, c, <<d, e>>, {c, d, e})
          /\ Splits(<<e, f, g>>, e, <<f, g>>, {e, f, g})
          /\ Splits(<<f, g, h>>, f, <<g, h>>, {f, g, h})
      BY Tuple3
    <2>6. /\ Joined(<<c>>, <<d, e>>, <<c, d, e>>)
          /\ Joined(<<e>>, <<f, g>>, <<e, f, g>>)
          /\ Joined(<<f>>, <<g, h>>, <<f, g, h>>)
      BY <2>5, Cons
    <2>7. /\ Splits(<<b, c, d, e>>, b, <<c, d, e>>, {b, c, d, e})
          /\ Splits(<<d, e, f, g>>, d, <<e, f, g>>, {d, e, f, g})
          /\ Splits(<<e, f, g, h>>, e, <<f, g, h>>, {e, f, g, h})
      BY Tuple4
    <2>8. /\ Joined(<<b>>, <<c, d, e>>, <<b, c, d, e>>)
          /\ Joined(<<d>>, <<e, f, g>>, <<d, e, f, g>>)
          /\ Joined(<<e>>, <<f, g, h>>, <<e, f, g, h>>)
      BY <2>7, Cons
    <2>9. /\ Splits(<<c, d, e, f, g>>, c, <<d, e, f, g>>, {c, d, e, f, g})
          /\ Splits(<<d, e, f, g, h>>, d, <<e, f, g, h>>, {d, e, f, g, h})
      BY Tuple5
    <2>10. /\ Joined(<<c>>, <<d, e, f, g>>, <<c, d, e, f, g>>)
          /\ Joined(<<d>>, <<e, f, g, h>>, <<d, e, f, g, h>>)
      BY <2>9, Cons
    <2>11. /\ Splits(<<b, c, d, e, f, g>>, b, <<c, d, e, f, g>>, {b, c, d, e, f, g})
          /\ Splits(<<c, d, e, f, g, h>>, c, <<d, e, f, g, h>>, {c, d, e, f, g, h})
      BY Tuple6
    <2>12. /\ Joined(<<b>>, <<c, d, e, f, g>>, <<b, c, d, e, f, g>>)
          /\ Joined(<<c>>, <<d, e, f, g, h>>, <<c, d, e, f, g, h>>)
      BY <2>11, Cons
    <2>13. /\ Splits(<<a, b, c, d, e, f, g>>, a, <<b, c, d, e, f, g>>, {a, b, c, d, e, f, g})
          /\ Splits(<<b, c, d, e, f, g, h>>, b, <<c, d, e, f, g, h>>, {b, c, d, e, f, g, h})
      BY Tuple7
    <2>14. /\ Joined(<<a>>, <<b, c, d, e, f, g>>, <<a, b, c, d, e, f, g>>)
          /\ Joined(<<b>>, <<c, d, e, f, g, h>>, <<b, c, d, e, f, g, h>>)
      BY <2>13, Cons
    <2>15. Splits(<<a, b, c, d, e, f, g, h>>, a, <<b, c, d, e, f, g, h>>,
             {a, b, c, d, e, f, g, h})
      BY Tuple8
    <2>16. Joined(<<a>>, <<b, c, d, e, f, g, h>>, <<a, b, c, d, e, f, g, h>>)
      BY <2>15, Cons
    <2>17. Joined(<<b, c>>, <<d, e>>, <<b, c, d, e>>)
      <3>1. b \in S /\ <<c>> \in Seq(S) /\ <<d, e>> \in Seq(S)
        BY <2>1, <2>2
      <3>2. /\ Joined(<<b>>, <<c>>, <<b, c>>) /\ Joined(<<c>>, <<d, e>>, <<c, d, e>>)
            /\ Joined(<<b>>, <<c, d, e>>, <<b, c, d, e>>)
        BY <2>4, <2>6, <2>8
      <3>3. Grows(S, b, <<c>>, <<d, e>>, <<c, d, e>>, <<b, c>>, <<b, c, d, e>>)
        BY <3>1, <3>2 DEF Grows
      <3> QED BY <3>3, Longer
    <2>18. Joined(<<d, e>>, <<f, g>>, <<d, e, f, g>>)
      <3>1. d \in S /\ <<e>> \in Seq(S) /\ <<f, g>> \in Seq(S)
        BY <2>1, <2>2
      <3>2. /\ Joined(<<d>>, <<e>>, <<d, e>>) /\ Joined(<<e>>, <<f, g>>, <<e, f, g>>)
            /\ Joined(<<d>>, <<e, f, g>>, <<d, e, f, g>>)
        BY <2>4, <2>6, <2>8
      <3>3. Grows(S, d, <<e>>, <<f, g>>, <<e, f, g>>, <<d, e>>, <<d, e, f, g>>)
        BY <3>1, <3>2 DEF Grows
      <3> QED BY <3>3, Longer
    <2>19. Joined(<<c, d, e>>, <<f, g>>, <<c, d, e, f, g>>)
      <3>1. c \in S /\ <<d, e>> \in Seq(S) /\ <<f, g>> \in Seq(S)
        BY <2>1, <2>2
      <3>2. /\ Joined(<<c>>, <<d, e>>, <<c, d, e>>)
                 /\ Joined(<<d, e>>, <<f, g>>, <<d, e, f, g>>)
            /\ Joined(<<c>>, <<d, e, f, g>>, <<c, d, e, f, g>>)
        BY <2>6, <2>10, <2>18
      <3>3. Grows(S, c, <<d, e>>, <<f, g>>, <<d, e, f, g>>, <<c, d, e>>, <<c, d, e, f, g>>)
        BY <3>1, <3>2 DEF Grows
      <3> QED BY <3>3, Longer
    <2>20. Joined(<<b, c, d, e>>, <<f, g>>, <<b, c, d, e, f, g>>)
      <3>1. b \in S /\ <<c, d, e>> \in Seq(S) /\ <<f, g>> \in Seq(S)
        BY <2>1, <2>2
      <3>2. /\ Joined(<<b>>, <<c, d, e>>, <<b, c, d, e>>)
                 /\ Joined(<<c, d, e>>, <<f, g>>, <<c, d, e, f, g>>)
            /\ Joined(<<b>>, <<c, d, e, f, g>>, <<b, c, d, e, f, g>>)
        BY <2>8, <2>12, <2>19
      <3>3. Grows(S, b, <<c, d, e>>, <<f, g>>, <<c, d, e, f, g>>, <<b, c, d, e>>,
              <<b, c, d, e, f, g>>)
        BY <3>1, <3>2 DEF Grows
      <3> QED BY <3>3, Longer
    <2>21. Joined(<<f, g>>, <<h>>, <<f, g, h>>)
      <3>1. f \in S /\ <<g>> \in Seq(S) /\ <<h>> \in Seq(S)
        BY <2>1, <2>2
      <3>2. /\ Joined(<<f>>, <<g>>, <<f, g>>) /\ Joined(<<g>>, <<h>>, <<g, h>>)
            /\ Joined(<<f>>, <<g, h>>, <<f, g, h>>)
        BY <2>4, <2>6
      <3>3. Grows(S, f, <<g>>, <<h>>, <<g, h>>, <<f, g>>, <<f, g, h>>)
        BY <3>1, <3>2 DEF Grows
      <3> QED BY <3>3, Longer
    <2>22. Joined(<<e, f, g>>, <<h>>, <<e, f, g, h>>)
      <3>1. e \in S /\ <<f, g>> \in Seq(S) /\ <<h>> \in Seq(S)
        BY <2>1, <2>2
      <3>2. /\ Joined(<<e>>, <<f, g>>, <<e, f, g>>) /\ Joined(<<f, g>>, <<h>>, <<f, g, h>>)
            /\ Joined(<<e>>, <<f, g, h>>, <<e, f, g, h>>)
        BY <2>6, <2>8, <2>21
      <3>3. Grows(S, e, <<f, g>>, <<h>>, <<f, g, h>>, <<e, f, g>>, <<e, f, g, h>>)
        BY <3>1, <3>2 DEF Grows
      <3> QED BY <3>3, Longer
    <2>23. Joined(<<d, e, f, g>>, <<h>>, <<d, e, f, g, h>>)
      <3>1. d \in S /\ <<e, f, g>> \in Seq(S) /\ <<h>> \in Seq(S)
        BY <2>1, <2>2
      <3>2. /\ Joined(<<d>>, <<e, f, g>>, <<d, e, f, g>>)
                 /\ Joined(<<e, f, g>>, <<h>>, <<e, f, g, h>>)
            /\ Joined(<<d>>, <<e, f, g, h>>, <<d, e, f, g, h>>)
        BY <2>8, <2>10, <2>22
      <3>3. Grows(S, d, <<e, f, g>>, <<h>>, <<e, f, g, h>>, <<d, e, f, g>>, <<d, e, f, g, h>>)
        BY <3>1, <3>2 DEF Grows
      <3> QED BY <3>3, Longer
    <2>24. Joined(<<c, d, e, f, g>>, <<h>>, <<c, d, e, f, g, h>>)
      <3>1. c \in S /\ <<d, e, f, g>> \in Seq(S) /\ <<h>> \in Seq(S)
        BY <2>1, <2>2
      <3>2. /\ Joined(<<c>>, <<d, e, f, g>>, <<c, d, e, f, g>>)
                 /\ Joined(<<d, e, f, g>>, <<h>>, <<d, e, f, g, h>>)
            /\ Joined(<<c>>, <<d, e, f, g, h>>, <<c, d, e, f, g, h>>)
        BY <2>10, <2>12, <2>23
      <3>3. Grows(S, c, <<d, e, f, g>>, <<h>>, <<d, e, f, g, h>>, <<c, d, e, f, g>>,
              <<c, d, e, f, g, h>>)
        BY <3>1, <3>2 DEF Grows
      <3> QED BY <3>3, Longer
    <2>25. Joined(<<b, c, d, e, f, g>>, <<h>>, <<b, c, d, e, f, g, h>>)
      <3>1. b \in S /\ <<c, d, e, f, g>> \in Seq(S) /\ <<h>> \in Seq(S)
        BY <2>1, <2>2
      <3>2. /\ Joined(<<b>>, <<c, d, e, f, g>>, <<b, c, d, e, f, g>>)
                 /\ Joined(<<c, d, e, f, g>>, <<h>>, <<c, d, e, f, g, h>>)
            /\ Joined(<<b>>, <<c, d, e, f, g, h>>, <<b, c, d, e, f, g, h>>)
        BY <2>12, <2>14, <2>24
      <3>3. Grows(S, b, <<c, d, e, f, g>>, <<h>>, <<c, d, e, f, g, h>>, <<b, c, d, e, f, g>>,
              <<b, c, d, e, f, g, h>>)
        BY <3>1, <3>2 DEF Grows
      <3> QED BY <3>3, Longer
    <2>26. Joined(<<a, b, c, d, e, f, g>>, <<h>>, <<a, b, c, d, e, f, g, h>>)
      <3>1. a \in S /\ <<b, c, d, e, f, g>> \in Seq(S) /\ <<h>> \in Seq(S)
        BY <2>1, <2>2
      <3>2. /\ Joined(<<a>>, <<b, c, d, e, f, g>>, <<a, b, c, d, e, f, g>>)
                 /\ Joined(<<b, c, d, e, f, g>>, <<h>>, <<b, c, d, e, f, g, h>>)
            /\ Joined(<<a>>, <<b, c, d, e, f, g, h>>, <<a, b, c, d, e, f, g, h>>)
        BY <2>14, <2>16, <2>25
      <3>3. Grows(S, a, <<b, c, d, e, f, g>>, <<h>>, <<b, c, d, e, f, g, h>>,
              <<a, b, c, d, e, f, g>>, <<a, b, c, d, e, f, g, h>>)
        BY <3>1, <3>2 DEF Grows
      <3> QED BY <3>3, Longer
    <2> QED BY <2>14, <2>17, <2>20, <2>26
  <1> DEFINE l == tid_lock
  <1>2. /\ Joined(<<At("down", l), At("hold", l)>>, <<At("load", t), At("store", t)>>,
                  <<At("down", l), At("hold", l), At("load", t), At("store", t)>>)
        /\ Joined(<<At("down", l), At("hold", l), At("load", t), At("store", t)>>,
                  <<At("unhold", l), At("up", l)>>,
                  <<At("down", l), At("hold", l), At("load", t), At("store", t),
                    At("unhold", l), At("up", l)>>)
        /\ Joined(<<At("init", t)>>,
                  <<At("down", l), At("hold", l), At("load", t), At("store", t),
                    At("unhold", l), At("up", l)>>,
                  <<At("init", t), At("down", l), At("hold", l), At("load", t), At("store", t),
                    At("unhold", l), At("up", l)>>)
        /\ Joined(<<At("init", t), At("down", l), At("hold", l), At("load", t), At("store", t),
                    At("unhold", l), At("up", l)>>, <<At("unblock", t)>>,
                  <<At("init", t), At("down", l), At("hold", l), At("load", t), At("store", t),
                    At("unhold", l), At("up", l), At("unblock", t)>>)
    BY <1>1
  <1> QED BY <1>2 DEF Joined, thread_create, allocate_tid, lock_release, lock_acquire

-----------------------------------------------------------------------------
\* Nothing has been done yet of the call q the running thread makes.
Fresh(q) ==
  /\ q # <<>> /\ Code(current, q) /\ Head(q) = At(Head(q).op, Head(q).x)
  /\ \A t \in Thread : ~Makes(q, t) /\ ~Upping(q, t)
  /\ ~Waits(q, current)
  /\ \A l \in Locks : /\ ~Does(q, At("hold", l)) /\ ~Does(q, At("up", l))
                      /\ Does(q, At("unhold", l)) => holder[l] = current /\ l # tid_lock
  /\ \A c \in Conds : Does(q, At("enqueue", c)) => holder[LockOf[c]] = current
  /\ ~Doing(q, "load") /\ ~Doing(q, "store")
  /\ Doing(q, "exit") => \A l \in Locks : holder[l] # current

\* How a call is shown to be one nothing has been done of.
LEMMA FreshBy ==
  ASSUME NEW q, NEW op, NEW x, NEW r, NEW S, Splits(q, At(op, x), r, S), Code(current, q),
         \A t \in Thread : At("up", t) \notin S,
         op = "enqueue" \/ At("down", current) \notin S,
         op = "init" \/ \A t : At("unblock", t) \notin S,
         op \notin {"hold", "load", "store"}, op = "up" => x \notin Locks,
         op = "unhold" => holder[x] = current /\ x # tid_lock,
         op = "enqueue" => holder[LockOf[x]] = current,
         op = "exit" => \A l \in Locks : holder[l] # current
  PROVE  Fresh(q)
  <1>1. q # <<>> /\ Head(q) = At(op, x) /\ Range(q) = S
    BY DEF Splits
  <1>2. At(op, x).op = op /\ At(op, x).x = x
    BY DEF At
  <1>3. \A o : Doing(q, o) <=> o = op
    BY <1>1, <1>2 DEF Doing
  <1>4. \A o, y : Does(q, At(o, y)) <=> o = op /\ y = x
    BY <1>1, SMT DEF Does, At
  <1>5. \A t \in Thread : ~Makes(q, t) /\ ~Upping(q, t)
    BY <1>1, <1>3 DEF Makes, Upping
  <1>6. ~Waits(q, current)
    BY <1>1, <1>3 DEF Waits
  <1>7. "hold" # op /\ "load" # op /\ "store" # op
    OBVIOUS
  <1>8. Head(q) = At(Head(q).op, Head(q).x)
    BY <1>1, <1>2
  <1> QED BY <1>1, <1>3, <1>4, <1>5, <1>6, <1>7, <1>8 DEF Fresh

\* Every call the running thread may make.
LEMMA CallsFresh ==
  ASSUME Inv(todo), todo[current] = <<>>, current # idle, NEW call \in Calls
  PROVE  Fresh(call)
  <1>1. /\ current \in Thread /\ holder[tid_lock] # current
    <2>1. current \in Thread /\ LockI(todo)
      BY DEF Inv, TypeI, SchedType
    <2>2. \A o : ~Doing(todo[current], o)
      BY DEF Doing
    <2>3. \A a : ~Does(todo[current], a)
      BY DEF Does
    <2> QED BY <2>1, <2>2, <2>3 DEF LockI
  <1>2. \A q : SemaCode(q) \/ LockCode(q) \/ WaitCode(current, q) \/ SignalCode(q)
               \/ CreateCode(q) \/ OtherCode(current, q)  => Code(current, q)
    BY DEF Code
  <1>3. /\ \A s \in Semas : s \notin Locks /\ s \notin Thread
        /\ \A l \in Locks : l \notin Thread
    BY SynchAssumption
  <1>4. ASSUME NEW s \in Semas, NEW op \in {"down", "trydown", "up"}, call = <<At(op, s)>>
        PROVE  Fresh(call)
    <2>1. Code(current, call)
      BY <1>2, <1>4 DEF SemaCode
    <2>2. Splits(call, At(op, s), <<>>, {At(op, s)})
      BY <1>4, Tuple1
    <2>3. /\ \A t \in Thread : At("up", t) # At(op, s)
          /\ At("down", current) # At(op, s) /\ \A t : At("unblock", t) # At(op, s)
      BY <1>1, <1>3 DEF At
    <2>4. op \notin {"hold", "load", "store", "unhold", "enqueue", "exit"}
      OBVIOUS
    <2> QED BY <1>3, <2>1, <2>2, <2>3, <2>4, FreshBy, SMT
  <1>5. ASSUME NEW l \in Locks, l # tid_lock, NEW op \in {"down", "trydown"},
               call = <<At(op, l), At("hold", l)>>
        PROVE  Fresh(call)
    <2>1. Code(current, call)
      BY <1>2, <1>5 DEF LockCode
    <2>2. Splits(call, At(op, l), <<At("hold", l)>>, {At(op, l), At("hold", l)})
      BY <1>5, Tuple2
    <2>3. /\ \A t : At("up", t) \notin {At(op, l), At("hold", l)}
          /\ At("down", current) \notin {At(op, l), At("hold", l)}
          /\ \A t : At("unblock", t) \notin {At(op, l), At("hold", l)}
      BY <1>1, <1>3 DEF At
    <2>4. op \notin {"hold", "load", "store", "unhold", "enqueue", "exit", "up"}
      OBVIOUS
    <2> QED BY <1>3, <2>1, <2>2, <2>3, <2>4, FreshBy
  <1>6. ASSUME NEW l \in Locks, holder[l] = current, call = <<At("unhold", l), At("up", l)>>
        PROVE  Fresh(call)
    <2>0. l # tid_lock
      BY <1>1, <1>6
    <2>1. Code(current, call)
      BY <1>2, <1>6, <2>0 DEF LockCode
    <2>2. Splits(call, At("unhold", l), <<At("up", l)>>, {At("unhold", l), At("up", l)})
      BY <1>6, Tuple2
    <2>3. /\ \A t \in Thread : At("up", t) \notin {At("unhold", l), At("up", l)}
          /\ At("down", current) \notin {At("unhold", l), At("up", l)}
          /\ \A t : At("unblock", t) \notin {At("unhold", l), At("up", l)}
      BY <1>1, <1>3 DEF At
    <2> QED BY <1>6, <2>0, <2>1, <2>2, <2>3, FreshBy, SMT
  <1>7. ASSUME NEW c \in Conds, holder[LockOf[c]] = current, call = cond_wait(c)
        PROVE  Fresh(call)
    <2> DEFINE l == LockOf[c]
               r == <<At("unhold", l), At("up", l), At("down", current), At("down", l),
                 At("hold", l)>>
               S == {At("enqueue", c), At("unhold", l), At("up", l), At("down", current),
                     At("down", l), At("hold", l)}
    <2>0. l \in Locks
      BY SynchAssumption
    <2>1. Splits(call, At("enqueue", c), r, S)
      BY <1>7, WaitIs, Tuple6
    <2>2. Code(current, call)
      <3>1. WaitCode(current, call)
        BY <1>7, WaitIs DEF WaitCode
      <3> QED BY <1>2, <3>1
    <2>3. /\ \A t \in Thread : At("up", t) \notin S
          /\ \A t : At("unblock", t) \notin S
      BY <1>1, <1>3, <2>0 DEF At
    <2> HIDE DEF r, S
    <2> QED BY <1>7, <2>1, <2>2, <2>3, FreshBy, SMT
  <1>8. ASSUME NEW c \in Conds, NEW op \in {"signal", "broadcast"}, call = <<At(op, c)>>
        PROVE  Fresh(call)
    <2>1. Code(current, call)
      BY <1>2, <1>8 DEF SignalCode
    <2>2. Splits(call, At(op, c), <<>>, {At(op, c)})
      BY <1>8, Tuple1
    <2>3. /\ \A t : At("up", t) # At(op, c)
          /\ At("down", current) # At(op, c) /\ \A t : At("unblock", t) # At(op, c)
      BY DEF At
    <2>4. op \notin {"hold", "load", "store", "unhold", "enqueue", "exit", "up"}
      OBVIOUS
    <2> QED BY <2>1, <2>2, <2>3, <2>4, FreshBy, SMT
  <1>9. ASSUME NEW t \in Thread, call = thread_create(t)
        PROVE  Fresh(call)
    <2> DEFINE l == tid_lock
               r == <<At("down", l), At("hold", l), At("load", t), At("store", t),
                      At("unhold", l), At("up", l), At("unblock", t)>>
               S == {At("init", t), At("down", l), At("hold", l), At("load", t), At("store", t),
                     At("unhold", l), At("up", l), At("unblock", t)}
    <2>0. l \in Locks
      BY SynchAssumption
    <2>1. Splits(call, At("init", t), r, S)
      BY <1>9, CreateIs, Tuple8
    <2>2. Code(current, call)
      <3>1. CreateCode(call)
        BY <1>9, CreateIs DEF CreateCode
      <3> QED BY <1>2, <3>1
    <2>3. /\ \A u \in Thread : At("up", u) \notin S
          /\ At("down", current) \notin S
      BY <1>1, <1>3, <2>0 DEF At
    <2> HIDE DEF r, S
    <2> QED BY <2>1, <2>2, <2>3, FreshBy
  <1>10. ASSUME NEW op \in {"sleep", "yield", "exit"}, NEW x, call = <<At(op, x)>>,
                Code(current, call),
                op = "exit" => \A l \in Locks : holder[l] # current
         PROVE  Fresh(call)
    <2>1. Splits(call, At(op, x), <<>>, {At(op, x)})
      BY <1>10, Tuple1
    <2>2. /\ \A t : At("up", t) # At(op, x)
          /\ At("down", current) # At(op, x) /\ \A t : At("unblock", t) # At(op, x)
      BY DEF At
    <2>3. op \notin {"hold", "load", "store", "unhold", "enqueue", "up"}
      OBVIOUS
    <2> QED BY <1>10, <2>1, <2>2, <2>3, FreshBy, SMT
  <1>11. ASSUME NEW n \in 1..MaxSleep, call = <<At("sleep", n)>> PROVE Fresh(call)
    <2>1. Code(current, call)
      BY <1>2, <1>11 DEF OtherCode
    <2> QED BY <1>10, <1>11, <2>1
  <1>12. ASSUME call = <<At("yield", Null)>> PROVE Fresh(call)
    <2>1. Code(current, call)
      BY <1>2, <1>12 DEF OtherCode
    <2> QED BY <1>10, <1>12, <2>1
  <1>13. ASSUME call = <<At("exit", Null)>>, \A l \in Locks : holder[l] # current
                PROVE Fresh(call)
    <2>1. Code(current, call)
      BY <1>2, <1>13 DEF OtherCode
    <2> QED BY <1>10, <1>13, <2>1
  <1> DEFINE Downs == UNION {{<<At("down", s)>>, <<At("trydown", s)>>} : s \in Semas}
             Ups == {<<At("up", s)>> : s \in {s \in Semas : value[s] < MaxValue}}
             Acquires == UNION {{lock_acquire(l), <<At("trydown", l), At("hold", l)>>} :
                              l \in {l \in Locks \ {tid_lock} : ~lock_held(l)}}
             Releases == {lock_release(l) : l \in {l \in Locks : lock_held(l)}}
             Condition == UNION {{cond_wait(c), <<At("signal", c)>>, <<At("broadcast", c)>>} :
                              c \in {c \in Conds : lock_held(LockOf[c])}}
             Creates == {thread_create(t) : t \in {t \in Thread : status[t] = "none"
               /\ next_tid < MaxTid}}
             Sleeps == {<<At("sleep", n)>> : n \in 1..MaxSleep}
             Yields == {<<At("yield", Null)>>}
             Exits == IF \E l \in Locks : lock_held(l) THEN {} ELSE {<<At("exit", Null)>>}
  <1>14. CASE call \in Downs
    <2>1. \E s \in Semas : \E op \in {"down", "trydown", "up"} : call = <<At(op, s)>>
      BY <1>14
    <2> QED BY <1>4, <2>1
  <1>15. CASE call \in Ups
    <2>1. \E s \in Semas : call = <<At("up", s)>>
      BY <1>15
    <2> QED BY <1>4, <2>1
  <1>16. CASE call \in Acquires
    <2>1. \E l \in Locks : \E op \in {"down", "trydown"} : l # tid_lock
            /\ call = <<At(op, l), At("hold", l)>>
      BY <1>16 DEF lock_acquire
    <2> QED BY <1>5, <2>1
  <1>17. CASE call \in Releases
    <2>1. \E l \in Locks : holder[l] = current /\ call = <<At("unhold", l), At("up", l)>>
      BY <1>17 DEF lock_release, lock_held
    <2> QED BY <1>6, <2>1
  <1>18. CASE call \in Condition
    <2>1. (\E c \in Conds : holder[LockOf[c]] = current /\ call = cond_wait(c))
            \/ \E c \in Conds : \E op \in {"signal", "broadcast"} : call = <<At(op, c)>>
      BY <1>18 DEF lock_held
    <2> QED BY <1>7, <1>8, <2>1
  <1>19. CASE call \in Creates
    <2>1. \E t \in Thread : call = thread_create(t)
      BY <1>19
    <2> QED BY <1>9, <2>1
  <1>20. CASE call \in Sleeps
    <2>1. \E n \in 1..MaxSleep : call = <<At("sleep", n)>>
      BY <1>20
    <2> QED BY <1>11, <2>1
  <1>22. CASE call \in Yields
    <2>1. call = <<At("yield", Null)>>
      BY <1>22
    <2> QED BY <1>12, <2>1
  <1>21. CASE call \in Exits
    <2>1. call = <<At("exit", Null)>> /\ \A l \in Locks : holder[l] # current
      BY <1>21 DEF lock_held
    <2> QED BY <1>13, <2>1
  <1>23. Calls = Downs \cup Ups \cup Acquires \cup Releases \cup Condition \cup Creates
                  \cup Sleeps \cup Yields \cup Exits
    BY DEF Calls
  <1> HIDE DEF Downs, Ups, Acquires, Releases, Condition, Creates, Sleeps, Yields, Exits
  <1> QED BY <1>14, <1>15, <1>16, <1>17, <1>18, <1>19, <1>20, <1>21, <1>22, <1>23

-----------------------------------------------------------------------------
(* The invariant is kept.                                                  *)

\* A thread that is in no call is in the same state with a call before it.
LEMMA CallHere ==
  ASSUME Inv(todo), todo[current] = <<>>, current # idle, NEW call, Fresh(call),
         NEW td, td = [todo EXCEPT ![current] = call]
  PROVE  Here(td, Head(call).op, Head(call).x)
  <1>1. /\ TypeI /\ CodeI(todo) /\ ReadyI(todo) /\ WaitI(todo) /\ WakeI(todo) /\ DeadI(todo)
        /\ MakeI(todo) /\ LockI(todo) /\ SignalI(todo) /\ TidI(todo)
    BY DEF Inv
  <1>2. current \in Thread /\ status[current] = "running" /\ DOMAIN todo = Thread
    BY <1>1 DEF TypeI, SchedType, ReadyI, SchedOK, CodeI
  <1>3. /\ DOMAIN td = Thread /\ td[current] = call
        /\ \A t \in Thread \ {current} : td[t] = todo[t]
    BY <1>2
  <1>4. /\ \A o : ~Doing(todo[current], o)
        /\ \A a : ~Does(todo[current], a)
    BY DEF Doing, Does
  <1>5. \A a : a \notin Range(todo[current])
    BY EmptyRange
  <1>6. ~off[current]
    BY <1>1, <1>2, <1>4 DEF WaitI
  <1>7. status[current] # "blocked" /\ status[current] \notin {"none", "dying"}
    BY <1>2
  <1>8. CodeI(td)
    <2>1. \A t \in Thread : Code(t, td[t])
      <3> TAKE t \in Thread
      <3>1. CASE t = current
        BY <1>3, <3>1 DEF Fresh
      <3>2. CASE t # current
        BY <1>1, <1>3, <3>2 DEF CodeI
      <3> QED BY <3>1, <3>2
    <2> QED BY <1>3, <2>1 DEF CodeI
  <1>9. ReadyI(td)
    BY <1>1, <1>3, ThreadsAssumption DEF ReadyI
  <1>10. /\ \A t \in Thread : off[t] => t # current /\ td[t] = todo[t]
         /\ \A t \in Thread : status[t] = "blocked" => t # current /\ td[t] = todo[t]
         /\ \A t \in Thread : status[t] \in {"none", "dying"} => t # current /\ td[t] = todo[t]
    BY <1>3, <1>6, <1>7
  <1>11. WaitI(td)
    <2>1. \A t \in Thread : off[t] => Doing(td[t], "down")
      BY <1>1, <1>10 DEF WaitI
    <2>2. \A t \in Thread \ {idle} : status[t] = "blocked" /\ td[t] # <<>> => off[t]
      BY <1>1, <1>10 DEF WaitI
    <2>3. \A s \in SemaIds : \A t \in Thread :
            t \in Range(waiters[s]) <=> status[t] = "blocked" /\ Does(td[t], At("down", s))
      <3> TAKE s \in SemaIds
      <3> TAKE t \in Thread
      <3>1. t \in Range(waiters[s]) <=> status[t] = "blocked" /\ Does(todo[t], At("down", s))
        BY <1>1 DEF WaitI
      <3> QED BY <1>10, <3>1
    <2>4. \A s \in SemaIds : IsInjective(waiters[s])
      BY <1>1 DEF WaitI
    <2> QED BY <2>1, <2>2, <2>3, <2>4 DEF WaitI
  <1>12. WakeI(td)
    <2>1. \A s : WokenOn(td, s) = WokenOn(todo, s)
      BY <1>10 DEF WokenOn
    <2> QED BY <1>1, <2>1 DEF WakeI
  <1>13. DeadI(td)
    BY <1>1, <1>10 DEF DeadI
  <1>14. \A t, u \in Thread : Makes(td[u], t) <=> Makes(todo[u], t)
    <2> TAKE t, u \in Thread
    <2>1. CASE u = current
      BY <1>3, <1>5, <2>1 DEF Fresh, Makes
    <2>2. CASE u # current
      BY <1>3, <2>2
    <2> QED BY <2>1, <2>2
  <1>15. MakeI(td)
    <2>1. \A t, u \in Thread : Makes(td[u], t) => status[t] = "blocked" /\ td[t] = <<>>
      BY <1>1, <1>10, <1>14 DEF MakeI
    <2>2. \A t, u, v \in Thread : Makes(td[u], t) /\ Makes(td[v], t) => u = v
      BY <1>1, <1>14 DEF MakeI
    <2>3. \A t \in Thread : status[t] = "blocked" /\ td[t] = <<>>
            => \E u \in Thread : Makes(td[u], t)
      BY <1>1, <1>10, <1>14 DEF MakeI
    <2> QED BY <2>1, <2>2, <2>3 DEF MakeI
  <1>16. LockI(td)
    <2>1. \A l \in Locks : \A t \in Thread : Owner(td, t, l) <=> Owner(todo, t, l)
      <3> TAKE l \in Locks
      <3> TAKE t \in Thread
      <3>1. CASE t = current
        BY <1>3, <1>4, <3>1 DEF Owner, Fresh
      <3>2. CASE t # current
        BY <1>3, <3>2 DEF Owner
      <3> QED BY <3>1, <3>2
    <2>2. \A l \in Locks : OneOwner(td, l)
      <3> TAKE l \in Locks
      <3>1. OneOwner(todo, l)
        BY <1>1 DEF LockI
      <3>2. CASE value[l] = 1 /\ \A t \in Thread : ~Owner(todo, t, l)
        BY <2>1, <3>2 DEF OneOwner
      <3>3. CASE value[l] = 0 /\ \E o \in Thread : \A t \in Thread : Owner(todo, t, l) <=> t = o
        <4>1. PICK o \in Thread : \A t \in Thread : Owner(todo, t, l) <=> t = o
          BY <3>3
        <4>2. \A t \in Thread : Owner(td, t, l) <=> t = o
          BY <2>1, <4>1
        <4> QED BY <3>3, <4>2 DEF OneOwner
      <3> QED BY <3>1, <3>2, <3>3 DEF OneOwner
    <2>3. ASSUME NEW t \in Thread
          PROVE  /\ \A l \in Locks : /\ Does(td[t], At("unhold", l)) => holder[l] = t
                                     /\ Does(td[t], At("up", l)) => holder[l] # t
                 /\ \A c \in Conds : Does(td[t], At("enqueue", c)) => holder[LockOf[c]] = t
                 /\ holder[tid_lock] = t <=> \/ Doing(td[t], "load") \/ Doing(td[t], "store")
                                             \/ Does(td[t], At("unhold", tid_lock))
                 /\ Doing(td[t], "exit") => \A l \in Locks : holder[l] # t
      <3>1. CASE t = current
        <4>1. holder[tid_lock] # current
          BY <1>1, <1>2, <1>4 DEF LockI
        <4>2. ~Does(call, At("unhold", tid_lock))
          BY SynchAssumption DEF Fresh
        <4> QED BY <1>3, <3>1, <4>1, <4>2 DEF Fresh
      <3>2. CASE t # current
        BY <1>1, <1>3, <3>2 DEF LockI
      <3> QED BY <3>1, <3>2
    <2> QED BY <2>2, <2>3 DEF LockI
  <1>17. \A t, u \in Thread : Upping(td[u], t) <=> Upping(todo[u], t)
    <2> TAKE t, u \in Thread
    <2>1. CASE u = current
      BY <1>3, <1>5, <2>1 DEF Fresh, Upping
    <2>2. CASE u # current
      BY <1>3, <2>2
    <2> QED BY <2>1, <2>2
  <1>18. \A t \in Thread : Waits(td[t], t) <=> Waits(todo[t], t)
    <2> TAKE t \in Thread
    <2>1. CASE t = current
      BY <1>3, <1>5, <2>1 DEF Fresh, Waits
    <2>2. CASE t # current
      BY <1>3, <2>2
    <2> QED BY <2>1, <2>2
  <1>19. SignalI(td)
    <2>1. ASSUME NEW t \in Thread \ {idle}
          PROVE
       \/ /\ Waits(td[t], t) /\ value[t] = 0
          /\ \A u \in Thread : ~Upping(td[u], t)
          /\ \E c \in Conds : \A d \in Conds : Listed(t, d) <=> d = c
       \/ /\ Waits(td[t], t) /\ value[t] = 0
          /\ \E v \in Thread : \A u \in Thread : Upping(td[u], t) <=> u = v
          /\ \A c \in Conds : ~Listed(t, c)
       \/ /\ value[t] = IF Waits(td[t], t) THEN 1 ELSE 0
          /\ \A u \in Thread : ~Upping(td[u], t)
          /\ \A c \in Conds : ~Listed(t, c)
      <3>1. CASE /\ Waits(todo[t], t) /\ value[t] = 0
                 /\ \A u \in Thread : ~Upping(todo[u], t)
                 /\ \E c \in Conds : \A d \in Conds : Listed(t, d) <=> d = c
        BY <1>17, <1>18, <3>1
      <3>2. CASE /\ Waits(todo[t], t) /\ value[t] = 0
                 /\ \E v \in Thread : \A u \in Thread : Upping(todo[u], t) <=> u = v
                 /\ \A c \in Conds : ~Listed(t, c)
        <4>1. PICK v \in Thread : \A u \in Thread : Upping(todo[u], t) <=> u = v
          BY <3>2
        <4>2. \A u \in Thread : Upping(td[u], t) <=> u = v
          BY <1>17, <4>1
        <4> QED BY <1>18, <3>2, <4>2
      <3>3. CASE /\ value[t] = IF Waits(todo[t], t) THEN 1 ELSE 0
                 /\ \A u \in Thread : ~Upping(todo[u], t)
                 /\ \A c \in Conds : ~Listed(t, c)
        <4>1. value[t] = IF Waits(td[t], t) THEN 1 ELSE 0
          BY <1>18, <3>3
        <4> QED BY <1>17, <3>3, <4>1
      <3> QED BY <1>1, <3>1, <3>2, <3>3 DEF SignalI
    <2> QED BY <1>1, <2>1 DEF SignalI
  <1>20. TidI(td)
    <2>1. \A u \in Thread : \A t : Does(td[u], At("store", t)) <=> Does(todo[u], At("store", t))
      <3> TAKE u \in Thread
      <3> TAKE t
      <3>1. CASE u = current
        <4>1. ~Does(call, At("store", t))
          BY HeadOps DEF Fresh
        <4> QED BY <1>3, <1>4, <3>1, <4>1
      <3>2. CASE u # current
        BY <1>3, <3>2
      <3> QED BY <3>1, <3>2
    <2> QED BY <1>1, <2>1 DEF TidI
  <1>21. Inv(td)
    BY <1>1, <1>8, <1>9, <1>11, <1>12, <1>13, <1>15, <1>16, <1>19, <1>20 DEF Inv
  <1>22. call # <<>> /\ Head(call) = At(Head(call).op, Head(call).x)
    BY DEF Fresh
  <1> QED BY <1>2, <1>3, <1>21, <1>22 DEF Here

\* Every step of a call keeps the invariant.
LEMMA StepKeeps ==
  ASSUME ThreadSets, NEW td, NEW op, NEW x, Here(td, op, x), Step(At(op, x), Tail(td[current]))
  PROVE  Inv(todo)'
  <1> DEFINE r == Tail(td[current])
  <1>1. At(op, x).op = op /\ At(op, x).x = x
    BY DEF At
  <1>2. CASE op = "down" /\ sema_down(x, r)
    BY <1>2, DownStep
  <1>3. CASE op = "trydown" /\ sema_try_down(x, r)
    BY <1>3, TryDownStep
  <1>4. CASE op = "up" /\ sema_up(x) /\ Then(r)
    BY <1>4, UpStep
  <1>5. CASE op = "hold" /\ set_holder(x, current, r)
    BY <1>5, HoldStep
  <1>6. CASE op = "unhold" /\ set_holder(x, Null, r)
    BY <1>6, UnholdStep
  <1>7. CASE op = "enqueue" /\ enqueue(x, r)
    BY <1>7, EnqueueStep
  <1>8. CASE op = "signal" /\ cond_signal(x, r)
    <2>1. Follows(current, op, x, r)
      BY HereFacts
    <2>2. r = <<>>
      BY <1>1, <1>8, <2>1 DEF Follows
    <2>3. op \in {"signal", "broadcast"} /\ <<>> \in {<<>>, <<At("broadcast", x)>>}
      BY <1>8
    <2> QED BY <1>8, <2>2, <2>3, SignalStep
  <1>9. CASE op = "broadcast" /\ cond_broadcast(x, r)
    <2>1. Follows(current, op, x, r) /\ <<At(op, x)>> \o r = td[current]
      BY HereFacts
    <2>2. r = <<>>
      BY <1>1, <1>9, <2>1 DEF Follows
    <2>3. <<At("broadcast", x)>> \o r = <<At("broadcast", x)>>
      <3>1. \A a : <<a>> \o <<>> = <<a>>
        BY Joins
      <3> QED BY <2>2, <3>1
    <2> DEFINE rest == IF cond[x] = <<>> THEN <<>> ELSE <<At("broadcast", x)>>
    <2>4. /\ op \in {"signal", "broadcast"} /\ rest \in {<<>>, <<At("broadcast", x)>>}
          /\ cond[x] = <<>> => rest = <<>>
      BY <1>9
    <2>5. cond_signal(x, rest)
      BY <1>9, <2>2, <2>3 DEF cond_broadcast
    <2> HIDE DEF rest
    <2> QED BY <2>4, <2>5, SignalStep
  <1>10. CASE op = "init" /\ create(x, r)
    BY <1>10, InitStep
  <1>11. CASE op = "load" /\ load_tid(x, r)
    BY <1>11, LoadStep
  <1>12. CASE op = "store" /\ store_tid(x, r)
    BY <1>12, StoreStep
  <1>13. CASE op = "unblock" /\ unblock(x, r)
    BY <1>13, UnblockStep
  <1>14. CASE \/ op = "yield" /\ yield(r)
              \/ op = "sleep" /\ timer_sleep(x, r)
    <2>1. op \in {"yield", "sleep"}
      BY <1>14
    <2> QED BY <1>14, <2>1, SleepStep
  <1>15. CASE op = "exit" /\ exit
    BY <1>15, ExitStep
  <1>16. CASE op = "idle" /\ idle_init(r)
    BY <1>16, IdleStep
  <1>17. CASE op = "block" /\ idle_block
    BY <1>17, BlockStep
  <1> QED BY <1>1, <1>2, <1>3, <1>4, <1>5, <1>6, <1>7, <1>8, <1>9, <1>10, <1>11, <1>12, <1>13,
             <1>14,
             <1>15, <1>16, <1>17 DEF Step

\* Every step of the system keeps the invariant.
LEMMA NextKeeps ==
  ASSUME ThreadSets, Inv(todo), Next
  PROVE  Inv(todo)'
  <1>1. CASE Continue
    <2>1. current \in Thread /\ DOMAIN todo = Thread /\ Code(current, todo[current])
      BY DEF Inv, TypeI, SchedType, CodeI
    <2>2. todo[current] # <<>> /\ Step(Head(todo[current]), Tail(todo[current]))
      BY <1>1 DEF Continue
    <2>3. Head(todo[current]) = At(Head(todo[current]).op, Head(todo[current]).x)
      BY <2>1, <2>2, CodeFits DEF Fits
    <2>4. Here(todo, Head(todo[current]).op, Head(todo[current]).x)
      BY <2>1, <2>2, <2>3 DEF Here
    <2>5. Step(At(Head(todo[current]).op, Head(todo[current]).x), Tail(todo[current]))
      BY <2>2, <2>3
    <2> QED BY <2>4, <2>5, StepKeeps
  <1>2. CASE Call
    <2>1. PICK call \in Calls : Step(Head(call), Tail(call))
      BY <1>2 DEF Call
    <2>2. todo[current] = <<>> /\ current # idle
      BY <1>2 DEF Call
    <2>3. Fresh(call)
      BY <2>2, CallsFresh
    <2>4. Head(call) = At(Head(call).op, Head(call).x)
      BY <2>3 DEF Fresh
    <2> DEFINE td == [todo EXCEPT ![current] = call]
    <2>5. td[current] = call
      <3>1. current \in Thread /\ DOMAIN todo = Thread
        BY DEF Inv, TypeI, SchedType, CodeI
      <3> QED BY <3>1
    <2>6. Here(td, Head(call).op, Head(call).x)
      BY <2>2, <2>3, CallHere
    <2>7. Step(At(Head(call).op, Head(call).x), Tail(td[current]))
      BY <2>1, <2>4, <2>5
    <2> HIDE DEF td
    <2> QED BY <2>6, <2>7, StepKeeps
  <1>3. CASE timer_interrupt
    BY <1>3, TimerStep
  <1>4. CASE \E s \in Semas : device_interrupt(s)
    BY <1>4, DeviceStep
  <1> QED BY <1>1, <1>2, <1>3, <1>4 DEF Next

\* The state after thread_start's thread_create of the idle thread.
LEMMA InitInv ==
  ASSUME Init
  PROVE  Inv(todo)
  <1> USE DEF Init
  <1>1. /\ main \in Thread /\ idle \in Thread /\ main # idle /\ Null \notin Thread
        /\ tid_lock \in Locks /\ \A l \in Locks : l \notin Thread
    BY ThreadsAssumption, SynchAssumption
  <1>2. /\ status[main] = "running" /\ status[idle] = "ready"
        /\ \A t \in Thread : t # main /\ t # idle => status[t] = "none"
        /\ status \in [Thread -> Statuses]
    BY <1>1 DEF Statuses
  <1>3. \A t \in Thread : status[t] # "blocked" /\ status[t] # "dying"
    BY <1>2
  <1>4. /\ todo[main] = <<At("down", idle)>> /\ todo[idle] = idle_func
        /\ \A t \in Thread : t # main /\ t # idle => todo[t] = <<>>
        /\ DOMAIN todo = Thread
    BY <1>1
  <1>5. /\ Splits(todo[main], At("down", idle), <<>>, {At("down", idle)})
        /\ Splits(todo[idle], At("idle", Null), <<At("up", idle), At("block", Null)>>,
                  {At("idle", Null), At("up", idle), At("block", Null)})
        /\ \A t \in Thread : t # main /\ t # idle => Range(todo[t]) = {}
    <2>1. Splits(<<At("down", idle)>>, At("down", idle), <<>>, {At("down", idle)})
      BY Tuple1
    <2>2. Splits(<<At("idle", Null), At("up", idle), At("block", Null)>>, At("idle", Null),
                 <<At("up", idle), At("block", Null)>>,
                   {At("idle", Null), At("up", idle), At("block", Null)})
      BY Tuple3
    <2>3. Splits(todo[idle], At("idle", Null), <<At("up", idle), At("block", Null)>>,
                 {At("idle", Null), At("up", idle), At("block", Null)})
      BY <1>4, <2>2 DEF idle_func
    <2> HIDE DEF Init
    <2> QED BY <1>4, <2>1, <2>3, EmptyRange
  <1> HIDE DEF Init
  <1>6. /\ \A o : Doing(todo[main], o) <=> o = "down"
        /\ \A o : Doing(todo[idle], o) <=> o = "idle"
        /\ \A t \in Thread : t # main /\ t # idle => \A o : ~Doing(todo[t], o)
    <2>1. At("down", idle).op = "down" /\ At("idle", Null).op = "idle"
      BY DEF At
    <2> QED BY <1>4, <1>5, <2>1 DEF Splits, Doing
  <1>7. \A t \in Thread : \A o : Doing(todo[t], o) => o \in {"down", "idle"}
    <2> TAKE t \in Thread
    <2> TAKE o
    <2>1. CASE t = main \/ t = idle
      BY <1>6, <2>1
    <2>2. CASE t # main /\ t # idle
      BY <1>6, <2>2
    <2> QED BY <2>1, <2>2
  <1>8. \A t \in Thread : \A o, y : Does(todo[t], At(o, y)) => o \in {"down", "idle"}
    BY <1>7, HeadOps
  <1>9. \A t \in Thread : Range(todo[t]) \subseteq
            {At("down", idle), At("idle", Null), At("up", idle), At("block", Null)}
    <2> TAKE t \in Thread
    <2>1. CASE t = main
      BY <1>5, <2>1 DEF Splits
    <2>2. CASE t = idle
      BY <1>5, <2>2 DEF Splits
    <2>3. CASE t # main /\ t # idle
      BY <1>5, <2>3
    <2> QED BY <2>1, <2>2, <2>3
  <1>10. /\ \A t \in Thread : \A y : At("unblock", y) \notin Range(todo[t])
         /\ \A t \in Thread : \A y : At("up", y) \in Range(todo[t]) => y = idle
         /\ \A t \in Thread : \A y : At("down", y) \in Range(todo[t]) => y = idle
    BY <1>9 DEF At
  <1>11. TypeI
    <2>1. SchedType
      <3>1. ready_list \in Seq(Thread)
        BY <1>1, SMT DEF Init
      <3>2. thread_ticks \in 0..TIME_SLICE - 1
        BY ThreadsAssumption, SMT DEF Init
      <3> QED BY <1>1, <1>2, <3>1, <3>2 DEF SchedType, Init
    <2>2. /\ value \in [SemaIds -> Nat] /\ tid \in [Thread -> Nat] /\ next_tid \in Nat
          /\ elapsed \in [Thread -> 0..MaxSleep] /\ off \in [Thread -> BOOLEAN]
          /\ all_list \subseteq Thread /\ holder \in [Locks -> Thread \cup {Null}]
      BY <1>1, SynchAssumption, SMT DEF Init
    <2>3. waiters \in [SemaIds -> Seq(Thread)] /\ cond \in [Conds -> Seq(Thread)]
      <3>1. <<>> \in Seq(Thread)
        BY SMT
      <3> QED BY <3>1 DEF Init
    <2> QED BY <2>1, <2>2, <2>3 DEF TypeI
  <1>12. CodeI(todo)
    <2>1. ASSUME NEW t \in Thread PROVE Code(t, todo[t])
      <3>1. CASE t = main
        BY <1>1, <1>4, <3>1 DEF Code, OtherCode
      <3>2. CASE t = idle
        BY <1>4, <3>2 DEF Code, IdleCode, idle_func
      <3>3. CASE t # main /\ t # idle
        BY <1>4, <3>3 DEF Code
      <3> QED BY <3>1, <3>2, <3>3
    <2> QED BY <1>4, <2>1 DEF CodeI
  <1>13. ReadyI(todo)
    <2>1. ready_list = <<idle>> /\ current = main /\ idle_thread = Null
      BY DEF Init
    <2>2. IsInjective(ready_list) /\ Range(ready_list) = {idle}
      <3>1. IsInjective(<<idle>>)
        BY SMT DEF IsInjective
      <3>2. Range(<<idle>>) = {idle}
        BY Tuple1 DEF Splits
      <3> QED BY <2>1, <3>1, <3>2
    <2>3. \A t \in Thread : status[t] = "running" <=> t = current
      BY <1>1, <1>2, <2>1
    <2>4. \A t \in Thread : t \in Range(ready_list) <=> status[t] = "ready" /\ t # idle_thread
      BY <1>1, <1>2, <2>1, <2>2
    <2>5. status[idle] \notin {"none", "dying"} /\ status[idle] # "blocked"
      BY <1>2
    <2> QED BY <1>6, <2>2, <2>3, <2>4, <2>5 DEF ReadyI, SchedOK
  <1>14. \A s \in SemaIds : waiters[s] = <<>>
    BY DEF Init
  <1>15. WaitI(todo)
    <2>1. \A t \in Thread : ~off[t]
      BY DEF Init
    <2>2. IsInjective(<<>>)
      BY SMT DEF IsInjective
    <2>3. \A s \in SemaIds : IsInjective(waiters[s]) /\ Range(waiters[s]) = {}
      BY <1>14, <2>2, EmptyRange
    <2> QED BY <1>3, <2>1, <2>3 DEF WaitI
  <1>16. WakeI(todo)
    BY <1>14 DEF WakeI
  <1>17. /\ \A l \in Locks : \A t \in Thread : holder[l] # t
         /\ \A l \in Locks : value[l] = 1
    <2>1. \A l \in Locks : holder[l] = Null
      BY DEF Init
    <2>2. \A l \in Locks : value[l] = 1
      BY DEF Init, SemaIds
    <2> QED BY <1>1, <2>1, <2>2
  <1>18. DeadI(todo)
    <2>1. all_list = {main, idle}
      BY DEF Init
    <2>2. \A t \in Thread : status[t] \in {"none", "dying"} => t # main /\ t # idle
      BY <1>2
    <2> QED BY <1>4, <1>17, <2>1, <2>2 DEF DeadI
  <1>19. MakeI(todo)
    BY <1>3, <1>10 DEF MakeI, Makes
  <1>20. LockI(todo)
    <2>1. \A o \in {"hold", "up", "unhold", "enqueue"} : \A t \in Thread : \A y : ~Does(todo[t],
            At(o, y))
      <3>1. \A o \in {"hold", "up", "unhold", "enqueue"} : o \notin {"down", "idle"}
        OBVIOUS
      <3> QED BY <1>8, <3>1
    <2>2. \A o \in {"load", "store", "exit"} : \A t \in Thread : ~Doing(todo[t], o)
      <3>1. \A o \in {"load", "store", "exit"} : o \notin {"down", "idle"}
        OBVIOUS
      <3> QED BY <1>7, <3>1
    <2>3. \A l \in Locks : OneOwner(todo, l)
      BY <1>17, <2>1 DEF OneOwner, Owner
    <2> QED BY <1>1, <1>17, <2>1, <2>2, <2>3 DEF LockI
  <1>21. SignalI(todo)
    <2>1. \A c \in Conds : cond[c] = <<>>
      BY DEF Init
    <2>2. IsInjective(<<>>)
      BY SMT DEF IsInjective
    <2>3. \A c \in Conds : IsInjective(cond[c]) /\ \A t : ~Listed(t, c)
      BY <2>1, <2>2, EmptyRange DEF Listed
    <2>4. ASSUME NEW t \in Thread \ {idle}
          PROVE  ~Waits(todo[t], t) /\ \A u \in Thread : ~Upping(todo[u], t)
      BY <1>10 DEF Waits, Upping
    <2>5. \A t \in Thread : value[t] = 0
      BY <1>1 DEF Init, SemaIds
    <2> QED BY <2>3, <2>4, <2>5 DEF SignalI
  <1>22. TidI(todo)
    <2>1. \A t, u \in Thread : ~Does(todo[u], At("store", t))
      <3>1. "store" \notin {"down", "idle"}
        OBVIOUS
      <3> QED BY <1>8, <3>1
    <2>2. /\ tid[main] = 1 /\ tid[idle] = 2 /\ next_tid = 3
          /\ \A t \in Thread : t # main /\ t # idle => tid[t] = 0
      BY <1>1 DEF Init
    <2>3. /\ \A t \in Thread : tid[t] < next_tid
          /\ next_tid > 0
      BY <2>2, SMT
    <2>4. TidsUnique
      BY <1>1, <2>2, SMT DEF TidsUnique
    <2> QED BY <2>1, <2>3, <2>4 DEF TidI
  <1> QED BY <1>11, <1>12, <1>13, <1>15, <1>16, <1>18, <1>19, <1>20, <1>21, <1>22 DEF Inv

\* A step that changes nothing keeps it too.
LEMMA Stutter ==
  ASSUME Inv(todo), UNCHANGED vars
  PROVE  Inv(todo)'
  <1>1. /\ status' = status /\ ready_list' = ready_list /\ current' = current
        /\ thread_ticks' = thread_ticks /\ all_list' = all_list /\ idle_thread' = idle_thread
        /\ todo' = todo /\ off' = off /\ value' = value /\ waiters' = waiters
             /\ holder' = holder
        /\ cond' = cond /\ tid' = tid /\ next_tid' = next_tid /\ elapsed' = elapsed
    BY DEF vars, threadVars, sched, semaVars, tidVars
  <1>2. TypeI'
    BY <1>1 DEF Inv, TypeI, SchedType
  <1>3. CodeI(todo)' /\ ReadyI(todo)' /\ DeadI(todo)' /\ MakeI(todo)'
    BY <1>1 DEF Inv, CodeI, ReadyI, SchedOK, DeadI, MakeI
  <1>4. WaitI(todo)' /\ WakeI(todo)'
    BY <1>1 DEF Inv, WaitI, WakeI, WokenOn
  <1>5. LockI(todo)'
    <2>1. LockI(todo) /\ \A l \in Locks : OneOwner(todo, l)'
      <3>1. LockI(todo)
        BY DEF Inv
      <3>2. \A l \in Locks : OneOwner(todo, l)
        BY <3>1 DEF LockI
      <3> QED BY <1>1, <3>1, <3>2 DEF OneOwner, Owner
    <2> QED BY <1>1, <2>1 DEF LockI
  <1>6. SignalI(todo)'
    BY <1>1 DEF Inv, SignalI, Listed
  <1>7. TidI(todo)'
    BY <1>1 DEF Inv, TidI, TidsUnique
  <1> QED BY <1>2, <1>3, <1>4, <1>5, <1>6, <1>7 DEF Inv

-----------------------------------------------------------------------------
(* What the invariant says. *)

\* sema_up and sema_down: no wakeup is lost.
LEMMA InvWakeups ==
  ASSUME Inv(todo)
  PROVE  NoLostWakeup
  <1>1. WaitI(todo) /\ WakeI(todo)
    BY DEF Inv
  <1>2. ASSUME NEW s PROVE Woken(s) = WokenOn(todo, s)
    <2>1. \A t \in Thread : off[t] => todo[t] # <<>>
      BY <1>1 DEF WaitI, Doing
    <2> QED BY <2>1 DEF Woken, WokenOn, Does
  <1> QED BY <1>1, <1>2 DEF NoLostWakeup, WakeI

\* A lock is free or has one owner.
LEMMA InvLocks ==
  ASSUME ThreadSets, Inv(todo)
  PROVE  LockExclusive
  <1> SUFFICES ASSUME NEW l \in Locks
               PROVE  value[l] + Cardinality({t \in Thread : Owns(t, l)}) = 1
    BY DEF LockExclusive
  <1>1. OneOwner(todo, l)
    BY DEF Inv, LockI
  <1>2. \A t : Owns(t, l) <=> Owner(todo, t, l)
    BY DEF Owns, Owner, Does
  <1>3. CASE value[l] = 1 /\ \A t \in Thread : ~Owner(todo, t, l)
    <2>1. {t \in Thread : Owns(t, l)} = {}
      BY <1>2, <1>3
    <2>2. Cardinality({}) = 0
      BY DEF ThreadSets
    <2> QED BY <1>3, <2>1, <2>2, SMT
  <1>4. CASE value[l] = 0 /\ \E o \in Thread : \A t \in Thread : Owner(todo, t, l) <=> t = o
    <2>1. PICK o \in Thread : \A t \in Thread : Owner(todo, t, l) <=> t = o
      BY <1>4
    <2>2. {t \in Thread : Owns(t, l)} = {o}
      BY <1>2, <2>1
    <2>3. Cardinality({o}) = 1
      BY DEF ThreadSets
    <2> QED BY <1>4, <2>2, <2>3, SMT
  <1> QED BY <1>1, <1>3, <1>4 DEF OneOwner

\* cond_signal reaches every waiter in the list, once.
LEMMA InvSignals ==
  ASSUME ThreadSets, Inv(todo), \A c : Cardinality({c}) = 1
  PROVE  NoLostSignal
  <1> SUFFICES ASSUME NEW t \in Thread \ {idle}
               PROVE  LET listed == {c \in Conds : \E i \in DOMAIN cond[c] : cond[c][i] = t}
                          upping == {u \in Thread : At("up", t) \in Steps(u)}
                      IN  /\ \A c \in listed : IsInjective(cond[c])
                          /\ Cardinality(listed) + Cardinality(upping) + value[t]
                               = IF At("down", t) \in Steps(t)
                                 THEN IF Head(todo[t]).op = "enqueue" THEN 0 ELSE 1
                                 ELSE 0
    BY DEF NoLostSignal
  <1> DEFINE listed == {c \in Conds : \E i \in DOMAIN cond[c] : cond[c][i] = t}
             upping == {u \in Thread : At("up", t) \in Steps(u)}
             expected == IF At("down", t) \in Steps(t)
                         THEN IF Head(todo[t]).op = "enqueue" THEN 0 ELSE 1
                         ELSE 0
  <1>1. SignalI(todo)
    BY DEF Inv
  <1>2. \A c \in listed : IsInjective(cond[c])
    BY <1>1 DEF SignalI
  <1>3. \A c \in Conds : c \in listed <=> Listed(t, c)
    BY DEF Listed, Range
  <1>4. \A u \in Thread : u \in upping <=> Upping(todo[u], t)
    BY DEF Upping, Steps
  <1>5. expected = IF Waits(todo[t], t) THEN 1 ELSE 0
    <2>1. At("down", t) \in Steps(t) => todo[t] # <<>>
      BY EmptyRange DEF Steps
    <2> QED BY <2>1 DEF Waits, Doing, Steps
  <1>6. listed \subseteq Conds /\ upping \subseteq Thread
    OBVIOUS
  <1> HIDE DEF listed, upping, expected
  <1>7. Cardinality({}) = 0
    BY DEF ThreadSets
  <1>8. CASE /\ Waits(todo[t], t) /\ value[t] = 0
             /\ \A u \in Thread : ~Upping(todo[u], t)
             /\ \E c \in Conds : \A d \in Conds : Listed(t, d) <=> d = c
    <2>1. PICK c \in Conds : \A d \in Conds : Listed(t, d) <=> d = c
      BY <1>8
    <2>2. listed = {c}
      BY <1>3, <1>6, <2>1
    <2>3. upping = {}
      BY <1>4, <1>6, <1>8
    <2>4. Cardinality(listed) + Cardinality(upping) + value[t] = expected
      BY <1>5, <1>7, <1>8, <2>2, <2>3, SMT
    <2> QED BY <1>2, <2>4 DEF listed, upping, expected
  <1>9. CASE /\ Waits(todo[t], t) /\ value[t] = 0
             /\ \E v \in Thread : \A u \in Thread : Upping(todo[u], t) <=> u = v
             /\ \A c \in Conds : ~Listed(t, c)
    <2>1. PICK v \in Thread : \A u \in Thread : Upping(todo[u], t) <=> u = v
      BY <1>9
    <2>2. upping = {v}
      BY <1>4, <1>6, <2>1
    <2>3. listed = {}
      BY <1>3, <1>6, <1>9
    <2>4. Cardinality(listed) + Cardinality(upping) + value[t] = expected
      BY <1>5, <1>7, <1>9, <2>2, <2>3, SMT
    <2> QED BY <1>2, <2>4 DEF listed, upping, expected
  <1>10. CASE /\ value[t] = IF Waits(todo[t], t) THEN 1 ELSE 0
              /\ \A u \in Thread : ~Upping(todo[u], t)
              /\ \A c \in Conds : ~Listed(t, c)
    <2>1. upping = {} /\ listed = {}
      BY <1>3, <1>4, <1>6, <1>10
    <2>2. Cardinality(listed) + Cardinality(upping) + value[t] = expected
      BY <1>5, <1>7, <1>10, <2>1, SMT
    <2> QED BY <1>2, <2>2 DEF listed, upping, expected
  <1> QED BY <1>1, <1>8, <1>9, <1>10 DEF SignalI

\* The lists of the scheduler and of the semaphores, and the tids.
LEMMA InvThreads ==
  ASSUME Inv(todo)
  PROVE  ThreadsAccounted
  <1>1. /\ TypeI /\ ReadyI(todo) /\ SchedOK /\ WaitI(todo) /\ DeadI(todo) /\ MakeI(todo)
        /\ SignalI(todo) /\ TidI(todo)
    BY DEF Inv, ReadyI
  <1>2. /\ current \in Thread /\ idle_thread \in {Null, idle} /\ idle \in Thread
        /\ \A t \in Range(ready_list) : t \in Thread
        /\ \A s \in SemaIds : \A t \in Range(waiters[s]) : t \in Thread
    <2>1. ready_list \in Seq(Thread) /\ \A s \in SemaIds : waiters[s] \in Seq(Thread)
      BY <1>1 DEF TypeI, SchedType
    <2>2. \A q \in Seq(Thread) : \A t \in Range(q) : t \in Thread
      BY RangeOfSeq
    <2> QED BY <1>1, <2>1, <2>2, ThreadsAssumption DEF TypeI, SchedType
  <1>3. TypeOK
    <2>1. /\ DOMAIN value = SemaIds /\ \A s \in SemaIds : value[s] \in Nat
          /\ DOMAIN waiters = SemaIds /\ DOMAIN cond = Conds
      BY <1>1 DEF TypeI
    <2> QED BY <1>1, <2>1 DEF TypeI, SchedType, TypeOK
  <1>4. ElemInOneList
    <2>1. {t \in Thread : status[t] = "running"} = {current}
      BY <1>1, <1>2 DEF SchedOK
    <2>2. Range(ready_list) = {t \in Thread : status[t] = "ready"} \ {idle_thread}
      BY <1>1, <1>2 DEF SchedOK
    <2>3. ASSUME NEW s \in SemaIds
          PROVE  /\ IsInjective(waiters[s])
                 /\ Range(waiters[s]) = {t \in Thread : /\ status[t] = "blocked"
                                                       /\ todo[t] # <<>>
                                                       /\ Head(todo[t]) = At("down", s)}
      BY <1>1, <1>2 DEF WaitI, Does
    <2>4. \A t \in Thread : status[t] = "blocked" /\ t # idle_thread /\ todo[t] = <<>> =>
                              \E u \in Thread : At("unblock", t) \in Steps(u)
      BY <1>1 DEF MakeI, Makes, Steps
    <2> QED BY <1>1, <2>1, <2>2, <2>3, <2>4 DEF ElemInOneList, SchedOK
  <1>5. NothingDangling
    <2> SUFFICES ASSUME NEW t \in Thread, status[t] \in {"none", "dying"}
                 PROVE  /\ t # current /\ t \notin Range(ready_list) \cup all_list
                        /\ \A s \in SemaIds : t \notin Range(waiters[s])
                        /\ \A c \in Conds : t \notin Range(cond[c])
                        /\ \A l \in Locks : holder[l] # t
      BY DEF NothingDangling
    <2>1. status[t] # "running" /\ status[t] # "ready" /\ status[t] # "blocked"
      OBVIOUS
    <2>2. todo[t] = <<>> /\ t \notin all_list /\ \A l \in Locks : holder[l] # t
      BY <1>1 DEF DeadI
    <2>3. ~Waits(todo[t], t)
      BY <2>2, EmptyRange DEF Waits
    <2>4. t # idle
      BY <1>1 DEF SchedOK
    <2>5. \A c \in Conds : t \notin Range(cond[c])
      BY <1>1, <2>3, <2>4 DEF SignalI, Listed
    <2> QED BY <1>1, <2>1, <2>2, <2>5 DEF SchedOK, WaitI
  <1> QED BY <1>1, <1>3, <1>4, <1>5 DEF ThreadsAccounted, TidI

-----------------------------------------------------------------------------
(* timer_sleep, and the theorems.                                          *)

\* A step only changes what the running thread has to do.
LEMMA StepMoves ==
  ASSUME NEW a, NEW r, Step(a, r)
  PROVE  \E p : Then(p)
  <1>1. CASE a.op = "down" /\ sema_down(a.x, r)
    BY <1>1 DEF sema_down
  <1>2. CASE a.op = "trydown" /\ sema_try_down(a.x, r)
    BY <1>2 DEF sema_try_down
  <1>3. CASE a.op = "up" /\ sema_up(a.x) /\ Then(r)
    BY <1>3
  <1>4. CASE \/ a.op = "hold" /\ set_holder(a.x, current, r)
             \/ a.op = "unhold" /\ set_holder(a.x, Null, r)
    BY <1>4 DEF set_holder
  <1>5. CASE a.op = "enqueue" /\ enqueue(a.x, r)
    BY <1>5 DEF enqueue
  <1>6. CASE \/ a.op = "signal" /\ cond_signal(a.x, r)
             \/ a.op = "broadcast" /\ cond_broadcast(a.x, r)
    <2>1. PICK rest : cond_signal(a.x, rest)
      BY <1>6 DEF cond_broadcast
    <2> QED BY <2>1 DEF cond_signal
  <1>7. CASE \/ a.op = "init" /\ create(a.x, r)
             \/ a.op = "load" /\ load_tid(a.x, r)
             \/ a.op = "store" /\ store_tid(a.x, r)
             \/ a.op = "unblock" /\ unblock(a.x, r)
    BY <1>7 DEF create, load_tid, store_tid, unblock
  <1>8. CASE \/ a.op = "yield" /\ yield(r)
             \/ a.op = "sleep" /\ timer_sleep(a.x, r)
    BY <1>8 DEF yield, timer_sleep
  <1>9. CASE \/ a.op = "exit" /\ exit
             \/ a.op = "idle" /\ idle_init(r)
             \/ a.op = "block" /\ idle_block
    BY <1>9 DEF exit, idle_init, idle_block
  <1> QED BY <1>1, <1>2, <1>3, <1>4, <1>5, <1>6, <1>7, <1>8, <1>9 DEF Step

\* timer_sleep goes round its loop until the ticks have passed.
LEMMA SleepKept ==
  ASSUME Inv(todo), [Next]_vars, NEW t \in Thread, At_sleep(t), todo'[t] # todo[t]
  PROVE  elapsed[t] >= Head(todo[t]).x
  <1>1. current \in Thread /\ DOMAIN todo = Thread /\ Code(current, todo[current])
    BY DEF Inv, TypeI, SchedType, CodeI
  <1>2. todo[t] # <<>> /\ Head(todo[t]).op = "sleep"
    BY DEF At_sleep
  <1>3. ASSUME NEW p, Then(p) PROVE t = current
    BY <1>1, <1>3 DEF Then
  <1>4. ASSUME Interrupted PROVE FALSE
    <2>1. CASE todo[current] = idle_loop
      <3>1. t = current
        BY <1>3, <1>4, <2>1 DEF Interrupted
      <3>2. Head(idle_loop) = At("hlt", Null)
        BY Tuple2 DEF Splits, idle_loop
      <3>3. At("hlt", Null).op # "sleep"
        BY DEF At
      <3> QED BY <1>2, <2>1, <3>1, <3>2, <3>3
    <2>2. CASE todo[current] # idle_loop
      BY <1>4, <2>2 DEF Interrupted
    <2> QED BY <2>1, <2>2
  <1>5. CASE Continue
    <2>1. Step(Head(todo[current]), Tail(todo[current])) /\ t = current
      BY <1>3, <1>5, StepMoves DEF Continue
    <2>2. timer_sleep(Head(todo[current]).x, Tail(todo[current]))
      BY <1>2, <2>1 DEF Step
    <2>3. SUFFICES ASSUME ~(elapsed[current] >= Head(todo[current]).x) PROVE FALSE
      BY <2>1
    <2>4. Then(<<At("sleep", Head(todo[current]).x)>> \o Tail(todo[current]))
      BY <2>2, <2>3 DEF timer_sleep, yield
    <2>5. /\ todo[current] \in Seq(Range(todo[current]))
          /\ Head(todo[current]) = At(Head(todo[current]).op, Head(todo[current]).x)
      BY <1>1, <1>2, <2>1, CodeFits DEF Fits
    <2>6. <<Head(todo[current])>> \o Tail(todo[current]) = todo[current]
      BY <1>2, <2>1, <2>5, Rejoin
    <2>7. Head(todo[current]) = At("sleep", Head(todo[current]).x)
      BY <1>2, <2>1, <2>5
    <2>8. Then(todo[current])
      BY <2>4, <2>6, <2>7
    <2> QED BY <1>1, <2>1, <2>8 DEF Then
  <1>6. CASE Call
    <2>1. t = current
      BY <1>3, <1>6, StepMoves DEF Call
    <2> QED BY <1>2, <1>6, <2>1 DEF Call
  <1>7. CASE timer_interrupt \/ \E s \in Semas : device_interrupt(s)
    BY <1>4, <1>7 DEF timer_interrupt, device_interrupt
  <1>8. CASE UNCHANGED vars
    BY <1>8 DEF vars
  <1> QED BY <1>5, <1>6, <1>7, <1>8 DEF Next

-----------------------------------------------------------------------------
INSTANCE FiniteSetTheorems

\* The cardinalities of sets of threads: there are finitely many pages.
LEMMA ThreadsCounted == ThreadSets
  <1>1. IsFiniteSet(Thread)
    BY ThreadsAssumption
  <1>2. \A S \in SUBSET Thread : IsFiniteSet(S)
    BY <1>1, FS_Subset
  <1>3. Cardinality({}) = 0
    BY FS_EmptySet
  <1>4. \A t \in Thread : Cardinality({t}) = 1
    BY FS_Singleton
  <1>5. \A S \in SUBSET Thread : Cardinality(S) \in Nat
    BY <1>2, FS_CardinalityType
  <1>6. \A S \in SUBSET Thread : \A t \in Thread \ S : Cardinality(S
          \cup {t}) = Cardinality(S) + 1
    <2> SUFFICES ASSUME NEW S \in SUBSET Thread, NEW t \in Thread \ S
                 PROVE  Cardinality(S \cup {t}) = Cardinality(S) + 1
      OBVIOUS
    <2>1. IsFiniteSet(S)
      BY <1>2
    <2> QED BY <2>1, FS_AddElement
  <1> QED BY <1>3, <1>4, <1>5, <1>6 DEF ThreadSets

(* The inductive invariant holds in every reachable state of threads/thread.c,*)
(* threads/synch.c and devices/timer.c, however many threads, semaphores,  *)
(* locks and condition variables there are.                                *)
THEOREM SynchInvariant == Spec => []Inv(todo)
  <1>1. Init => Inv(todo)
    BY InitInv
  <1>2. Inv(todo) /\ [Next]_vars => Inv(todo)'
    BY NextKeeps, Stutter, ThreadsCounted
  <1> QED BY <1>1, <1>2, PTL DEF Spec

(* sema_up wakes a waiter for every unit it adds: while threads wait on a  *)
(* semaphore, no unit of its value lies there without a woken thread that  *)
(* comes for it.                                                           *)
THEOREM WakeupsNeverLost == Spec => []NoLostWakeup
  <1>1. Inv(todo) => NoLostWakeup
    BY InvWakeups
  <1> QED BY <1>1, SynchInvariant, PTL

(* A lock never has two owners, and its semaphore is 1 exactly when it has *)
(* none, through lock_acquire, lock_try_acquire, lock_release and cond_wait.*)
THEOREM LocksAlwaysExclusive == Spec => []LockExclusive
  <1>1. Inv(todo) => LockExclusive
    BY InvLocks, ThreadsCounted
  <1> QED BY <1>1, SynchInvariant, PTL

(* Between its list_push_back and the end of its sema_down a thread in     *)
(* cond_wait is in one list, or about to be upped by one thread, or upped, *)
(* and exactly one of the three; afterwards nothing refers to its semaphore.*)
THEOREM SignalsNeverLost == Spec => []NoLostSignal
  <1>1. \A c : Cardinality({c}) = 1
    BY FS_Singleton
  <1>2. Inv(todo) => NoLostSignal
    BY <1>1, InvSignals, ThreadsCounted
  <1> QED BY <1>2, SynchInvariant, PTL

(* thread_block, thread_unblock, thread_yield, thread_exit and schedule keep*)
(* every thread in exactly the list its status says, give out no tid twice,*)
(* and leave nothing that refers to the page of a dead thread.             *)
THEOREM ThreadsAlwaysAccounted == Spec => []ThreadsAccounted
  <1>1. Inv(todo) => ThreadsAccounted
    BY InvThreads
  <1> QED BY <1>1, SynchInvariant, PTL

(* timer_sleep never returns before the ticks it was asked for.            *)
THEOREM NoSleepCutShort == Spec => SleepsLongEnough
  <1>1. Inv(todo) /\ [Next]_vars =>
          [\A t \in Thread : At_sleep(t) /\ todo'[t] # todo[t]
            => elapsed[t] >= Head(todo[t]).x]_vars
    BY SleepKept
  <1> QED BY <1>1, SynchInvariant, PTL DEF Spec, SleepsLongEnough
=============================================================================
