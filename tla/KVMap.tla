------------------------------- MODULE KVMap -------------------------------
(***************************************************************************)
(* What a key-value store promises: a map that get, put and del read and   *)
(* change in one indivisible step each.                                    *)
(***************************************************************************)
CONSTANTS Threads, Keys, Values, None

VARIABLES map,    \* the value of every key, None if it has none
          answer  \* each thread's last get or del, its key and the answer

Init ==
  /\ map = [k \in Keys |-> None]
  /\ answer = [t \in Threads |-> None]

Get(t, k) ==
  /\ answer' = [answer EXCEPT
                  ![t] = <<k, IF map[k] = None THEN "nokey" ELSE map[k]>>]
  /\ UNCHANGED map

Put(k, v) ==
  /\ map' = [map EXCEPT ![k] = v]
  /\ UNCHANGED answer

Del(t, k) ==
  /\ map' = [map EXCEPT ![k] = None]
  /\ answer' = [answer EXCEPT
                  ![t] = <<k, IF map[k] = None THEN "nokey" ELSE "ok">>]

Clean ==
  /\ map' = [k \in Keys |-> None]
  /\ UNCHANGED answer

\* The thread goes on to its next call.
Return(t) ==
  /\ answer' = [answer EXCEPT ![t] = None]
  /\ UNCHANGED map

Next ==
  \/ \E t \in Threads, k \in Keys : Get(t, k) \/ Del(t, k)
  \/ \E k \in Keys, v \in Values : Put(k, v)
  \/ \E t \in Threads : Return(t)
  \/ Clean

Spec == Init /\ [][Next]_<<map, answer>>
=============================================================================
