------------------------------ MODULE MCSynch -------------------------------
EXTENDS Synch, TLC

CONSTANTS l, c

\* One condition variable, used with l.
MCLockOf == [x \in Conds |-> l]

\* While all pages are in use only thread_create is followed: the third page
\* is there for two overlapping calls of it.
Bound ==
  (\A t \in Thread : status[t] # "none") =>
    /\ \A s \in Semas : value[s] = 0 /\ waiters[s] = <<>>
    /\ value[l] = 1 /\ \A t \in Thread : ~At_sleep(t)

Symmetry == Permutations(Thread \ {main, idle})
=============================================================================
