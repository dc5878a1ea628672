------------------------------- MODULE MCTPC --------------------------------
(***************************************************************************)
(* The parts of two-phase commit that the repository has, side by side: a  *)
(* behaviour uses the log of one slave, or registers slaves at the master  *)
(* and looks up replicas.                                                  *)
(***************************************************************************)
EXTENDS TPCLog, TPCMaster

VARIABLE part

MCInit == part \in {"log", "master"} /\ LogInit /\ Init
MCNext ==
  /\ UNCHANGED part
  /\ \/ part = "log" /\ LogNext /\ UNCHANGED vars
     \/ part = "master" /\ Next /\ UNCHANGED logVars
MCSpec == MCInit /\ [][MCNext]_<<logVars, vars, part>>

Symmetry == Permutations(Threads) \cup Permutations(Walkers)
=============================================================================
