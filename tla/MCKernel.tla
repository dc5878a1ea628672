------------------------------ MODULE MCKernel ------------------------------
(***************************************************************************)
(* The sequential and the concurrent parts of the kernel that have no      *)
(* liveness question, checked side by side: a behaviour is one of Memory,  *)
(* Process, Lists, HashTables, Partitions or Library, and the rest stays   *)
(* as it is.                                                               *)
(***************************************************************************)
EXTENDS Memory, Process, Lists, HashTables, Partitions, Library

VARIABLE part
vars == <<memVars, procVars, listVars, hashVars, partVars, sample, part>>

MCInit ==
  /\ part \in {"memory", "process", "lists", "hash", "disk", "library"}
  /\ MemInit /\ HashInit
  /\ part # "process" => total = [kernel |-> 1..1, user |-> 1..1]
  /\ ProcInit
  /\ part # "lists" => key = [e \in 1..MaxElem |-> 0] /\ model = << << >>, << >> >>
  /\ ListInit
  /\ IF part = "disk" THEN PartInit ELSE mbr = EmptyTable /\ bdev_name = NoName /\ PartRest
  /\ IF part = "library" THEN LibInit ELSE sample = NoSample

MCNext ==
  /\ UNCHANGED <<part, sample>>
  /\ \/ part = "memory" /\ MemNext /\ UNCHANGED <<procVars, listVars, hashVars, partVars>>
     \/ part = "process" /\ ProcNext /\ UNCHANGED <<memVars, listVars, hashVars, partVars>>
     \/ part = "lists" /\ ListNext /\ UNCHANGED <<memVars, procVars, hashVars, partVars>>
     \/ part = "hash" /\ HashNext /\ UNCHANGED <<memVars, procVars, listVars, partVars>>
     \/ part = "disk" /\ PartNext /\ UNCHANGED <<memVars, procVars, listVars, hashVars>>

\* A sample is final, a list has had its operations, the disk is scanned, the
\* kernel has panicked or the last task is over.
Finished ==
  /\ \/ part = "library"
     \/ part = "lists" /\ list_ops = MaxListOps
     \/ part = "disk" /\ scan_at \in {"ready", "panic", "overflow"}
     \/ part = "process" /\ cpu \in Tid /\ procs[cpu].at = "panic"
     \/ part = "process" /\ task.n = MaxTasks /\ task.at = "ready"
  /\ UNCHANGED vars

MCSpec == MCInit /\ [][MCNext \/ Finished]_vars

(* The kernel's containers are what they look like: a list of list.c is a  *)
(* sequence under every operation, and a table of hash.c a map, also while *)
(* it rehashes.                                                            *)
ContainersFaithful == ListsAreSequences /\ TableIsMap

-----------------------------------------------------------------------------
(* Executables: one segment, in page 0, within or between pages, beyond the *)
(* end of the file, misaligned, empty, where the stack goes, at the end of  *)
(* user space or wrapping around; two that meet; a bad header.              *)
Seg(v, o, f, m) ==
  [type |-> "load", vaddr |-> v, offset |-> o, filesz |-> f, memsz |-> m, w |-> TRUE]
Places == {<<1, 1>>, <<5, 1>>, <<7, 7>>, <<8, 4>>, <<20, 4>>, <<5, 4>>}
Segs == {Seg(at[1], at[2], f, m) : at \in Places, f \in {0, 3, 4}, m \in {0, 3, 7, 26}}
Executable(phdrs) == [valid |-> TRUE, length |-> 9, phdrs |-> phdrs]
MCPrograms ==
  {Executable(<<p>>) : p \in Segs \cup {[type |-> "ignored"], [type |-> "dynamic"]}}
  \cup {Executable(<<Seg(5, 1, 3, 7), p>>) : p \in {Seg(8, 4, 3, 4), Seg(16, 4, 4, 4)}}
  \cup {[valid |-> FALSE, length |-> 9, phdrs |-> << >>]}

MCTypeBits == [hh |-> 4, int |-> 11]
MCFlagSets == {{}, {"-"}, {"+"}, {" "}, {"#"}, {"0"}, {"'"}, {"0", "#"}, {"0", "+"},
               {"-", "0"}, {"'", "0", " "}, {"+", " "}}
MCArguments == {0, 5, 8, -8, 1023, -1024}
MCWidths == {0, 6, -7}
MCPrecisions == {-1, 0, 6}
=============================================================================
