----------------------------- MODULE MCFileSys -----------------------------
(***************************************************************************)
(* The file system on a disk of a few sectors.  The mode, chosen at the    *)
(* start, says which calls a behaviour makes besides create and remove:    *)
(*   handles  open files are read, written and denied to writers;          *)
(*   faults   any call may run out of memory at one place;                 *)
(*   archive  files go to the scratch device and come back from it.        *)
(* Each mode bounds the number of creates and of crashes.                  *)
(***************************************************************************)
EXTENDS FileSys

CONSTANTS Modes, MaxCreates, MaxCrashes

VARIABLES mode, creates, crashes

\* The scratch device is empty, or holds one file.
Archives ==
  {[s \in 0 .. ScratchSectors - 1 |-> zeros]}
  \cup {[s \in 0 .. ScratchSectors - 1 |->
           CASE s = 0 -> header(n, SectorSize + 1)
             [] s \in {1, 2} -> DataSector([i \in 1 .. SectorSize |->
                                  Byte(IF s = 1 \/ i = 1 THEN 1 ELSE 0)])
             [] OTHER -> zeros] : n \in Names}

MCInit ==
  /\ mode \in Modes /\ creates = 0 /\ crashes = 0
  /\ IF mode # "archive" THEN FsInit
     ELSE \E a \in Archives : FsInitWith(a)

Some(faults) == IF mode = "faults" THEN faults ELSE {{}}

Counted ==
  \/ /\ creates < MaxCreates[mode] /\ creates' = creates + 1 /\ UNCHANGED crashes
     /\ \/ \E name \in Names, size \in FileSizes, bad \in Some(CreateFaults) :
             CreateFile(name, size, bad)
        \/ mode = "archive" /\ ArchiveNext
  \/ /\ crashes < MaxCrashes[mode] /\ crashes' = crashes + 1 /\ UNCHANGED creates
     /\ Crash

Uncounted ==
  \/ WriteSector
  \/ Boot
  \/ (~formatted \/ mode = "archive") /\ Format
  \/ \E name \in Names, bad \in Some(RemoveFaults) : RemoveFile(name, bad)
  \/ /\ mode # "archive"
     /\ \/ \E name \in Names, f \in Files, bad \in Some(OpenFaults) : OpenFile(f, name, bad)
        \/ \E f \in Files, bad \in Some(CloseFaults) : file_close(f, bad)
  \/ /\ mode = "handles"
     /\ \/ fsutil_ls
        \/ \E f, g \in Files : file_reopen(f, g)
        \/ \E f \in Files : file_deny_write(f) \/ file_allow_write(f) \/ file_seek(f, 0)
        \/ \E f \in Files, n \in WriteSizes : file_write(f, n, {}) \/ file_read(f, n, {})
  \/ /\ mode = "faults"
     /\ \E f \in Files, n \in WriteSizes, bad \in TransferFaults : file_write(f, n, bad)

MCNext == UNCHANGED mode /\ (Counted \/ (Uncounted /\ UNCHANGED <<creates, crashes>>))

MCSpec == MCInit /\ [][MCNext]_<<fsVars, mode, creates, crashes>>

MCMaxCreates == [handles |-> 2, faults |-> 2, archive |-> 4]
MCMaxCrashes == [handles |-> 1, faults |-> 1, archive |-> 0]
Symmetric == Permutations(Names) \cup Permutations(Files)
=============================================================================
