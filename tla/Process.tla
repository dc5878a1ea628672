------------------------------ MODULE Process ------------------------------
(***************************************************************************)
(* User processes: process.c, pagedir.c, exception.c and syscall.c, under  *)
(* the kernel's main thread that runs tasks one after the other (run_task  *)
(* in init.c).  Pages come from two pools of limited size, so that every   *)
(* allocation can fail; a timer interrupt can switch threads between any   *)
(* two steps.  Addresses are words of WordSize values with user space      *)
(* below PHYS_BASE; a directory entry covers TablePages pages.             *)
(***************************************************************************)
EXTENDS Integers, Sequences, FiniteSets, FiniteSetsExt

CONSTANTS Programs,       \* executables: [valid, length, phdrs]
          KernelPoolSizes, UserPoolSizes,   \* the sizes the pools may have
          MaxTasks,       \* bound on the tasks
          PageSize, TablePages, PHYS_BASE, WordSize

ASSUME ProcessAssumption ==
  /\ {PageSize, TablePages, PHYS_BASE, WordSize, MaxTasks} \subseteq Nat \ {0}
  /\ PHYS_BASE < WordSize /\ PHYS_BASE % (PageSize * TablePages) = 0

NONE == 0                   \* a null page pointer; pages are numbered from 1
init_page_dir == -1
TID_ERROR == -1
Tid == 1..MaxTasks
Main == 0
Idle == -1
Zero == -1                  \* a zeroed byte; the others are file offsets

VARIABLES free_pages, \* [kernel, user]: the free pages
          pagedirs,   \* page -> [tables, mapping] of the directories in use
          cr3,        \* the active directory
          temporary,  \* the semaphore
          cpu,        \* the thread that runs
          task,       \* [at, n, tid]: the main thread
          procs,      \* tid -> thread of a process
          total       \* [kernel, user]: all pages

procVars == <<free_pages, pagedirs, cr3, temporary, cpu, task, procs, total>>

Absent == [at |-> "none", pagedir |-> NONE, pd |-> NONE, fn |-> NONE, thread |-> NONE]

ProcInit ==
  /\ total \in [kernel : {1..n : n \in KernelPoolSizes}, user : {1..n : n \in UserPoolSizes}]
  /\ free_pages = total
  /\ pagedirs = << >> /\ cr3 = init_page_dir
  /\ temporary = 0 /\ cpu = Main
  /\ task = [at |-> "ready", n |-> 0, tid |-> TID_ERROR]
  /\ procs = [t \in Tid |-> Absent]

-----------------------------------------------------------------------------
(* Page tables.  A machine state m is [free, pd] during a load.            *)

palloc_page(s) == IF s = {} THEN NONE ELSE Min(s)
WithoutKey(f, k) == [x \in DOMAIN f \ {k} |-> f[x]]
Extended(f, k, v) == [x \in DOMAIN f \cup {k} |-> IF x = k THEN v ELSE f[x]]
pd_no(vaddr) == vaddr \div (PageSize * TablePages)
pg_round_down(vaddr) == vaddr - (vaddr % PageSize)
ROUND_UP(x, n) == ((x + n - 1) \div n) * n
is_user_vaddr(vaddr) == vaddr < PHYS_BASE

NoMapping == [tables |-> << >>, mapping |-> << >>]

pagedir_get_page(pd, upage) ==
  IF upage \in DOMAIN pd.mapping THEN pd.mapping[upage].page ELSE NONE

\* pagedir_set_page, with the page table lookup_page creates on demand; ok
\* tells success.
pagedir_set_page(m, upage, entry) ==
  LET pt == palloc_page(m.free.kernel)
      n  == pd_no(upage)
      mapped(pd) == [pd EXCEPT !.mapping = Extended(@, upage, entry)]
  IN IF n \in DOMAIN m.pd.tables THEN [m EXCEPT !.pd = mapped(@)]
     ELSE IF pt = NONE THEN [m EXCEPT !.ok = FALSE]
     ELSE [m EXCEPT !.free.kernel = @ \ {pt},
                    !.pd = mapped([@ EXCEPT !.tables = Extended(@, n, pt)])]

install_page(m, upage, entry) ==
  IF pagedir_get_page(m.pd, upage) # NONE THEN [m EXCEPT !.ok = FALSE]
  ELSE pagedir_set_page(m, upage, entry)

\* A page from the user pool, installed, or given back when that fails.
install_new_page(m, upage, writable, data) ==
  LET kpage == palloc_page(m.free.user)
      taken == [m EXCEPT !.free.user = @ \ {kpage}]
      done  == install_page(taken, upage, [page |-> kpage, w |-> writable, data |-> data])
  IN IF kpage = NONE THEN [m EXCEPT !.ok = FALSE]
     ELSE IF done.ok THEN done
     ELSE [done EXCEPT !.free.user = @ \cup {kpage}]

setup_stack(m) ==
  install_new_page(m, PHYS_BASE - PageSize, TRUE, [i \in 0..PageSize - 1 |-> Zero])

-----------------------------------------------------------------------------
(* Segments *)

\* The wrap-around test is left out.
validate_segment_wrapping(phdr, length) ==
  /\ phdr.offset % PageSize = phdr.vaddr % PageSize
  /\ phdr.offset <= length
  /\ phdr.memsz >= phdr.filesz /\ phdr.memsz # 0
  /\ is_user_vaddr(phdr.vaddr)
  /\ is_user_vaddr((phdr.vaddr + phdr.memsz) % WordSize)
  /\ phdr.vaddr >= PageSize

validate_segment(phdr, length) ==
  /\ phdr.offset % PageSize = phdr.vaddr % PageSize
  /\ phdr.offset <= length
  /\ phdr.memsz >= phdr.filesz /\ phdr.memsz # 0
  /\ is_user_vaddr(phdr.vaddr)
  /\ is_user_vaddr((phdr.vaddr + phdr.memsz) % WordSize)
  /\ (phdr.vaddr + phdr.memsz) % WordSize >= phdr.vaddr
  /\ phdr.vaddr >= PageSize

\* Bytes to read and pages to fill, from load.
read_bytes(phdr) == IF phdr.filesz > 0 THEN (phdr.vaddr % PageSize) + phdr.filesz ELSE 0
segment_pages(phdr) ==
  ROUND_UP((phdr.vaddr % PageSize) + phdr.memsz, PageSize) \div PageSize

\* The k-th page of a segment, and what the file gives it.
segment_page(phdr, k) ==
  [i \in 0..PageSize - 1 |->
     IF k * PageSize + i < read_bytes(phdr)
     THEN pg_round_down(phdr.offset) + k * PageSize + i ELSE Zero]

\* The file read is short when the file ends first.
load_page(m, phdr, length, k) ==
  IF ~m.ok THEN m
  ELSE IF \E i \in 0..PageSize - 1 : segment_page(phdr, k)[i] >= length
  THEN [m EXCEPT !.ok = FALSE]
  ELSE install_new_page(m, pg_round_down(phdr.vaddr) + k * PageSize, phdr.w,
                        segment_page(phdr, k))

load_segment(m, phdr, length) ==
  LET after[k \in 0..segment_pages(phdr)] ==
        IF k = 0 THEN m ELSE load_page(after[k - 1], phdr, length, k - 1)
  IN after[segment_pages(phdr)]

-----------------------------------------------------------------------------
(* The main thread: run_task, process_execute, process_wait *)

Runs(t) == cpu = t

process_execute ==
  LET fn == palloc_page(free_pages.kernel)
      th == palloc_page(free_pages.kernel \ {fn})
      t  == task.n + 1
  IN
  /\ Runs(Main) /\ task.at = "ready" /\ task.n < MaxTasks
  /\ temporary' = 0
  /\ IF fn # NONE /\ th # NONE
     THEN \E p \in Programs :
            /\ free_pages' = [free_pages EXCEPT !.kernel = @ \ {fn, th}]
            /\ procs' = [procs EXCEPT ![t] = [at |-> "start", pagedir |-> NONE, pd |-> NONE,
                           fn |-> fn, thread |-> th, program |-> p, next |-> 1, ok |-> TRUE]]
            /\ task' = [at |-> "created", n |-> t, tid |-> t]
     ELSE /\ task' = [at |-> "created", n |-> t, tid |-> TID_ERROR]
          /\ UNCHANGED <<free_pages, procs>>
  /\ UNCHANGED <<pagedirs, cr3, cpu, total>>

\* sema_down, whatever the thread id: on, or blocked until the signal.
process_wait ==
  /\ Runs(Main) /\ task.at \in {"created", "wait"}
  /\ \/ /\ temporary > 0
        /\ temporary' = temporary - 1
        /\ task' = [task EXCEPT !.at = "ready"]
     \/ /\ temporary = 0 /\ task.at = "created"
        /\ task' = [task EXCEPT !.at = "wait"]
        /\ UNCHANGED temporary
  /\ UNCHANGED <<free_pages, pagedirs, cr3, cpu, procs, total>>

-----------------------------------------------------------------------------
(* The threads of the processes *)

Step(t, place) == procs' = [procs EXCEPT ![t].at = place]

\* start_process and load: the page directory, activated at once.
load_pagedir(t) ==
  LET pd == palloc_page(free_pages.kernel) IN
  /\ Runs(t) /\ procs[t].at = "start"
  /\ IF pd = NONE
     THEN /\ procs' = [procs EXCEPT ![t].at = "loaded", ![t].ok = FALSE]
          /\ UNCHANGED <<free_pages, pagedirs, cr3>>
     ELSE /\ free_pages' = [free_pages EXCEPT !.kernel = @ \ {pd}]
          /\ pagedirs' = Extended(pagedirs, pd, NoMapping)
          /\ procs' = [procs EXCEPT ![t].at = "load", ![t].pagedir = pd]
          /\ cr3' = pd
  /\ UNCHANGED <<temporary, cpu, task, total>>

\* The headers in order, then the stack; a failure ends the load.
load(t) ==
  LET p == procs[t]
      m == [free |-> free_pages, pd |-> pagedirs[p.pagedir], ok |-> TRUE]
      phdr == p.program.phdrs[p.next]
      last == p.next > Len(p.program.phdrs)
      out == IF ~p.program.valid THEN [m EXCEPT !.ok = FALSE]
             ELSE IF last THEN setup_stack(m)
             ELSE IF phdr.type = "ignored" THEN m
             ELSE IF phdr.type = "load" /\ validate_segment(phdr, p.program.length)
             THEN load_segment(m, phdr, p.program.length)
             ELSE [m EXCEPT !.ok = FALSE]
  IN
  /\ Runs(t) /\ p.at = "load"
  /\ free_pages' = out.free
  /\ pagedirs' = [pagedirs EXCEPT ![p.pagedir] = out.pd]
  /\ procs' = [procs EXCEPT ![t].ok = out.ok, ![t].next = @ + 1,
                            ![t].at = IF last \/ ~out.ok THEN "loaded" ELSE "load"]
  /\ UNCHANGED <<cr3, temporary, cpu, task, total>>

\* The rest of start_process: the copy of the name goes, the program runs.
start_process(t) ==
  /\ Runs(t) /\ procs[t].at = "loaded"
  /\ free_pages' = [free_pages EXCEPT !.kernel = @ \cup {procs[t].fn}]
  /\ procs' = [procs EXCEPT ![t].fn = NONE,
                            ![t].at = IF procs[t].ok THEN "user" ELSE "exit"]
  /\ UNCHANGED <<pagedirs, cr3, temporary, cpu, task, total>>

\* Where an exception takes its thread, by the code segment it occurred in.
kill(cs) == IF cs = "kernel" THEN "panic" ELSE "exit"

\* The user program faults; page_fault ends in kill, as the other handlers do.
page_fault(t) ==
  /\ Runs(t) /\ procs[t].at = "user"
  /\ Step(t, kill("user"))
  /\ UNCHANGED <<free_pages, pagedirs, cr3, temporary, cpu, task, total>>

\* SYS_EXIT ends in thread_exit; the other system calls only print.  The
\* arguments are at the user's stack pointer, and where nothing is mapped
\* there the fault is the kernel's own.  Here SYS_EXIT signals the waiter.
syscall_handler_signalling(t) ==
  /\ Runs(t) /\ procs[t].at = "user"
  /\ Step(t, "exit")
  /\ temporary' = temporary + 1
  /\ UNCHANGED <<free_pages, pagedirs, cr3, cpu, task, total>>

syscall_handler(t) ==
  /\ Runs(t) /\ procs[t].at = "user"
  /\ Step(t, "exit") \/ Step(t, kill("kernel"))
  /\ UNCHANGED <<free_pages, pagedirs, cr3, temporary, cpu, task, total>>

\* process_exit in four steps: forget the directory, activate the
\* kernel's, destroy the old one, signal.  Here the directory is not forgotten.
exit_forget_not(t) ==
  /\ Runs(t) /\ procs[t].at = "exit"
  /\ procs' = [procs EXCEPT ![t].at = IF procs[t].pagedir = NONE THEN "signal" ELSE "switch",
                            ![t].pd = procs[t].pagedir]
  /\ UNCHANGED <<free_pages, pagedirs, cr3, temporary, cpu, task, total>>

exit_forget(t) ==
  /\ Runs(t) /\ procs[t].at = "exit"
  /\ procs' = [procs EXCEPT ![t].at = IF procs[t].pagedir = NONE THEN "signal" ELSE "switch",
                            ![t].pd = procs[t].pagedir, ![t].pagedir = NONE]
  /\ UNCHANGED <<free_pages, pagedirs, cr3, temporary, cpu, task, total>>

exit_activate(t) ==
  /\ Runs(t) /\ procs[t].at = "switch"
  /\ cr3' = init_page_dir
  /\ Step(t, "destroy")
  /\ UNCHANGED <<free_pages, pagedirs, temporary, cpu, task, total>>

\* Only the pages the directory's own entries name are released.
pagedir_destroy_flat(t) ==
  LET pd == pagedirs[procs[t].pd] IN
  /\ Runs(t) /\ procs[t].at = "destroy"
  /\ free_pages' = [kernel |-> free_pages.kernel \cup {pd.tables[n] : n \in DOMAIN pd.tables}
                                     \cup {procs[t].pd},
                    user   |-> free_pages.user]
  /\ pagedirs' = WithoutKey(pagedirs, procs[t].pd)
  /\ Step(t, "signal")
  /\ UNCHANGED <<cr3, temporary, cpu, task, total>>

pagedir_destroy(t) ==
  LET pd == pagedirs[procs[t].pd] IN
  /\ Runs(t) /\ procs[t].at = "destroy"
  /\ free_pages' = [kernel |-> free_pages.kernel \cup {pd.tables[n] : n \in DOMAIN pd.tables}
                                     \cup {procs[t].pd},
                    user   |-> free_pages.user \cup {pd.mapping[u].page : u \in DOMAIN pd.mapping}]
  /\ pagedirs' = WithoutKey(pagedirs, procs[t].pd)
  /\ Step(t, "signal")
  /\ UNCHANGED <<cr3, temporary, cpu, task, total>>

exit_signal(t) ==
  /\ Runs(t) /\ procs[t].at = "signal"
  /\ temporary' = temporary + 1
  /\ procs' = [procs EXCEPT ![t] = [Absent EXCEPT !.at = "signalled", !.thread = procs[t].thread]]
  /\ UNCHANGED <<free_pages, pagedirs, cr3, cpu, task, total>>

\* The rest of thread_exit: the timer may come before it, and the next task
\* begin; from here on interrupts are off.
thread_exit(t) ==
  /\ Runs(t) /\ procs[t].at = "signalled"
  /\ Step(t, "dying")
  /\ UNCHANGED <<free_pages, pagedirs, cr3, temporary, cpu, task, total>>

-----------------------------------------------------------------------------
(* A context switch: process_activate for the next thread, and the page of *)
(* a thread that has died goes back.  The timer may force one at any step, *)
(* from a thread to itself when it is the only one ready; the idle thread  *)
(* runs when no other can.                                                 *)

Ready(t) == IF t = Main THEN CASE task.at = "ready" -> task.n < MaxTasks
                                [] task.at = "created" -> TRUE
                                [] task.at = "wait" -> temporary > 0
            ELSE procs[t].at \notin {"none", "dying", "gone"}
DirOf(t) == IF t \in Tid /\ procs[t].pagedir # NONE THEN procs[t].pagedir ELSE init_page_dir

process_activate(t) == cr3' = DirOf(t)

schedule(t) ==
  LET dead == cpu \in Tid /\ procs[cpu].at = "dying" IN
  /\ cpu \in Tid => procs[cpu].at # "panic"
  /\ IF t = Idle THEN \A u \in Tid \cup {Main} : ~Ready(u) ELSE Ready(t)
  /\ cpu' = t
  /\ process_activate(t)
  /\ free_pages' = IF dead THEN [free_pages EXCEPT !.kernel = @ \cup {procs[cpu].thread}] ELSE free_pages
  /\ procs' = IF dead THEN [procs EXCEPT ![cpu] = [Absent EXCEPT !.at = "gone"]] ELSE procs
  /\ UNCHANGED <<pagedirs, temporary, task, total>>

ProcStep(t) == \/ load_pagedir(t) \/ load(t) \/ start_process(t) \/ page_fault(t) \/ syscall_handler(t)
               \/ exit_forget(t) \/ exit_activate(t) \/ pagedir_destroy(t) \/ exit_signal(t)
               \/ thread_exit(t)
ProcNext == \/ process_execute \/ process_wait
            \/ \E t \in Tid : ProcStep(t)
            \/ schedule(Main) \/ schedule(Idle) \/ \E t \in Tid : schedule(t)

-----------------------------------------------------------------------------
(* Properties *)

(* The active page directory is the kernel's or one that is not released,  *)
(* and a process in user mode runs on its own: neither process_exit's      *)
(* order nor a timer interrupt at any step breaks this.                    *)
OwnAddressSpace ==
  /\ cr3 = init_page_dir \/ cr3 \in DOMAIN pagedirs
  /\ \A t \in Tid : Runs(t) /\ procs[t].at = "user" => cr3 = procs[t].pagedir

(* Every page is free or has exactly one owner - the copy of a name, a     *)
(* thread, a directory, a page table or a mapping - whatever allocation    *)
(* failed and however far a load came.                                     *)
EveryPageOwnedOnce ==
  LET names   == {<<"fn", t>> : t \in {u \in Tid : procs[u].fn # NONE}}
      threads == {<<"thread", t>> : t \in {u \in Tid : procs[u].thread # NONE}}
      dirs    == {<<"dir", d>> : d \in DOMAIN pagedirs}
      tables  == UNION {{<<"table", d, n>> : n \in DOMAIN pagedirs[d].tables} : d \in DOMAIN pagedirs}
      frames  == UNION {{<<d, u>> : u \in DOMAIN pagedirs[d].mapping} : d \in DOMAIN pagedirs}
      page(o) == CASE o[1] = "fn" -> procs[o[2]].fn
                   [] o[1] = "thread" -> procs[o[2]].thread
                   [] o[1] = "dir" -> o[2]
                   [] o[1] = "table" -> pagedirs[o[2]].tables[o[3]]
      owners  == names \cup threads \cup dirs \cup tables
  IN /\ total.kernel \ free_pages.kernel = {page(o) : o \in owners}
     /\ Cardinality(total.kernel \ free_pages.kernel) = Cardinality(owners)
     /\ total.user \ free_pages.user = {pagedirs[f[1]].mapping[f[2]].page : f \in frames}
     /\ Cardinality(total.user \ free_pages.user) = Cardinality(frames)

(* Mappings are in user space above page 0, and a program that runs has    *)
(* its image: each byte of each loadable segment comes from its place in   *)
(* the file or is zero beyond the segment's file part, and there is a      *)
(* stack.                                                                  *)
ImageFaithful ==
  /\ \A d \in DOMAIN pagedirs : \A u \in DOMAIN pagedirs[d].mapping :
       u >= PageSize /\ is_user_vaddr(u)
  /\ \A t \in Tid : procs[t].at = "user" =>
       LET pd == pagedirs[procs[t].pagedir]
           byte(a) == pd.mapping[pg_round_down(a)].data[a % PageSize]
       IN /\ PHYS_BASE - PageSize \in DOMAIN pd.mapping
          /\ \A i \in DOMAIN procs[t].program.phdrs :
               LET phdr == procs[t].program.phdrs[i] IN
               phdr.type = "load" => \A k \in 0..phdr.memsz - 1 :
                 /\ pg_round_down(phdr.vaddr + k) \in DOMAIN pd.mapping
                 /\ byte(phdr.vaddr + k) = IF k < phdr.filesz THEN phdr.offset + k ELSE Zero

(* process_wait returns only when the child has given back its address     *)
(* space, and no exit is counted for a later task.                         *)
WaitSeesExit ==
  task.at = "ready" => /\ temporary = 0
                       /\ \A t \in Tid : procs[t].at \in {"none", "signalled", "dying", "gone"}

(* An exit is orderly: the address space goes before it can be missed, and *)
(* the waiter is told when it has gone.                                    *)
ExitOrderly == OwnAddressSpace /\ WaitSeesExit
=============================================================================
