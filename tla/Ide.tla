-------------------------------- MODULE Ide --------------------------------
(***************************************************************************)
(* One channel of the ATA driver (devices/ide.c) with its two disks, and   *)
(* the block layer above it (devices/block.c).  At boot the driver looks   *)
(* for disks and registers them; then kernel threads read and write        *)
(* sectors of registered disks.  The controller is external: it is busy    *)
(* with a command, asks for data, and raises interrupts, a few of them     *)
(* stray ones.                                                             *)
(***************************************************************************)
EXTENDS Integers, Sequences, FiniteSets

CONSTANTS IdeThread, Free,
          IdeSectors,      \* sectors of a disk
          Values,          \* contents of a sector; Blank is the first one
          Blank,
          MaxStray,        \* bound on the stray interrupts
          MaxAbort,        \* bound on the commands a disk gives up
          MaxRequests      \* bound on the requests

Boot == "boot"

ASSUME IdeAssumption ==
  /\ Free \notin IdeThread \cup {Boot} /\ Boot \notin IdeThread
  /\ 0 \in IdeSectors
  /\ MaxStray \in Nat /\ MaxAbort \in Nat /\ MaxRequests \in Nat

Disk == {0, 1}
\* huge: 1 GB or more, and left alone; none: also what is not ready in time.
Kinds == {"ata", "huge", "none"}

VARIABLES kind,        \* what is attached
          is_ata, registered,
          channel,     \* [lock, expecting_interrupt, completion_wait]
          hw,          \* the controller
          platter,     \* contents of the disks
          latest,      \* history: contents by the writes that have begun to transfer
          ide_pc,      \* of each thread and of the boot
          spent        \* [stray, abort, requests]

ideVars == <<kind, is_ata, registered, channel, hw, platter, latest, ide_pc, spent>>

Off == [at |-> "idle"]
Request(op, d, s, v) == [at |-> "lock", op |-> op, disk |-> d, sector |-> s, value |-> v]
IdeAt(t, place) == ide_pc' = [ide_pc EXCEPT ![t].at = place]

\* Before the detection begins.
IdeReset ==
  /\ kind \in [Disk -> Kinds]
  /\ is_ata = [d \in Disk |-> FALSE] /\ registered = {}
  /\ channel = [lock |-> Free, expecting_interrupt |-> FALSE, completion_wait |-> 0]
  /\ hw = [device |-> 0, sector |-> 0, command |-> "none", bsy |-> FALSE,
           drq |-> FALSE, irq |-> FALSE, data |-> Blank]
  /\ platter = [d \in Disk |-> [s \in IdeSectors |-> Blank]]
  /\ latest = platter
  /\ spent = [stray |-> 0, abort |-> 0, requests |-> 0]

IdeInit ==
  /\ IdeReset
  /\ ide_pc = [t \in IdeThread \cup {Boot} |->
                 IF t = Boot THEN [Request("identify", 0, 0, Blank) EXCEPT !.at = "reset"]
                 ELSE Off]

-----------------------------------------------------------------------------
(* ATA primitives.  The waits end: a device that would exceed the time      *)
(* limit aborts its command instead (DeviceAbort).                         *)

\* BSY and DRQ are clear.
wait_until_idle == ~hw.bsy /\ ~hw.drq

\* BSY is clear; the result is DRQ.
wait_while_busy(result) == ~hw.bsy /\ hw.drq = result

\* The registers once d is selected; reading the status while waiting takes
\* back an interrupt that is not delivered yet.
select_device(d) == [hw EXCEPT !.device = d]
select_device_wait(d) == [select_device(d) EXCEPT !.irq = FALSE]

-----------------------------------------------------------------------------
(* Detection.  The slave is looked for only where a master may have one.   *)

\* The soft reset ends every command; the last device present is selected.
reset_channel ==
  /\ ide_pc[Boot].at = "reset"
  /\ hw' = [select_device(IF kind[1] # "none" THEN 1 ELSE 0) EXCEPT !.bsy = FALSE, !.drq = FALSE]
  /\ IdeAt(Boot, "check")
  /\ UNCHANGED <<kind, is_ata, registered, channel, platter, latest, spent>>

check_device_type ==
  LET d == ide_pc[Boot].disk IN
  /\ ide_pc[Boot].at = "check"
  /\ is_ata' = [is_ata EXCEPT ![d] = kind[d] # "none"]
  /\ hw' = [select_device(d) EXCEPT !.irq = FALSE]   \* reads the status
  /\ \/ d = 0 /\ ide_pc' = [ide_pc EXCEPT ![Boot].disk = 1]
     \/ ide_pc' = [ide_pc EXCEPT ![Boot].disk = 0, ![Boot].at = "identify"]
  /\ UNCHANGED <<kind, registered, channel, platter, latest, spent>>

NextDisk == IF ide_pc[Boot].disk = 0
            THEN ide_pc' = [ide_pc EXCEPT ![Boot].disk = 1, ![Boot].at = "identify"]
            ELSE ide_pc' = [ide_pc EXCEPT ![Boot] = Off]

\* identify_ata_device is called for the disks that are there.
identify_ata_device ==
  /\ ide_pc[Boot].at = "identify"
  /\ IF is_ata[ide_pc[Boot].disk] THEN IdeAt(Boot, "select") ELSE NextDisk
  /\ UNCHANGED <<kind, is_ata, registered, channel, hw, platter, latest, spent>>

-----------------------------------------------------------------------------
(* Requests: block_read and block_write of a registered disk.              *)

block_request(t) ==
  /\ ide_pc[t] = Off /\ t # Boot
  /\ ide_pc[Boot] = Off /\ spent.requests < MaxRequests
  /\ spent' = [spent EXCEPT !.requests = @ + 1]
  /\ \E d \in registered, s \in IdeSectors :
       \/ \E v \in Values : ide_pc' = [ide_pc EXCEPT ![t] = Request("write", d, s, v)]
       \/ ide_pc' = [ide_pc EXCEPT ![t] = Request("read", d, s, Blank)]
  /\ UNCHANGED <<kind, is_ata, registered, channel, hw, platter, latest>>

\* The channel's lock is not taken.
lock_channel_not(t) ==
  /\ ide_pc[t].at = "lock"
  /\ channel' = [channel EXCEPT !.lock = t]
  /\ IdeAt(t, "select")
  /\ UNCHANGED <<kind, is_ata, registered, hw, platter, latest, spent>>

lock_channel(t) ==
  /\ ide_pc[t].at = "lock" /\ channel.lock = Free
  /\ channel' = [channel EXCEPT !.lock = t]
  /\ IdeAt(t, "select")
  /\ UNCHANGED <<kind, is_ata, registered, hw, platter, latest, spent>>

\* For IDENTIFY the sector is not looked at.
select_sector(t) ==
  /\ ide_pc[t].at = "select"
  /\ wait_until_idle
  /\ hw' = [select_device_wait(ide_pc[t].disk) EXCEPT !.sector = ide_pc[t].sector]
  /\ IdeAt(t, "issue")
  /\ UNCHANGED <<kind, is_ata, registered, channel, platter, latest, spent>>

\* The completion interrupt is not announced.
issue_pio_command_unexpected(t) ==
  /\ ide_pc[t].at = "issue"
  /\ hw' = [hw EXCEPT !.command = ide_pc[t].op, !.bsy = TRUE]
  /\ IdeAt(t, IF ide_pc[t].op = "write" THEN "busy" ELSE "down")
  /\ UNCHANGED <<kind, is_ata, registered, channel, platter, latest, spent>>

issue_pio_command(t) ==
  /\ ide_pc[t].at = "issue"
  /\ channel' = [channel EXCEPT !.expecting_interrupt = TRUE]
  /\ hw' = [hw EXCEPT !.command = ide_pc[t].op, !.bsy = TRUE]
  /\ IdeAt(t, IF ide_pc[t].op = "write" THEN "busy" ELSE "down")
  /\ UNCHANGED <<kind, is_ata, registered, platter, latest, spent>>

\* sema_down (&c->completion_wait): the end of a write, the middle of a read.
completion_down(t) ==
  /\ ide_pc[t].at = "down" /\ channel.completion_wait > 0
  /\ channel' = [channel EXCEPT !.completion_wait = @ - 1]
  /\ IdeAt(t, IF ide_pc[t].op = "write" THEN "done" ELSE "busy")
  /\ UNCHANGED <<kind, is_ata, registered, hw, platter, latest, spent>>

\* The transfer; without DRQ the command has failed.
transfer_sector(t) ==
  LET pc == ide_pc[t] IN
  /\ pc.at = "busy"
  /\ \/ /\ wait_while_busy(TRUE) /\ pc.op = "write"
        /\ hw' = [hw EXCEPT !.drq = FALSE, !.bsy = TRUE, !.data = pc.value]
        /\ latest' = [latest EXCEPT ![pc.disk][pc.sector] = pc.value]
        /\ IdeAt(t, "down")
     \/ /\ wait_while_busy(TRUE) /\ pc.op \in {"read", "identify"}
        /\ hw' = [hw EXCEPT !.drq = FALSE]
        /\ ide_pc' = [ide_pc EXCEPT ![t].value = hw.data, ![t].at = "done"]
        /\ UNCHANGED latest
     \/ /\ wait_while_busy(FALSE)
        /\ IdeAt(t, IF pc.op = "identify" THEN "failed" ELSE "panic")
        /\ UNCHANGED <<hw, latest>>
  /\ UNCHANGED <<kind, is_ata, registered, channel, platter, spent>>

\* A disk that does not answer or is too large is not registered.
block_register ==
  LET d == ide_pc[Boot].disk IN
  /\ ide_pc[Boot].at \in {"done", "failed"}
  /\ IF ide_pc[Boot].at = "done" /\ kind[d] # "huge"
     THEN registered' = registered \cup {d} /\ UNCHANGED is_ata
     ELSE is_ata' = [is_ata EXCEPT ![d] = FALSE] /\ UNCHANGED registered
  /\ NextDisk
  /\ UNCHANGED <<kind, channel, hw, platter, latest, spent>>

unlock_channel(t) ==
  /\ t # Boot /\ ide_pc[t].at = "done"
  /\ channel' = [channel EXCEPT !.lock = Free]
  /\ ide_pc' = [ide_pc EXCEPT ![t] = Off]
  /\ UNCHANGED <<kind, is_ata, registered, hw, platter, latest, spent>>

-----------------------------------------------------------------------------
(* The controller *)

DeviceStep ==
  /\ hw.bsy
  /\ \/ /\ hw.command \in {"read", "identify"}
        /\ hw' = [hw EXCEPT !.bsy = FALSE, !.drq = TRUE, !.irq = TRUE,
                            !.data = platter[hw.device][hw.sector]]
        /\ UNCHANGED platter
     \/ /\ hw.command = "write"
        /\ hw' = [hw EXCEPT !.bsy = FALSE, !.drq = TRUE, !.command = "commit"]
        /\ UNCHANGED platter
     \/ /\ hw.command = "commit"
        /\ hw' = [hw EXCEPT !.bsy = FALSE, !.irq = TRUE]
        /\ platter' = [platter EXCEPT ![hw.device][hw.sector] = hw.data]
  /\ UNCHANGED <<kind, is_ata, registered, channel, latest, ide_pc, spent>>

DeviceAbort ==
  /\ hw.bsy /\ hw.command # "commit" /\ spent.abort < MaxAbort
  /\ spent' = [spent EXCEPT !.abort = @ + 1]
  /\ hw' = [hw EXCEPT !.bsy = FALSE, !.irq = TRUE]
  /\ UNCHANGED <<kind, is_ata, registered, channel, platter, latest, ide_pc>>

StrayInterrupt ==
  /\ spent.stray < MaxStray /\ ~hw.irq
  /\ spent' = [spent EXCEPT !.stray = @ + 1]
  /\ hw' = [hw EXCEPT !.irq = TRUE]
  /\ UNCHANGED <<kind, is_ata, registered, channel, platter, latest, ide_pc>>

\* An interrupt counts from the first command on: nothing resets
\* expecting_interrupt.
interrupt_handler ==
  /\ hw.irq
  /\ hw' = [hw EXCEPT !.irq = FALSE]
  /\ channel' = IF channel.expecting_interrupt
                THEN [channel EXCEPT !.completion_wait = @ + 1] ELSE channel
  /\ UNCHANGED <<kind, is_ata, registered, platter, latest, ide_pc, spent>>

-----------------------------------------------------------------------------
IdeStep(t) == \/ lock_channel(t) \/ select_sector(t) \/ issue_pio_command(t)
              \/ completion_down(t) \/ transfer_sector(t) \/ unlock_channel(t)
BootStep == reset_channel \/ check_device_type \/ identify_ata_device \/ block_register \/ IdeStep(Boot)
Controller == DeviceStep \/ interrupt_handler
IdeNext == \/ BootStep \/ Controller \/ DeviceAbort \/ StrayInterrupt
           \/ \E t \in IdeThread : block_request(t) \/ IdeStep(t)

IdeSpec == IdeInit /\ [][IdeNext]_ideVars

-----------------------------------------------------------------------------
(* Properties *)

(* A read returns what the last write to its sector transferred, although  *)
(* requests of several threads and both disks share the controller's       *)
(* registers, and although a stray interrupt makes a request go on early.  *)
ReadsLatest ==
  \A t \in IdeThread : ide_pc[t].at = "done" /\ ide_pc[t].op = "read" =>
    ide_pc[t].value = latest[ide_pc[t].disk][ide_pc[t].sector]

(* Without stray interrupts and aborts every command takes its own         *)
(* completion: when the channel is free the controller is idle and no      *)
(* interrupt is counted or pending.                                        *)
ChannelQuiet ==
  channel.lock = Free /\ ide_pc[Boot] = Off /\ spent.stray = 0 /\ spent.abort = 0
    => ~hw.bsy /\ ~hw.drq /\ ~hw.irq /\ channel.completion_wait = 0

(* Every request ends, in its result or in a panic, and so does the        *)
(* detection of the disks.                                                 *)
RequestsEnd ==
  \A t \in IdeThread \cup {Boot} :
    ide_pc[t] # Off ~> ide_pc[t] = Off \/ \E u \in IdeThread : ide_pc[u].at = "panic"

(* Without stray interrupts ide_write returns only after the disk has      *)
(* taken the data.                                                         *)
WriteAcknowledged ==
  spent.stray = 0 => \A t \in IdeThread : ide_pc[t].at = "done" /\ ide_pc[t].op = "write" =>
    platter[ide_pc[t].disk][ide_pc[t].sector] = ide_pc[t].value

(* Requests through the shared channel have the effect of requests one     *)
(* after the other.                                                        *)
RequestsOrdered == ReadsLatest /\ ChannelQuiet /\ WriteAcknowledged
=============================================================================
