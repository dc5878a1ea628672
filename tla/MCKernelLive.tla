---------------------------- MODULE MCKernelLive ----------------------------
(***************************************************************************)
(* The parts of the kernel in which something must eventually happen, side *)
(* by side: a behaviour schedules threads, prints, reads the keyboard and  *)
(* the serial port, or uses the disks of an ATA channel.                   *)
(***************************************************************************)
EXTENDS Synch, CharDevices, Ide

CONSTANT l
MCLockOf == [x \in Conds |-> l]

VARIABLE part
all == <<vars, devVars, ideVars, part>>

MCInit ==
  /\ part \in {"threads", "print", "input", "disk"}
  /\ Init /\ DevInit
  /\ IF part = "disk" THEN IdeInit
     ELSE kind = [d \in Disk |-> "none"] /\ IdeReset
          /\ ide_pc = [t \in IdeThread \cup {Boot} |-> Off]

MCNext ==
  /\ UNCHANGED part
  /\ \/ part = "threads" /\ Next /\ UNCHANGED <<devVars, ideVars>>
     \/ /\ UNCHANGED <<vars, ideVars>>
        /\ \/ part = "print" /\ (PrintNext \/ PanicNext)
           \/ part = "input" /\ InputNext
           \/ part \in {"print", "input"} /\ (serial_interrupt \/ Transmitted)
     \/ part = "disk" /\ IdeNext /\ UNCHANGED <<vars, devVars>>

\* The controllers go on working, interrupts are delivered and a panic goes
\* on.  A thread in a call gets to its next step, and the threads that wait for
\* the channel's lock, which are served in order, all get it.
MCSpec ==
  /\ MCInit /\ [][MCNext]_all
  /\ \A t \in Thread :
       SF_<<vars, ideVars>>(
         \/ part = "threads" /\ current = t /\ Continue /\ UNCHANGED ideVars
         \/ part = "disk" /\ t \in IdeThread /\ lock_channel(t) /\ UNCHANGED vars)
  /\ SF_vars(part = "threads" /\ timer_interrupt)
  /\ WF_devVars(part \in {"print", "input"} /\ serial_interrupt)
  /\ WF_devVars(part \in {"print", "input"} /\ Transmitted)
  /\ WF_devVars(part = "print" /\ PanicPut) /\ WF_devVars(part = "print" /\ serial_flush)
  /\ \A t \in Writer : WF_devVars(part = "print" /\ WriterStep(t))
  /\ \A t \in Reader : WF_devVars(part = "input" /\ input_getc(t))
  /\ WF_ideVars(part = "disk" /\ BootStep)
  /\ WF_ideVars(part = "disk" /\ DeviceStep)
  /\ WF_ideVars(part = "disk" /\ interrupt_handler)
  /\ \A t \in IdeThread : WF_ideVars(part = "disk" /\ IdeStep(t))

MCCodes == [key : Modifiers \cup {"caps"}, release : BOOLEAN]
           \cup [key : {"letter", "digit", "bracket", "del"}, release : {FALSE}]
=============================================================================
