------------------------- MODULE BlockDevicesProofs -------------------------
(***************************************************************************)
(* The block devices, for every value of the constants: requests through   *)
(* the shared channel of ide.c have the effect of requests one after the   *)
(* other, and partition.c finds the partitions the table names and none    *)
(* that reaches past the disk.                                             *)
(***************************************************************************)
EXTENDS Partitions, Ide, TLAPS

-----------------------------------------------------------------------------
(* The channel.                                                            *)

\* Contents of a sector; the places of a request that has the channel; a
\* request; the channel, the controller and the disks.
Contents == Values \cup {Blank}
Working == {"select", "issue", "busy", "down", "done", "panic"}
Requests == [at : Working \cup {"lock", "reset", "check", "identify", "failed"},
             op : {"read", "write", "identify"}, disk : Disk, sector : IdeSectors,
             value : Contents]

Channels == [lock : IdeThread \cup {Free}, expecting_interrupt : BOOLEAN,
             completion_wait : Nat]
Controllers ==
  [device : Disk, sector : IdeSectors,
   command : {"none", "read", "write", "identify", "commit"},
   bsy : BOOLEAN, drq : BOOLEAN, irq : BOOLEAN, data : Contents]
Disks == [Disk -> [IdeSectors -> Contents]]

IdeTypes ==
  /\ channel \in Channels /\ hw \in Controllers
  /\ platter \in Disks /\ latest \in Disks
  /\ ide_pc \in [IdeThread \cup {Boot} -> Requests \cup {Off}]
  /\ registered \subseteq Disk
  /\ spent \in [stray : Nat, abort : Nat, requests : Nat]

\* The lock is held by the thread that works, and while the disks are
\* detected there are no requests.
LockInv ==
  /\ \A t \in IdeThread :
       IF channel.lock = t THEN ide_pc[t].at \in Working
       ELSE ide_pc[t].at \in {"idle", "lock"}
  /\ \A t \in IdeThread : ide_pc[t] # Off => ide_pc[t].op # "identify"
  /\ ide_pc[Boot] # Off =>
       /\ ide_pc[Boot].op = "identify" /\ ide_pc[Boot].at # "lock"
       /\ \A t \in IdeThread : ide_pc[t] = Off

\* The request the controller works for: that of the lock's holder, or of the
\* detection.
Current == IF channel.lock = Free THEN ide_pc[Boot] ELSE ide_pc[channel.lock]

\* The controller is idle but for a write it finishes on its own.
Resting(h) == ~h.drq /\ (h.bsy => h.command = "commit")
Selected(p, h) == h.device = p.disk /\ h.sector = p.sector
Still(h) == ~h.bsy /\ ~h.drq

\* The controller's registers are where the request p has left them.
Fits(p, h, disks) ==
  /\ p.at \in {"idle", "select"} => Resting(h)
  /\ p.at \in {"reset", "check", "identify", "panic", "failed"} => Still(h)
  /\ p.at = "issue" => Selected(p, h) /\ Still(h)
  /\ p.at \in {"busy", "down"} /\ p.op # "write" =>
       /\ Selected(p, h) /\ (h.bsy => h.command = p.op)
       /\ h.drq => ~h.bsy /\ h.data = disks[p.disk][p.sector]
  /\ p.at = "busy" /\ p.op = "write" =>
       /\ Selected(p, h) /\ (h.bsy => h.command = "write" /\ ~h.drq)
       /\ h.drq => h.command = "commit"
  /\ p.at = "down" /\ p.op = "write" => Selected(p, h)
  /\ p.at \in {"down", "done"} /\ p.op = "write" =>
       Resting(h) /\ disks[p.disk][p.sector] = p.value
  /\ p.at = "done" /\ p.op # "write" =>
       Still(h) /\ p.value = disks[p.disk][p.sector]

\* The disks hold what was transferred, but for the write that is finished.
Settled(h, disks, pl) ==
  disks = IF h.bsy /\ h.command = "commit"
          THEN [pl EXCEPT ![h.device][h.sector] = h.data] ELSE pl

\* No completion is pending or counted; one is.
Silent(h, c) == ~h.irq /\ c.completion_wait = 0
Announced(h, c) == \/ h.irq /\ c.completion_wait = 0
                   \/ ~h.irq /\ c.completion_wait = 1

\* Without stray interrupts every command takes its own completion.
Calm(p, h, c) ==
  /\ p.at \notin {"busy", "down", "panic"} => ~h.bsy /\ Silent(h, c)
  /\ p.at \in {"busy", "down"} => c.expecting_interrupt
  /\ p.at = "busy" /\ p.op # "write" => ~h.bsy /\ Silent(h, c)
  /\ p.at = "busy" /\ p.op = "write" /\ (h.bsy \/ h.drq) => Silent(h, c)
  /\ p.at = "down" => IF h.bsy THEN Silent(h, c) ELSE Announced(h, c)

\* The inductive invariant.
IdeInv ==
  /\ IdeTypes /\ LockInv
  /\ Fits(Current, hw, latest) /\ Settled(hw, latest, platter)
  /\ spent.stray = 0 => Calm(Current, hw, channel)
-----------------------------------------------------------------------------
\* The fields of a request, and of one that has gone on.
LEMMA RequestFields ==
  ASSUME NEW p \in Requests
  PROVE  /\ p # Off /\ p.at # "idle"
         /\ p.op \in {"read", "write", "identify"} /\ p.disk \in Disk
         /\ p.sector \in IdeSectors /\ p.value \in Contents
  <1>1. /\ p.at # "idle"
        /\ p.op \in {"read", "write", "identify"} /\ p.disk \in Disk
        /\ p.sector \in IdeSectors /\ p.value \in Contents
    BY DEF Requests, Working
  <1>2. Off.at = "idle"
    BY DEF Off
  <1> QED BY <1>1, <1>2, Zenon

\* The request that is worked on is the current one.
LEMMA CurrentIs ==
  ASSUME IdeInv, NEW t \in IdeThread \cup {Boot}, ide_pc[t].at \notin {"idle", "lock"}
  PROVE  /\ Current = ide_pc[t] /\ ide_pc[t] \in Requests
         /\ t = Boot => channel.lock = Free
         /\ t # Boot => channel.lock = t /\ ide_pc[t].at \in Working
         /\ ide_pc[t].at \in Working \cup {"reset", "check", "identify", "failed"}
  <1> USE IdeAssumption
  <1>1. Off.at = "idle"
    BY DEF Off
  <1>2. ide_pc[t] \in Requests /\ ide_pc[t] # Off
    BY <1>1, Zenon DEF IdeInv, IdeTypes
  <1>3. channel.lock \in IdeThread \cup {Free}
    BY Zenon DEF IdeInv, IdeTypes, Channels
  <1>4. CASE t = Boot
    <2>1. \A u \in IdeThread : ide_pc[u].at = "idle"
      BY <1>1, <1>2, <1>4, Zenon DEF IdeInv, LockInv
    <2>2. channel.lock = Free
      BY <1>3, <2>1 DEF IdeInv, LockInv, Working
    <2> QED BY <1>2, <1>4, <2>2 DEF Current, Requests
  <1>5. CASE t \in IdeThread
    <2>1. channel.lock = t /\ ide_pc[t].at \in Working
      BY <1>5, Zenon DEF IdeInv, LockInv
    <2> QED BY <1>2, <1>5, <2>1, Zenon DEF Current
  <1> QED BY <1>4, <1>5, Zenon

\* A step of the current request keeps the lock's discipline, and it stays
\* the current one.
LEMMA CurrentGoesOn ==
  ASSUME IdeInv, NEW t \in IdeThread \cup {Boot}, ide_pc[t].at \notin {"idle", "lock"},
         NEW r \in Requests, r.op = ide_pc[t].op, r.at # "lock",
         t # Boot => r.at \in Working,
         ide_pc' = [ide_pc EXCEPT ![t] = r], channel'.lock = channel.lock
  PROVE  /\ Current' = r /\ LockInv'
         /\ ide_pc' \in [IdeThread \cup {Boot} -> Requests \cup {Off}]
  <1> USE IdeAssumption
  <1>1. ide_pc \in [IdeThread \cup {Boot} -> Requests \cup {Off}] /\ LockInv
    BY Zenon DEF IdeInv, IdeTypes
  <1>2. /\ ide_pc[t] \in Requests
        /\ t = Boot => channel.lock = Free
        /\ t # Boot => channel.lock = t
    BY CurrentIs, Zenon
  <1>3. r # Off /\ ide_pc[t] # Off
    BY <1>2, RequestFields, Zenon
  <1>4. /\ ide_pc' \in [IdeThread \cup {Boot} -> Requests \cup {Off}]
        /\ ide_pc'[t] = r
        /\ \A u \in (IdeThread \cup {Boot}) \ {t} : ide_pc'[u] = ide_pc[u]
    BY <1>1, Zenon
  <1>5. Current' = r
    BY <1>2, <1>4, Zenon DEF Current
  <1>6. CASE t = Boot
    <2>1. \A u \in IdeThread : ide_pc'[u] = ide_pc[u] /\ ide_pc[u] = Off
      BY <1>1, <1>3, <1>4, <1>6, Zenon DEF LockInv
    <2>2. r.op = "identify"
      BY <1>1, <1>3, <1>6, Zenon DEF LockInv
    <2>3. LockInv'
      BY <1>1, <1>4, <1>6, <2>1, <2>2, Zenon DEF LockInv
    <2> QED BY <1>4, <1>5, <2>3, Zenon
  <1>7. CASE t \in IdeThread
    <2>1. ide_pc'[Boot] = Off
      BY <1>1, <1>3, <1>4, <1>7, Zenon DEF LockInv
    <2>2. r.op # "identify"
      BY <1>1, <1>3, <1>7, Zenon DEF LockInv
    <2>3. LockInv'
      BY <1>1, <1>2, <1>4, <1>7, <2>1, <2>2, Zenon DEF LockInv
    <2> QED BY <1>4, <1>5, <2>3
  <1> QED BY <1>6, <1>7, Zenon

\* Changing the place of a request changes nothing else of it.
LEMMA Moved ==
  ASSUME NEW p \in Requests, NEW place \in Working \cup {"check", "identify", "failed"}
  PROVE  LET r == [p EXCEPT !.at = place] IN
         /\ r \in Requests /\ r.at = place
         /\ r.op = p.op /\ r.disk = p.disk /\ r.sector = p.sector /\ r.value = p.value
  BY DEF Requests, Working

\* Without an unfinished write the disks hold what was transferred.
LEMMA SettledSame ==
  ASSUME NEW h, NEW g, NEW disks, NEW pl, Settled(h, disks, pl),
         ~(h.bsy /\ h.command = "commit"), ~(g.bsy /\ g.command = "commit")
  PROVE  Settled(g, disks, pl) /\ disks = pl
  BY Zenon DEF Settled
\* What the invariant says of a working request.
LEMMA WorkingFacts ==
  ASSUME IdeInv, NEW t \in IdeThread \cup {Boot}, ide_pc[t].at \notin {"idle", "lock"}
  PROVE  /\ ide_pc[t] \in Requests /\ hw \in Controllers /\ channel \in Channels
         /\ platter \in Disks /\ latest \in Disks
         /\ Fits(ide_pc[t], hw, latest) /\ Settled(hw, latest, platter)
         /\ spent.stray = 0 => Calm(ide_pc[t], hw, channel)
         /\ ide_pc \in [IdeThread \cup {Boot} -> Requests \cup {Off}]
         /\ registered \subseteq Disk
         /\ spent \in [stray : Nat, abort : Nat, requests : Nat]
         /\ t # Boot => ide_pc[t].at \in Working
  BY CurrentIs, Zenon DEF IdeInv, IdeTypes

\* select_sector waits until the channel is idle, and takes it as selected.
LEMMA SelectKeeps ==
  ASSUME IdeInv, NEW t \in IdeThread \cup {Boot}, select_sector(t)
  PROVE  IdeInv'
  <1> DEFINE p == ide_pc[t]
             r == [p EXCEPT !.at = "issue"]
  <1>1. p.at = "select" /\ ~hw.bsy /\ ~hw.drq
    BY Zenon DEF select_sector, wait_until_idle
  <1>2. /\ ide_pc' = [ide_pc EXCEPT ![t] = r]
        /\ UNCHANGED <<registered, channel, platter, latest, spent>>
        /\ hw' = [select_device_wait(p.disk) EXCEPT !.sector = p.sector]
    BY Zenon DEF select_sector, IdeAt
  <1>3. /\ p \in Requests /\ hw \in Controllers /\ channel \in Channels
        /\ platter \in Disks /\ latest \in Disks
        /\ Fits(p, hw, latest) /\ Settled(hw, latest, platter)
        /\ spent.stray = 0 => Calm(p, hw, channel)
        /\ registered \subseteq Disk
        /\ spent \in [stray : Nat, abort : Nat, requests : Nat]
    BY <1>1, WorkingFacts, Zenon
  <1>4. /\ r \in Requests /\ r.at = "issue"
        /\ r.op = p.op /\ r.disk = p.disk /\ r.sector = p.sector /\ r.value = p.value
    BY <1>3, Moved, Zenon DEF Working
  <1>5. p.disk \in Disk /\ p.sector \in IdeSectors
    BY <1>3, RequestFields, Zenon
  <1> HIDE DEF r
  <1>6. /\ Current' = r /\ LockInv'
        /\ ide_pc' \in [IdeThread \cup {Boot} -> Requests \cup {Off}]
    <2>1. r.at # "lock" /\ r.at \in Working /\ channel'.lock = channel.lock /\ p.at \notin {"idle", "lock"}
      BY <1>1, <1>2, <1>4 DEF Working
    <2> QED BY <1>2, <1>4, <2>1, CurrentGoesOn, Zenon
  <1>7. /\ hw' \in Controllers /\ hw'.device = p.disk /\ hw'.sector = p.sector
        /\ hw'.bsy = hw.bsy /\ hw'.drq = hw.drq /\ hw'.irq = FALSE
    BY <1>2, <1>3, <1>5, Zenon DEF Controllers, select_device_wait, select_device
  <1> HIDE DEF p
  <1>8. Fits(r, hw', latest)
    BY <1>1, <1>4, <1>7, Zenon DEF Fits, Selected, Still
  <1>9. Settled(hw', latest, platter)
    BY <1>1, <1>3, <1>7, SettledSame
  <1>10. spent.stray = 0 => Calm(r, hw', channel)
    BY <1>1, <1>3, <1>4, <1>7 DEF Calm, Silent
  <1> QED
    BY <1>2, <1>3, <1>6, <1>7, <1>8, <1>9, <1>10, Zenon DEF IdeInv, IdeTypes

\* issue_pio_command expects an interrupt and makes the controller busy.
LEMMA IssueKeeps ==
  ASSUME IdeInv, NEW t \in IdeThread \cup {Boot}, issue_pio_command(t)
  PROVE  IdeInv'
  <1> DEFINE p == ide_pc[t]
             place == IF p.op = "write" THEN "busy" ELSE "down"
             r == [p EXCEPT !.at = place]
  <1>1. p.at = "issue"
    BY Zenon DEF issue_pio_command
  <1>2. /\ ide_pc' = [ide_pc EXCEPT ![t] = r]
        /\ UNCHANGED <<registered, platter, latest, spent>>
        /\ hw' = [hw EXCEPT !.command = p.op, !.bsy = TRUE]
        /\ channel' = [channel EXCEPT !.expecting_interrupt = TRUE]
    BY Zenon DEF issue_pio_command, IdeAt
  <1>3. /\ p \in Requests /\ hw \in Controllers /\ channel \in Channels
        /\ platter \in Disks /\ latest \in Disks
        /\ Fits(p, hw, latest) /\ Settled(hw, latest, platter)
        /\ spent.stray = 0 => Calm(p, hw, channel)
        /\ registered \subseteq Disk
        /\ spent \in [stray : Nat, abort : Nat, requests : Nat]
    BY <1>1, WorkingFacts
  <1>4. /\ r \in Requests /\ r.at = place
        /\ r.op = p.op /\ r.disk = p.disk /\ r.sector = p.sector /\ r.value = p.value
    <2>1. place \in Working
      BY DEF Working
    <2> HIDE DEF place
    <2> QED BY <1>3, <2>1, Moved
  <1>5. p.op \in {"read", "write", "identify"}
    BY <1>3, RequestFields, Zenon
  <1> HIDE DEF r
  <1>6. /\ channel' \in Channels /\ channel'.lock = channel.lock
        /\ channel'.expecting_interrupt = TRUE
        /\ channel'.completion_wait = channel.completion_wait
    BY <1>2, <1>3, Zenon DEF Channels
  <1>7. /\ Current' = r /\ LockInv'
        /\ ide_pc' \in [IdeThread \cup {Boot} -> Requests \cup {Off}]
    <2>1. r.at # "lock" /\ r.at \in Working /\ p.at \notin {"idle", "lock"}
      BY <1>1, <1>4, Zenon DEF Working
    <2> QED BY <1>2, <1>4, <1>6, <2>1, CurrentGoesOn, Zenon
  <1>8. /\ hw' \in Controllers /\ hw'.device = hw.device /\ hw'.sector = hw.sector
        /\ hw'.bsy = TRUE /\ hw'.drq = hw.drq /\ hw'.irq = hw.irq /\ hw'.command = p.op
    BY <1>2, <1>3, <1>5, Zenon DEF Controllers
  <1> HIDE DEF p
  <1>9. Selected(r, hw') /\ ~hw'.drq /\ ~hw.bsy
    BY <1>1, <1>3, <1>4, <1>8, Zenon DEF Fits, Selected, Still
  <1>10. Fits(r, hw', latest)
    BY <1>4, <1>5, <1>8, <1>9 DEF Fits
  <1>11. Settled(hw', latest, platter)
    <2>1. hw'.command # "commit"
      BY <1>5, <1>8, Zenon
    <2> QED BY <1>3, <1>9, <2>1, SettledSame, Zenon
  <1>12. spent.stray = 0 => Calm(r, hw', channel')
    BY <1>1, <1>3, <1>4, <1>6, <1>8 DEF Calm, Silent
  <1> QED
    BY <1>2, <1>3, <1>6, <1>7, <1>8, <1>10, <1>11, <1>12, Zenon DEF IdeInv, IdeTypes

\* sema_down takes the completion of the command.
LEMMA DownKeeps ==
  ASSUME IdeInv, NEW t \in IdeThread \cup {Boot}, completion_down(t)
  PROVE  IdeInv'
  <1> DEFINE p == ide_pc[t]
             place == IF p.op = "write" THEN "done" ELSE "busy"
             r == [p EXCEPT !.at = place]
  <1>1. p.at = "down" /\ channel.completion_wait > 0
    BY Zenon DEF completion_down
  <1>2. /\ ide_pc' = [ide_pc EXCEPT ![t] = r]
        /\ UNCHANGED <<registered, hw, platter, latest, spent>>
        /\ channel' = [channel EXCEPT !.completion_wait = @ - 1]
    BY Zenon DEF completion_down, IdeAt
  <1>3. /\ p \in Requests /\ hw \in Controllers /\ channel \in Channels
        /\ platter \in Disks /\ latest \in Disks
        /\ Fits(p, hw, latest) /\ Settled(hw, latest, platter)
        /\ spent.stray = 0 => Calm(p, hw, channel)
        /\ registered \subseteq Disk
        /\ spent \in [stray : Nat, abort : Nat, requests : Nat]
    BY <1>1, WorkingFacts
  <1>4. /\ r \in Requests /\ r.at = place
        /\ r.op = p.op /\ r.disk = p.disk /\ r.sector = p.sector /\ r.value = p.value
    <2>1. place \in Working
      BY DEF Working
    <2> HIDE DEF place
    <2> QED BY <1>3, <2>1, Moved
  <1> HIDE DEF r
  <1>5. /\ channel' \in Channels /\ channel'.lock = channel.lock
        /\ channel'.expecting_interrupt = channel.expecting_interrupt
        /\ channel'.completion_wait = channel.completion_wait - 1
        /\ channel.completion_wait \in Nat
    BY <1>1, <1>2, <1>3 DEF Channels
  <1>6. /\ Current' = r /\ LockInv'
        /\ ide_pc' \in [IdeThread \cup {Boot} -> Requests \cup {Off}]
    <2>1. r.at # "lock" /\ r.at \in Working /\ p.at \notin {"idle", "lock"}
      BY <1>1, <1>4, Zenon DEF Working
    <2> QED BY <1>2, <1>4, <1>5, <2>1, CurrentGoesOn, Zenon
  <1> HIDE DEF p
  <1>7. Fits(r, hw, latest)
    BY <1>1, <1>3, <1>4, Zenon DEF Fits, Selected, Still, Resting
  <1>8. ASSUME spent.stray = 0 PROVE Calm(r, hw, channel')
    <2>1. ~hw.bsy /\ Announced(hw, channel) /\ channel.expecting_interrupt
      BY <1>1, <1>3, <1>8 DEF Calm, Silent
    <2>2. ~hw.irq /\ channel'.completion_wait = 0
      BY <1>1, <1>5, <2>1 DEF Announced
    <2> QED BY <1>4, <1>5, <2>1, <2>2, Zenon DEF Calm, Silent
  <1> QED
    BY <1>2, <1>3, <1>5, <1>6, <1>7, <1>8, Zenon DEF IdeInv, IdeTypes
\* The transfer of a sector, or its failure.
LEMMA TransferKeeps ==
  ASSUME IdeInv, NEW t \in IdeThread \cup {Boot}, transfer_sector(t)
  PROVE  IdeInv'
  <1> DEFINE p == ide_pc[t]
  <1>1. p.at = "busy" /\ UNCHANGED <<registered, channel, platter, spent>>
    BY Zenon DEF transfer_sector
  <1>2. /\ p \in Requests /\ hw \in Controllers /\ channel \in Channels
        /\ platter \in Disks /\ latest \in Disks
        /\ Fits(p, hw, latest) /\ Settled(hw, latest, platter)
        /\ spent.stray = 0 => Calm(p, hw, channel)
        /\ registered \subseteq Disk
        /\ spent \in [stray : Nat, abort : Nat, requests : Nat]
        /\ t # Boot => p.at \in Working
    BY <1>1, WorkingFacts
  <1>3. /\ p.op \in {"read", "write", "identify"} /\ p.disk \in Disk
        /\ p.sector \in IdeSectors /\ p.value \in Contents
    BY <1>2, RequestFields, Zenon
  <1>4. ASSUME NEW r \in Requests, r.op = p.op, r.at # "lock", t # Boot => r.at \in Working,
               ide_pc' = [ide_pc EXCEPT ![t] = r],
               hw' \in Controllers, latest' \in Disks, Fits(r, hw', latest'),
               Settled(hw', latest', platter), spent.stray = 0 => Calm(r, hw', channel)
        PROVE  IdeInv'
    <2>1. /\ Current' = r /\ LockInv'
          /\ ide_pc' \in [IdeThread \cup {Boot} -> Requests \cup {Off}]
      <3>1. p.at \notin {"idle", "lock"} /\ channel'.lock = channel.lock
        BY <1>1
      <3> QED BY <1>4, <3>1, CurrentGoesOn, Zenon
    <2> QED BY <1>1, <1>2, <1>4, <2>1, Zenon DEF IdeInv, IdeTypes
  <1>5. ASSUME ~hw.bsy, hw.drq, p.op = "write",
               hw' = [hw EXCEPT !.drq = FALSE, !.bsy = TRUE, !.data = p.value],
               latest' = [latest EXCEPT ![p.disk][p.sector] = p.value], IdeAt(t, "down")
        PROVE  IdeInv'
    <2> DEFINE r == [p EXCEPT !.at = "down"]
    <2>1. /\ r \in Requests /\ r.at = "down" /\ ide_pc' = [ide_pc EXCEPT ![t] = r]
          /\ r.op = p.op /\ r.disk = p.disk /\ r.sector = p.sector /\ r.value = p.value
      BY <1>2, <1>5, Moved, Zenon DEF Working, IdeAt
    <2> HIDE DEF r, p
    <2>2. /\ hw.command = "commit" /\ hw.device = p.disk /\ hw.sector = p.sector
      BY <1>1, <1>2, <1>5 DEF Fits, Selected
    <2>3. /\ hw' \in Controllers /\ hw'.device = p.disk /\ hw'.sector = p.sector
          /\ hw'.command = "commit" /\ hw'.bsy = TRUE /\ hw'.drq = FALSE
          /\ hw'.irq = hw.irq /\ hw'.data = p.value
      BY <1>2, <1>3, <1>5, <2>2, Zenon DEF Controllers
    <2>4. latest' \in Disks /\ latest'[p.disk][p.sector] = p.value
      BY <1>2, <1>3, <1>5 DEF Disks
    <2>5. latest = platter
      BY <1>2, <1>5, Zenon DEF Settled
    <2>6. Settled(hw', latest', platter)
      BY <1>5, <2>3, <2>5, Zenon DEF Settled
    <2>7. Fits(r, hw', latest')
      BY <1>5, <2>1, <2>3, <2>4 DEF Fits, Selected, Resting
    <2>8. spent.stray = 0 => Calm(r, hw', channel)
      BY <1>1, <1>2, <1>5, <2>1, <2>3 DEF Calm, Silent
    <2>9. r.at # "lock" /\ r.at \in Working
      BY <2>1 DEF Working
    <2> QED BY <1>4, <2>1, <2>3, <2>4, <2>6, <2>7, <2>8, <2>9, Zenon
  <1>6. ASSUME ~hw.bsy, hw.drq, p.op # "write", hw' = [hw EXCEPT !.drq = FALSE],
               ide_pc' = [ide_pc EXCEPT ![t].value = hw.data, ![t].at = "done"],
               latest' = latest
        PROVE  IdeInv'
    <2> DEFINE r == [p EXCEPT !.value = hw.data, !.at = "done"]
    <2>1. hw.data \in Contents
      BY <1>2 DEF Controllers
    <2>2. /\ r \in Requests /\ r.at = "done"
          /\ r.op = p.op /\ r.disk = p.disk /\ r.sector = p.sector /\ r.value = hw.data
      BY <1>2, <2>1, Zenon DEF Requests, Working
    <2>3. ide_pc' = [ide_pc EXCEPT ![t] = r]
      BY <1>6, WorkingFacts, Zenon
    <2> HIDE DEF r, p
    <2>4. hw' \in Controllers /\ hw'.bsy = hw.bsy /\ hw'.drq = FALSE /\ hw'.irq = hw.irq
      BY <1>2, <1>6, Zenon DEF Controllers
    <2>5. Settled(hw', latest, platter)
      BY <1>2, <1>6, <2>4, SettledSame, Zenon
    <2>6. hw.data = latest[p.disk][p.sector]
      BY <1>1, <1>2, <1>6, Zenon DEF Fits
    <2>7. Fits(r, hw', latest)
      BY <1>6, <2>2, <2>4, <2>6, Zenon DEF Fits, Still
    <2>8. spent.stray = 0 => Calm(r, hw', channel)
      BY <1>1, <1>2, <1>6, <2>2, <2>4 DEF Calm, Silent
    <2>9. r.at # "lock" /\ r.at \in Working
      BY <2>2 DEF Working
    <2> QED BY <1>2, <1>4, <1>6, <2>2, <2>3, <2>4, <2>5, <2>7, <2>8, <2>9, Zenon
  <1>7. ASSUME ~hw.bsy, hw.drq = FALSE, hw' = hw, latest' = latest,
               IdeAt(t, IF p.op = "identify" THEN "failed" ELSE "panic")
        PROVE  IdeInv'
    <2> DEFINE place == IF p.op = "identify" THEN "failed" ELSE "panic"
               r == [p EXCEPT !.at = place]
    <2>1. place \in Working \cup {"check", "identify", "failed"}
      BY DEF Working
    <2>a. place # "lock" /\ place \in {"failed", "panic"}
          /\ (place = "failed" => p.op = "identify")
      OBVIOUS
    <2>2. /\ ide_pc' = [ide_pc EXCEPT ![t] = r]
      BY <1>7, Zenon DEF IdeAt
    <2> HIDE DEF place
    <2>3. /\ r \in Requests /\ r.at = place
          /\ r.op = p.op /\ r.disk = p.disk /\ r.sector = p.sector /\ r.value = p.value
      BY <1>2, <2>1, Moved, Zenon
    <2> HIDE DEF r
    <2>4. t # Boot => r.at \in Working
      <3>1. ASSUME t # Boot PROVE p.op # "identify"
        <4>1. t \in IdeThread /\ p # Off
          BY <1>2, <3>1, RequestFields, Zenon
        <4> QED BY <4>1, Zenon DEF IdeInv, LockInv
      <3> QED BY <2>a, <2>3, <3>1 DEF Working
    <2> HIDE DEF p
    <2>5. Fits(r, hw, latest)
      BY <1>7, <2>a, <2>3, Zenon DEF Fits, Still
    <2>6. spent.stray = 0 => Calm(r, hw, channel)
      BY <1>1, <1>2, <1>7, <2>a, <2>3 DEF Calm, Silent
    <2> QED BY <1>2, <1>4, <1>7, <2>a, <2>2, <2>3, <2>4, <2>5, <2>6, Zenon
  <1>8. \/ /\ ~hw.bsy /\ hw.drq /\ p.op = "write"
           /\ hw' = [hw EXCEPT !.drq = FALSE, !.bsy = TRUE, !.data = p.value]
           /\ latest' = [latest EXCEPT ![p.disk][p.sector] = p.value] /\ IdeAt(t, "down")
        \/ /\ ~hw.bsy /\ hw.drq /\ p.op # "write" /\ hw' = [hw EXCEPT !.drq = FALSE]
           /\ ide_pc' = [ide_pc EXCEPT ![t].value = hw.data, ![t].at = "done"]
           /\ latest' = latest
        \/ /\ ~hw.bsy /\ hw.drq = FALSE /\ hw' = hw /\ latest' = latest
           /\ IdeAt(t, IF p.op = "identify" THEN "failed" ELSE "panic")
    BY Zenon DEF transfer_sector, wait_while_busy
  <1> QED BY <1>5, <1>6, <1>7, <1>8, Zenon

\* lock_channel: with the channel free nothing but a write of an earlier
\* request may still be going on.
LEMMA LockKeeps ==
  ASSUME IdeInv, NEW t \in IdeThread \cup {Boot}, lock_channel(t)
  PROVE  IdeInv'
  <1> USE IdeAssumption
  <1> DEFINE p == ide_pc[t]
             r == [p EXCEPT !.at = "select"]
  <1>1. /\ p.at = "lock" /\ channel.lock = Free
        /\ channel' = [channel EXCEPT !.lock = t]
        /\ UNCHANGED <<registered, hw, platter, latest, spent>>
        /\ ide_pc' = [ide_pc EXCEPT ![t] = r]
    BY Zenon DEF lock_channel, IdeAt
  <1>2. /\ channel \in Channels /\ ide_pc \in [IdeThread \cup {Boot} -> Requests \cup {Off}]
        /\ LockInv
    BY Zenon DEF IdeInv, IdeTypes
  <1>3. p \in Requests /\ p # Off
    BY <1>1, <1>2 DEF Off
  <1>4. t \in IdeThread /\ ide_pc[Boot] = Off /\ p.op # "identify"
    <2>1. t # Boot
      BY <1>1, <1>2, <1>3, Zenon DEF LockInv
    <2>2. t \in IdeThread
      BY <2>1, Zenon
    <2> QED BY <1>2, <1>3, <2>2, Zenon DEF LockInv
  <1>5. /\ r \in Requests /\ r.at = "select"
        /\ r.op = p.op /\ r.disk = p.disk /\ r.sector = p.sector /\ r.value = p.value
    BY <1>3, Moved, Zenon DEF Working
  <1> HIDE DEF r
  <1>6. /\ channel' \in Channels /\ channel'.lock = t
        /\ channel'.expecting_interrupt = channel.expecting_interrupt
        /\ channel'.completion_wait = channel.completion_wait
    BY <1>1, <1>2, <1>4 DEF Channels
  <1>7. /\ ide_pc' \in [IdeThread \cup {Boot} -> Requests \cup {Off}] /\ ide_pc'[t] = r
        /\ \A u \in (IdeThread \cup {Boot}) \ {t} : ide_pc'[u] = ide_pc[u]
    BY <1>1, <1>2, <1>5, Zenon
  <1>8. Current' = r /\ Current = Off
    BY <1>1, <1>4, <1>6, <1>7, Zenon DEF Current
  <1>9. LockInv'
    <2>1. /\ \A u \in IdeThread \ {t} : channel'.lock # u /\ channel.lock # u
          /\ r.at \in Working /\ ide_pc'[Boot] = Off
      BY <1>1, <1>4, <1>5, <1>6, <1>7 DEF Working
    <2>2. ASSUME NEW u \in IdeThread
          PROVE  /\ IF channel'.lock = u THEN ide_pc'[u].at \in Working
                    ELSE ide_pc'[u].at \in {"idle", "lock"}
                 /\ ide_pc'[u] # Off => ide_pc'[u].op # "identify"
      <3>1. CASE u = t
        BY <1>4, <1>5, <1>6, <1>7, <2>1, <3>1, Zenon
      <3>2. CASE u # t
        <4>1. ide_pc'[u] = ide_pc[u] /\ channel'.lock # u /\ channel.lock # u
          BY <1>7, <2>1, <3>2, Zenon
        <4> QED BY <1>2, <4>1, Zenon DEF LockInv
      <3> QED BY <3>1, <3>2, Zenon
    <2> QED BY <2>1, <2>2, Zenon DEF LockInv
  <1>10. Off.at = "idle"
    BY DEF Off
  <1>11. Fits(r, hw, latest)
    <2>1. Resting(hw)
      BY <1>8, <1>10, Zenon DEF IdeInv, Fits
    <2> QED BY <1>5, <2>1, Zenon DEF Fits
  <1>12. spent.stray = 0 => Calm(r, hw, channel')
    <2>1. spent.stray = 0 => ~hw.bsy /\ Silent(hw, channel)
      BY <1>8, <1>10 DEF IdeInv, Calm
    <2> QED BY <1>5, <1>6, <2>1, Zenon DEF Calm, Silent
  <1> QED BY <1>1, <1>6, <1>7, <1>8, <1>9, <1>11, <1>12, Zenon DEF IdeInv, IdeTypes

\* unlock_channel: the channel is free, with a write that goes on at most.
LEMMA UnlockKeeps ==
  ASSUME IdeInv, NEW t \in IdeThread \cup {Boot}, unlock_channel(t)
  PROVE  IdeInv'
  <1> USE IdeAssumption
  <1> DEFINE p == ide_pc[t]
  <1>1. /\ p.at = "done" /\ t # Boot /\ t \in IdeThread
        /\ channel' = [channel EXCEPT !.lock = Free]
        /\ UNCHANGED <<registered, hw, platter, latest, spent>>
        /\ ide_pc' = [ide_pc EXCEPT ![t] = Off]
    BY Zenon DEF unlock_channel
  <1>2. /\ p \in Requests /\ channel \in Channels /\ Fits(p, hw, latest)
        /\ spent.stray = 0 => Calm(p, hw, channel)
        /\ ide_pc \in [IdeThread \cup {Boot} -> Requests \cup {Off}]
    BY <1>1, WorkingFacts, Zenon
  <1>3. p # Off /\ channel.lock = t /\ LockInv
    BY <1>1, <1>2, RequestFields, CurrentIs DEF IdeInv
  <1>4. /\ channel' \in Channels /\ channel'.lock = Free
        /\ channel'.completion_wait = channel.completion_wait
    BY <1>1, <1>2 DEF Channels
  <1>5. /\ ide_pc' \in [IdeThread \cup {Boot} -> Requests \cup {Off}] /\ ide_pc'[t] = Off
        /\ \A u \in (IdeThread \cup {Boot}) \ {t} : ide_pc'[u] = ide_pc[u]
    BY <1>1, <1>2, Zenon
  <1>6. ide_pc'[Boot] = Off /\ Current' = Off
    <2>1. ide_pc[Boot] = Off
      BY <1>1, <1>3, Zenon DEF LockInv
    <2> QED BY <1>1, <1>4, <1>5, <2>1, Zenon DEF Current
  <1>7. Off.at = "idle"
    BY DEF Off
  <1>8. LockInv'
    <2>1. ASSUME NEW u \in IdeThread
          PROVE  /\ IF channel'.lock = u THEN ide_pc'[u].at \in Working
                    ELSE ide_pc'[u].at \in {"idle", "lock"}
                 /\ ide_pc'[u] # Off => ide_pc'[u].op # "identify"
      <3>1. channel'.lock # u
        BY <1>4, Zenon
      <3>2. CASE u = t
        BY <1>5, <1>7, <3>1, <3>2, Zenon
      <3>3. CASE u # t
        <4>1. ide_pc'[u] = ide_pc[u] /\ channel.lock # u
          BY <1>3, <1>5, <3>3, Zenon
        <4> QED BY <1>3, <3>1, <4>1, Zenon DEF LockInv
      <3> QED BY <3>2, <3>3, Zenon
    <2> QED BY <1>6, <2>1, Zenon DEF LockInv
  <1> HIDE DEF p
  <1>9. Fits(Off, hw, latest)
    <2>1. Resting(hw)
      BY <1>1, <1>2, Zenon DEF Fits, Still, Resting
    <2> QED BY <1>7, <2>1, Zenon DEF Fits
  <1>10. spent.stray = 0 => Calm(Off, hw, channel')
    <2>1. spent.stray = 0 => ~hw.bsy /\ Silent(hw, channel)
      BY <1>1, <1>2 DEF Calm
    <2> QED BY <1>4, <1>7, <2>1, Zenon DEF Calm, Silent
  <1> QED BY <1>1, <1>4, <1>5, <1>6, <1>8, <1>9, <1>10, Zenon DEF IdeInv, IdeTypes
\* block_request: a thread that waits for the channel changes nothing for the
\* request that has it.
LEMMA RequestKeeps ==
  ASSUME IdeInv, NEW t \in IdeThread, block_request(t)
  PROVE  IdeInv'
  <1> USE IdeAssumption
  <1>1. /\ ide_pc[t] = Off /\ ide_pc[Boot] = Off
        /\ UNCHANGED <<registered, channel, hw, platter, latest>>
        /\ spent' = [spent EXCEPT !.requests = @ + 1]
    BY Zenon DEF block_request
  <1>2. /\ channel \in Channels /\ ide_pc \in [IdeThread \cup {Boot} -> Requests \cup {Off}]
        /\ LockInv /\ registered \subseteq Disk
        /\ spent \in [stray : Nat, abort : Nat, requests : Nat]
    BY Zenon DEF IdeInv, IdeTypes
  <1>3. PICK r \in Requests : /\ r.at = "lock" /\ r.op \in {"read", "write"}
                              /\ ide_pc' = [ide_pc EXCEPT ![t] = r]
    <2>1. PICK d \in registered, s \in IdeSectors :
            \/ \E v \in Values : ide_pc' = [ide_pc EXCEPT ![t] = Request("write", d, s, v)]
            \/ ide_pc' = [ide_pc EXCEPT ![t] = Request("read", d, s, Blank)]
      BY Zenon DEF block_request
    <2>2. d \in Disk
      BY <1>2, Zenon
    <2>3. \A v \in Contents, op \in {"read", "write"} :
            /\ Request(op, d, s, v) \in Requests /\ Request(op, d, s, v).at = "lock"
            /\ Request(op, d, s, v).op = op
      BY <2>2, Zenon DEF Request, Requests, Working
    <2>4. Blank \in Contents /\ \A v \in Values : v \in Contents
      BY Zenon DEF Contents
    <2> QED BY <2>1, <2>3, <2>4, Zenon
  <1>4. /\ ide_pc' \in [IdeThread \cup {Boot} -> Requests \cup {Off}] /\ ide_pc'[t] = r
        /\ \A u \in (IdeThread \cup {Boot}) \ {t} : ide_pc'[u] = ide_pc[u]
    BY <1>2, <1>3, Zenon
  <1>5. Off.at = "idle" /\ "idle" \notin Working
    BY DEF Off, Working
  <1>6. channel.lock # t
    BY <1>1, <1>2, <1>5, Zenon DEF LockInv
  <1>7. Current' = Current
    <2>1. channel.lock \in IdeThread \cup {Free}
      BY <1>2 DEF Channels
    <2>2. ide_pc'[Boot] = ide_pc[Boot]
      BY <1>4, Zenon
    <2>3. channel.lock # Free => ide_pc'[channel.lock] = ide_pc[channel.lock]
      BY <1>4, <1>6, <2>1, Zenon
    <2> QED BY <1>1, <2>2, <2>3, Zenon DEF Current
  <1>8. LockInv'
    <2>1. r.op # "identify" /\ r.at \in {"idle", "lock"} /\ ide_pc'[Boot] = Off
      BY <1>1, <1>3, <1>4
    <2> QED BY <1>1, <1>2, <1>4, <1>6, <2>1, Zenon DEF LockInv
  <1>9. spent' \in [stray : Nat, abort : Nat, requests : Nat] /\ spent'.stray = spent.stray
    BY <1>1, <1>2
  <1> QED BY <1>1, <1>4, <1>7, <1>8, <1>9, Zenon DEF IdeInv, IdeTypes

\* The detection's record with another disk.
LEMMA OtherDisk ==
  ASSUME NEW p \in Requests, NEW d \in Disk, NEW place \in {"check", "identify"}
  PROVE  LET r == [p EXCEPT !.disk = d, !.at = place] IN
         r \in Requests /\ r.at = place /\ r.op = p.op
  BY Zenon DEF Requests, Working

\* The detection goes on with a place where the controller is still.
LEMMA DetectionGoesOn ==
  ASSUME IdeInv, ide_pc[Boot].at \notin {"idle", "lock"},
         NEW r \in Requests, r.op = ide_pc[Boot].op,
         r.at \in {"check", "identify", "select"},
         ide_pc' = [ide_pc EXCEPT ![Boot] = r],
         UNCHANGED <<channel, platter, latest, spent>>, registered' \subseteq Disk,
         hw' \in Controllers, ~hw.bsy, ~hw'.bsy, ~hw'.drq, hw'.irq => hw.irq,
         spent.stray = 0 => Silent(hw, channel)
  PROVE  IdeInv'
  <1>1. /\ Current' = r /\ LockInv'
        /\ ide_pc' \in [IdeThread \cup {Boot} -> Requests \cup {Off}]
    <2>1. r.at # "lock" /\ channel'.lock = channel.lock
      OBVIOUS
    <2> QED BY <2>1, CurrentGoesOn, Zenon
  <1>2. Fits(r, hw', latest)
    BY Zenon DEF Fits, Resting, Still
  <1>3. Settled(hw', latest, platter)
    BY SettledSame, Zenon DEF IdeInv
  <1>4. spent.stray = 0 => Calm(r, hw', channel)
    BY Zenon DEF Calm, Silent
  <1> QED BY <1>1, <1>2, <1>3, <1>4, Zenon DEF IdeInv, IdeTypes

\* The detection ends.
LEMMA DetectionEnds ==
  ASSUME IdeInv, ide_pc[Boot].at \notin {"idle", "lock"},
         ide_pc' = [ide_pc EXCEPT ![Boot] = Off],
         UNCHANGED <<channel, hw, platter, latest, spent>>, registered' \subseteq Disk,
         Resting(hw), spent.stray = 0 => ~hw.bsy /\ Silent(hw, channel)
  PROVE  IdeInv'
  <1> USE IdeAssumption
  <1>1. channel.lock = Free /\ ide_pc[Boot] \in Requests /\ ide_pc[Boot] # Off
    BY CurrentIs, RequestFields, Zenon
  <1>2. ide_pc \in [IdeThread \cup {Boot} -> Requests \cup {Off}] /\ LockInv
    BY Zenon DEF IdeInv, IdeTypes
  <1>3. /\ ide_pc' \in [IdeThread \cup {Boot} -> Requests \cup {Off}] /\ ide_pc'[Boot] = Off
        /\ \A u \in IdeThread : ide_pc'[u] = ide_pc[u]
    BY <1>2, Zenon
  <1>4. Current' = Off /\ Off.at = "idle"
    BY <1>1, <1>3 DEF Current, Off
  <1>5. LockInv'
    BY <1>2, <1>3, Zenon DEF LockInv
  <1>6. Fits(Off, hw, latest)
    BY <1>4, Zenon DEF Fits
  <1>7. spent.stray = 0 => Calm(Off, hw, channel)
    BY <1>4 DEF Calm
  <1> QED BY <1>3, <1>4, <1>5, <1>6, <1>7, Zenon DEF IdeInv, IdeTypes

\* ide_init goes on to the other disk, or is done.
LEMMA NextDiskKeeps ==
  ASSUME IdeInv, ide_pc[Boot].at \in {"identify", "done", "failed"}, NextDisk,
         UNCHANGED <<channel, hw, platter, latest, spent>>, registered' \subseteq Disk,
         ~hw.bsy, ~hw.drq, spent.stray = 0 => Silent(hw, channel)
  PROVE  IdeInv'
  <1>1. /\ ide_pc[Boot] \in Requests /\ hw \in Controllers
        /\ ide_pc[Boot].at \notin {"idle", "lock"}
        /\ ide_pc \in [IdeThread \cup {Boot} -> Requests \cup {Off}]
    BY WorkingFacts, Zenon
  <1>2. CASE ide_pc' = [ide_pc EXCEPT ![Boot].disk = 1, ![Boot].at = "identify"]
    <2> DEFINE r == [ide_pc[Boot] EXCEPT !.disk = 1, !.at = "identify"]
    <2>1. r \in Requests /\ r.at = "identify" /\ r.op = ide_pc[Boot].op
      BY <1>1, OtherDisk, Zenon DEF Disk
    <2>2. ide_pc' = [ide_pc EXCEPT ![Boot] = r]
      BY <1>1, <1>2, Zenon
    <2> HIDE DEF r
    <2>3. r.at \in {"check", "identify", "select"}
      BY <2>1, Zenon
    <2> QED BY <1>1, <2>1, <2>2, <2>3, DetectionGoesOn, Zenon
  <1>3. CASE ide_pc' = [ide_pc EXCEPT ![Boot] = Off]
    <2>1. Resting(hw)
      BY Zenon DEF Resting
    <2> QED BY <1>1, <1>3, <2>1, DetectionEnds, Zenon
  <1> QED BY <1>2, <1>3, Zenon DEF NextDisk
\* reset_channel, check_device_type, identify_ata_device and block_register.
LEMMA DetectionKeeps ==
  ASSUME IdeInv,
         reset_channel \/ check_device_type \/ identify_ata_device \/ block_register
  PROVE  IdeInv'
  <1> DEFINE p == ide_pc[Boot]
  <1>1. p.at \in {"reset", "check", "identify", "done", "failed"}
    BY Zenon DEF reset_channel, check_device_type, identify_ata_device, block_register
  <1>a. p.at \notin {"idle", "lock"}
    BY <1>1, Zenon
  <1>2. /\ p \in Requests /\ hw \in Controllers /\ channel \in Channels
        /\ Fits(p, hw, latest)
        /\ spent.stray = 0 => Calm(p, hw, channel)
        /\ ide_pc \in [IdeThread \cup {Boot} -> Requests \cup {Off}]
        /\ registered \subseteq Disk
    BY <1>a, WorkingFacts, Zenon
  <1>3. p.disk \in Disk /\ p.op = "identify"
    <2>1. p.disk \in Disk /\ p # Off
      BY <1>2, RequestFields, Zenon
    <2> QED BY <2>1, Zenon DEF IdeInv, LockInv
  <1>4. ~hw.bsy /\ ~hw.drq /\ (spent.stray = 0 => Silent(hw, channel))
    <2> HIDE DEF p
    <2> QED BY <1>1, <1>2, <1>3 DEF Fits, Still, Calm
  <1>5. CASE reset_channel
    <2> DEFINE d == IF kind[1] # "none" THEN 1 ELSE 0
               r == [p EXCEPT !.at = "check"]
    <2>1. /\ ide_pc' = [ide_pc EXCEPT ![Boot] = r]
          /\ UNCHANGED <<registered, channel, platter, latest, spent>>
          /\ hw' = [select_device(d) EXCEPT !.bsy = FALSE, !.drq = FALSE]
      BY <1>5, Zenon DEF reset_channel, IdeAt
    <2>2. d \in Disk
      BY DEF Disk
    <2> HIDE DEF d
    <2>3. hw' \in Controllers /\ ~hw'.bsy /\ ~hw'.drq /\ hw'.irq = hw.irq
      BY <1>2, <2>1, <2>2, Zenon DEF Controllers, select_device
    <2>4. r \in Requests /\ r.at = "check" /\ r.op = p.op
      BY <1>2, Moved
    <2> HIDE DEF r
    <2>5. r.at \in {"check", "identify", "select"} /\ registered' \subseteq Disk
      BY <1>2, <2>1, <2>4
    <2> QED BY <1>a, <1>4, <2>1, <2>3, <2>4, <2>5, DetectionGoesOn, Zenon
  <1>6. CASE check_device_type
    <2>1. /\ hw' = [select_device(p.disk) EXCEPT !.irq = FALSE]
          /\ UNCHANGED <<registered, channel, platter, latest, spent>>
          /\ p.at = "check"
      BY <1>6, Zenon DEF check_device_type
    <2>2. hw' \in Controllers /\ ~hw'.bsy /\ ~hw'.drq /\ ~hw'.irq
      BY <1>2, <1>3, <1>4, <2>1, Zenon DEF Controllers, select_device
    <2>3. \E r \in Requests : /\ r.op = p.op /\ r.at \in {"check", "identify", "select"}
                              /\ ide_pc' = [ide_pc EXCEPT ![Boot] = r]
      <3>1. CASE ide_pc' = [ide_pc EXCEPT ![Boot].disk = 1]
        <4> DEFINE r == [p EXCEPT !.disk = 1]
        <4>1. r \in Requests /\ r.op = p.op /\ r.at = "check"
          BY <1>2, <2>1 DEF Requests, Disk
        <4>2. ide_pc' = [ide_pc EXCEPT ![Boot] = r]
          BY <3>1, Zenon
        <4> HIDE DEF r
        <4>3. r.at \in {"check", "identify", "select"}
          BY <4>1
        <4> QED BY <4>1, <4>2, <4>3, Zenon
      <3>2. CASE ide_pc' = [ide_pc EXCEPT ![Boot].disk = 0, ![Boot].at = "identify"]
        <4> DEFINE r == [p EXCEPT !.disk = 0, !.at = "identify"]
        <4>1. r \in Requests /\ r.op = p.op /\ r.at = "identify"
          BY <1>2, OtherDisk, Zenon DEF Disk
        <4>2. ide_pc' = [ide_pc EXCEPT ![Boot] = r]
          BY <1>2, <3>2, Zenon
        <4> HIDE DEF r
        <4>3. r.at \in {"check", "identify", "select"}
          BY <4>1
        <4> QED BY <4>1, <4>2, <4>3, Zenon
      <3> QED BY <1>6, <3>1, <3>2, Zenon DEF check_device_type
    <2>4. registered' \subseteq Disk
      BY <1>2, <2>1, Zenon
    <2> QED BY <1>a, <1>4, <2>1, <2>2, <2>3, <2>4, DetectionGoesOn, Zenon
  <1>7. CASE identify_ata_device
    <2>1. /\ p.at = "identify" /\ (IdeAt(Boot, "select") \/ NextDisk)
          /\ UNCHANGED <<registered, channel, hw, platter, latest, spent>>
      BY <1>7, Zenon DEF identify_ata_device
    <2>2. registered' \subseteq Disk
      BY <1>2, <2>1, Zenon
    <2>3. CASE IdeAt(Boot, "select")
      <3> DEFINE r == [p EXCEPT !.at = "select"]
      <3>1. ide_pc' = [ide_pc EXCEPT ![Boot] = r]
        BY <2>3, Zenon DEF IdeAt
      <3>2. r \in Requests /\ r.at = "select" /\ r.op = p.op
        BY <1>2, Moved, Zenon DEF Working
      <3> HIDE DEF r
      <3>3. r.at \in {"check", "identify", "select"} /\ hw' \in Controllers
            /\ ~hw'.bsy /\ ~hw'.drq /\ (hw'.irq => hw.irq)
        BY <1>2, <1>4, <2>1, <3>2, Zenon
      <3> QED BY <1>a, <1>4, <2>1, <2>2, <3>1, <3>2, <3>3, DetectionGoesOn, Zenon
    <2>4. CASE NextDisk
      BY <1>1, <1>4, <2>1, <2>2, <2>4, NextDiskKeeps, Zenon
    <2> QED BY <2>1, <2>3, <2>4, Zenon
  <1>8. CASE block_register
    <2>1. /\ p.at \in {"done", "failed"} /\ NextDisk
          /\ UNCHANGED <<channel, hw, platter, latest, spent>>
          /\ registered' = registered \/ registered' = registered \cup {p.disk}
      BY <1>8, Zenon DEF block_register
    <2>2. registered' \subseteq Disk
      BY <1>2, <1>3, <2>1, Zenon
    <2>3. p.at \in {"identify", "done", "failed"}
      BY <2>1
    <2> QED BY <1>4, <2>1, <2>2, <2>3, NextDiskKeeps, Zenon
  <1> QED BY <1>5, <1>6, <1>7, <1>8, Zenon

\* The controller, an interrupt and the handler leave the threads alone.
LEMMA ControllerKeeps ==
  ASSUME IdeInv, UNCHANGED <<registered, ide_pc>>, channel' \in Channels,
         channel'.lock = channel.lock, hw' \in Controllers, platter' \in Disks,
         latest' = latest, spent' \in [stray : Nat, abort : Nat, requests : Nat],
         Fits(Current, hw', latest), Settled(hw', latest, platter'),
         spent'.stray = 0 => Calm(Current, hw', channel')
  PROVE  IdeInv'
  <1>1. Current' = Current
    BY Zenon DEF Current
  <1>2. LockInv'
    BY Zenon DEF IdeInv, LockInv
  <1> QED BY <1>1, <1>2, Zenon DEF IdeInv, IdeTypes

\* The controller has read a sector, asks for data, or has written them.
LEMMA DeviceKeeps == ASSUME IdeInv, DeviceStep PROVE IdeInv'
  <1> DEFINE p == Current
  <1>1. /\ hw.bsy /\ UNCHANGED <<registered, channel, latest, ide_pc, spent>>
        /\ \/ /\ hw.command \in {"read", "identify"}
              /\ hw' = [hw EXCEPT !.bsy = FALSE, !.drq = TRUE, !.irq = TRUE,
                                  !.data = platter[hw.device][hw.sector]]
              /\ platter' = platter
           \/ /\ hw.command = "write"
              /\ hw' = [hw EXCEPT !.bsy = FALSE, !.drq = TRUE, !.command = "commit"]
              /\ platter' = platter
           \/ /\ hw.command = "commit"
              /\ hw' = [hw EXCEPT !.bsy = FALSE, !.irq = TRUE]
              /\ platter' = [platter EXCEPT ![hw.device][hw.sector] = hw.data]
    BY Zenon DEF DeviceStep
  <1>2. /\ hw \in Controllers /\ channel \in Channels /\ platter \in Disks /\ latest \in Disks
        /\ Fits(p, hw, latest) /\ Settled(hw, latest, platter)
        /\ spent.stray = 0 => Calm(p, hw, channel)
        /\ spent \in [stray : Nat, abort : Nat, requests : Nat]
    BY Zenon DEF IdeInv, IdeTypes
  <1>3. p = Off \/ p \in Requests
    <2>1. channel.lock \in IdeThread \cup {Free}
      BY <1>2, Zenon DEF Channels
    <2> QED BY <2>1, Zenon DEF IdeInv, IdeTypes, Current
  <1>4. p.at \in Working \cup {"idle", "lock", "reset", "check", "identify", "failed"}
    BY <1>3 DEF Requests, Off
  <1>n. p.at # "lock"
    <2>1. channel.lock \in IdeThread \cup {Free}
      BY <1>2 DEF Channels
    <2>2. "lock" \notin Working /\ Off.at # "lock"
      BY DEF Working, Off
    <2> QED BY <2>1, <2>2, Zenon DEF IdeInv, LockInv, Current
  <1>5. p.at # "idle" =>
          /\ p.op \in {"read", "write", "identify"} /\ p.disk \in Disk /\ p.sector \in IdeSectors
    <2>1. Off.at = "idle"
      BY DEF Off
    <2> QED BY <1>3, <2>1, RequestFields, Zenon
  <1> HIDE DEF p
  <1>6. ASSUME hw.command \in {"read", "identify"},
               hw' = [hw EXCEPT !.bsy = FALSE, !.drq = TRUE, !.irq = TRUE,
                                !.data = platter[hw.device][hw.sector]],
               platter' = platter
        PROVE  IdeInv'
    <2>1. p.at \in {"busy", "down"} /\ p.op # "write"
      BY <1>1, <1>2, <1>4, <1>n, <1>5, <1>6 DEF Fits, Working, Still, Resting
    <2>2. Selected(p, hw)
      BY <1>2, <2>1, Zenon DEF Fits
    <2>3. latest = platter
      BY <1>2, <1>6, Zenon DEF Settled
    <2>4. platter[hw.device][hw.sector] \in Contents
      BY <1>2 DEF Disks, Controllers
    <2>5. /\ hw' \in Controllers /\ hw'.bsy = FALSE /\ hw'.drq = TRUE /\ hw'.irq = TRUE
          /\ hw'.data = platter[hw.device][hw.sector] /\ hw'.device = hw.device
          /\ hw'.sector = hw.sector
      BY <1>2, <1>6, <2>4, Zenon DEF Controllers
    <2>6. Fits(p, hw', latest)
      BY <2>1, <2>2, <2>3, <2>5, Zenon DEF Fits, Selected
    <2>7. Settled(hw', latest, platter)
      BY <2>3, <2>5, Zenon DEF Settled
    <2>8. spent.stray = 0 => Calm(p, hw', channel)
      BY <1>1, <1>2, <2>1, <2>5, Zenon DEF Calm, Silent, Announced
    <2> QED BY <1>1, <1>2, <1>6, <2>5, <2>6, <2>7, <2>8, ControllerKeeps, Zenon DEF p
  <1>7. ASSUME hw.command = "write",
               hw' = [hw EXCEPT !.bsy = FALSE, !.drq = TRUE, !.command = "commit"],
               platter' = platter
        PROVE  IdeInv'
    <2>1. p.at = "busy" /\ p.op = "write"
      BY <1>1, <1>2, <1>4, <1>n, <1>5, <1>7, Zenon DEF Fits, Working, Still, Resting
    <2>2. Selected(p, hw)
      BY <1>2, <2>1, Zenon DEF Fits
    <2>3. latest = platter
      BY <1>2, <1>7 DEF Settled
    <2>5. /\ hw' \in Controllers /\ hw'.bsy = FALSE /\ hw'.drq = TRUE /\ hw'.irq = hw.irq
          /\ hw'.command = "commit" /\ hw'.device = hw.device /\ hw'.sector = hw.sector
      BY <1>2, <1>7, Zenon DEF Controllers
    <2>6. Fits(p, hw', latest)
      BY <2>1, <2>2, <2>5, Zenon DEF Fits, Selected
    <2>7. Settled(hw', latest, platter)
      BY <2>3, <2>5, Zenon DEF Settled
    <2>8. spent.stray = 0 => Calm(p, hw', channel)
      BY <1>1, <1>2, <2>1, <2>5, Zenon DEF Calm, Silent
    <2> QED BY <1>1, <1>2, <1>7, <2>5, <2>6, <2>7, <2>8, ControllerKeeps, Zenon DEF p
  <1>8. ASSUME hw.command = "commit", hw' = [hw EXCEPT !.bsy = FALSE, !.irq = TRUE],
               platter' = [platter EXCEPT ![hw.device][hw.sector] = hw.data]
        PROVE  IdeInv'
    <2>1. latest = platter'
      BY <1>1, <1>2, <1>8, Zenon DEF Settled
    <2>2. /\ hw' \in Controllers /\ hw'.bsy = FALSE /\ hw'.drq = hw.drq /\ hw'.irq = TRUE
          /\ hw'.command = hw.command /\ hw'.device = hw.device /\ hw'.sector = hw.sector
          /\ hw'.data = hw.data
      BY <1>2, <1>8, Zenon DEF Controllers
    <2>3. Fits(p, hw', latest)
      BY <1>1, <1>2, <1>5, <1>8, <2>2, Zenon DEF Fits, Selected, Still, Resting
    <2>4. Settled(hw', latest, platter')
      BY <2>1, <2>2, Zenon DEF Settled
    <2>5. ASSUME spent.stray = 0 PROVE Calm(p, hw', channel)
      <3>1. p.at = "down" \/ p.at = "panic" \/ (p.at = "busy" /\ p.op = "write")
        BY <1>1, <1>2, <2>5, Zenon DEF Calm
      <3>2. p.at = "down"
        BY <1>1, <1>2, <1>8, <3>1, Zenon DEF Fits, Still
      <3> QED BY <1>1, <1>2, <2>2, <2>5, <3>2, Zenon DEF Calm, Silent, Announced
    <2>6. platter' \in Disks
      BY <1>2, <2>1, Zenon
    <2> QED BY <1>1, <1>2, <2>2, <2>3, <2>4, <2>5, <2>6, ControllerKeeps, Zenon DEF p
  <1> QED BY <1>1, <1>6, <1>7, <1>8, Zenon
\* DeviceAbort: the request then finds no data.
LEMMA AbortKeeps == ASSUME IdeInv, DeviceAbort PROVE IdeInv'
  <1> DEFINE p == Current
  <1>1. /\ hw.bsy /\ hw.command # "commit"
        /\ UNCHANGED <<registered, channel, platter, latest, ide_pc>>
        /\ spent' = [spent EXCEPT !.abort = @ + 1]
        /\ hw' = [hw EXCEPT !.bsy = FALSE, !.irq = TRUE]
    BY Zenon DEF DeviceAbort
  <1>2. /\ hw \in Controllers /\ channel \in Channels /\ platter \in Disks /\ latest \in Disks
        /\ Fits(p, hw, latest) /\ Settled(hw, latest, platter)
        /\ spent.stray = 0 => Calm(p, hw, channel)
        /\ spent \in [stray : Nat, abort : Nat, requests : Nat]
    BY Zenon DEF IdeInv, IdeTypes
  <1> HIDE DEF p
  <1>3. /\ hw' \in Controllers /\ hw'.bsy = FALSE /\ hw'.drq = hw.drq /\ hw'.irq = TRUE
        /\ hw'.command = hw.command /\ hw'.device = hw.device /\ hw'.sector = hw.sector
        /\ hw'.data = hw.data
    BY <1>1, <1>2, Zenon DEF Controllers
  <1>4. spent' \in [stray : Nat, abort : Nat, requests : Nat] /\ spent'.stray = spent.stray
    BY <1>1, <1>2
  <1>5. Fits(p, hw', latest)
    BY <1>1, <1>2, <1>3, Zenon DEF Fits, Selected, Still, Resting
  <1>6. Settled(hw', latest, platter)
    BY <1>1, <1>2, <1>3, SettledSame, Zenon
  <1>7. ASSUME spent.stray = 0 PROVE Calm(p, hw', channel)
    <2>1. p.at \in {"busy", "down", "panic"} /\ (p.at = "busy" => p.op = "write")
      BY <1>1, <1>2, <1>7, Zenon DEF Calm
    <2>2. p.at = "busy" => ~hw.drq
      BY <1>1, <1>2, <2>1, Zenon DEF Fits
    <2> QED BY <1>1, <1>2, <1>3, <1>7, <2>1, <2>2, Zenon DEF Calm, Silent, Announced
  <1> QED BY <1>1, <1>2, <1>3, <1>4, <1>5, <1>6, <1>7, ControllerKeeps, Zenon DEF p

\* A stray interrupt changes nothing but the pending interrupt.
LEMMA StrayKeeps == ASSUME IdeInv, StrayInterrupt PROVE IdeInv'
  <1> DEFINE p == Current
  <1>1. /\ UNCHANGED <<registered, channel, platter, latest, ide_pc>>
        /\ spent' = [spent EXCEPT !.stray = @ + 1]
        /\ hw' = [hw EXCEPT !.irq = TRUE]
    BY Zenon DEF StrayInterrupt
  <1>2. /\ hw \in Controllers /\ channel \in Channels /\ platter \in Disks /\ latest \in Disks
        /\ Fits(p, hw, latest) /\ Settled(hw, latest, platter)
        /\ spent \in [stray : Nat, abort : Nat, requests : Nat]
    BY Zenon DEF IdeInv, IdeTypes
  <1> HIDE DEF p
  <1>3. /\ hw' \in Controllers /\ hw'.bsy = hw.bsy /\ hw'.drq = hw.drq
        /\ hw'.command = hw.command /\ hw'.device = hw.device /\ hw'.sector = hw.sector
        /\ hw'.data = hw.data
    BY <1>1, <1>2, Zenon DEF Controllers
  <1>4. spent' \in [stray : Nat, abort : Nat, requests : Nat] /\ spent'.stray # 0
    BY <1>1, <1>2
  <1>5. Fits(p, hw', latest)
    BY <1>2, <1>3, Zenon DEF Fits, Selected, Still, Resting
  <1>6. Settled(hw', latest, platter)
    BY <1>2, <1>3, Zenon DEF Settled
  <1> QED BY <1>1, <1>2, <1>3, <1>4, <1>5, <1>6, ControllerKeeps, Zenon DEF p

\* interrupt_handler counts the completion that was pending.
LEMMA HandlerKeeps == ASSUME IdeInv, interrupt_handler PROVE IdeInv'
  <1> DEFINE p == Current
  <1>1. /\ hw.irq /\ UNCHANGED <<registered, platter, latest, ide_pc, spent>>
        /\ hw' = [hw EXCEPT !.irq = FALSE]
        /\ channel' = IF channel.expecting_interrupt
                      THEN [channel EXCEPT !.completion_wait = @ + 1] ELSE channel
    BY Zenon DEF interrupt_handler
  <1>2. /\ hw \in Controllers /\ channel \in Channels /\ platter \in Disks /\ latest \in Disks
        /\ Fits(p, hw, latest) /\ Settled(hw, latest, platter)
        /\ spent.stray = 0 => Calm(p, hw, channel)
        /\ spent \in [stray : Nat, abort : Nat, requests : Nat]
    BY Zenon DEF IdeInv, IdeTypes
  <1> HIDE DEF p
  <1>3. /\ hw' \in Controllers /\ hw'.bsy = hw.bsy /\ hw'.drq = hw.drq
        /\ hw'.command = hw.command /\ hw'.device = hw.device /\ hw'.sector = hw.sector
        /\ hw'.data = hw.data /\ hw'.irq = FALSE
    BY <1>1, <1>2, Zenon DEF Controllers
  <1>4. /\ channel' \in Channels /\ channel'.lock = channel.lock
        /\ channel'.expecting_interrupt = channel.expecting_interrupt
        /\ channel.expecting_interrupt =>
             channel'.completion_wait = channel.completion_wait + 1
    <2>1. CASE channel.expecting_interrupt
      <3>1. channel' = [channel EXCEPT !.completion_wait = @ + 1]
        BY <1>1, <2>1, Zenon
      <3> QED BY <1>2, <3>1 DEF Channels
    <2>2. CASE ~channel.expecting_interrupt
      BY <1>1, <1>2, <2>2, Zenon
    <2> QED BY <2>1, <2>2, Zenon
  <1>5. Fits(p, hw', latest)
    BY <1>2, <1>3, Zenon DEF Fits, Selected, Still, Resting
  <1>6. Settled(hw', latest, platter)
    BY <1>2, <1>3, Zenon DEF Settled
  <1>7. ASSUME spent.stray = 0 PROVE Calm(p, hw', channel')
    <2>1. /\ p.at \in {"busy", "down", "panic"}
          /\ p.at = "busy" => p.op = "write" /\ ~hw.bsy /\ ~hw.drq
          /\ p.at = "down" => ~hw.bsy /\ Announced(hw, channel)
          /\ p.at \in {"busy", "down"} => channel.expecting_interrupt
      BY <1>1, <1>2, <1>7, Zenon DEF Calm, Silent
    <2>2. p.at = "down" => Announced(hw', channel')
      BY <1>1, <1>3, <1>4, <2>1 DEF Announced
    <2> QED BY <1>3, <1>4, <2>1, <2>2 DEF Calm
  <1> QED BY <1>1, <1>2, <1>3, <1>4, <1>5, <1>6, <1>7, ControllerKeeps, Zenon DEF p

\* The kernel boots with an idle controller.
LEMMA IdeInitInv == IdeInit => IdeInv
  <1> SUFFICES ASSUME IdeInit PROVE IdeInv
    OBVIOUS
  <1> USE IdeAssumption
  <1> DEFINE r == [Request("identify", 0, 0, Blank) EXCEPT !.at = "reset"]
  <1>1. /\ r \in Requests /\ r.at = "reset" /\ r.op = "identify" /\ r # Off
        /\ Off.at = "idle"
    BY DEF Request, Requests, Working, Disk, Contents, Off
  <1>2. /\ ide_pc \in [IdeThread \cup {Boot} -> Requests \cup {Off}]
        /\ ide_pc[Boot] = r /\ \A t \in IdeThread : ide_pc[t] = Off
    <2>1. ide_pc = [t \in IdeThread \cup {Boot} |-> IF t = Boot THEN r ELSE Off]
      BY Zenon DEF IdeInit
    <2> HIDE DEF r
    <2> QED BY <1>1, <2>1, Zenon
  <1> HIDE DEF r
  <1>3. channel = [lock |-> Free, expecting_interrupt |-> FALSE, completion_wait |-> 0]
        /\ hw = [device |-> 0, sector |-> 0, command |-> "none", bsy |-> FALSE,
                 drq |-> FALSE, irq |-> FALSE, data |-> Blank]
        /\ platter = [d \in Disk |-> [s \in IdeSectors |-> Blank]]
        /\ latest = platter /\ registered = {}
        /\ spent = [stray |-> 0, abort |-> 0, requests |-> 0]
    BY Zenon DEF IdeInit, IdeReset
  <1>4. /\ channel \in Channels /\ channel.lock = Free /\ channel.completion_wait = 0
        /\ hw \in Controllers /\ ~hw.bsy /\ ~hw.drq /\ ~hw.irq
    BY <1>3, Zenon DEF Channels, Controllers, Disk, Contents
  <1>5. platter \in Disks /\ latest \in Disks
    BY <1>3, Zenon DEF Disks, Contents
  <1>6. spent \in [stray : Nat, abort : Nat, requests : Nat] /\ registered \subseteq Disk
    BY <1>3, Zenon
  <1>7. LockInv
    BY <1>1, <1>2, <1>4 DEF LockInv
  <1>8. Current = r
    BY <1>2, <1>4, Zenon DEF Current
  <1>9. Fits(r, hw, latest) /\ Calm(r, hw, channel)
    BY <1>1, <1>4 DEF Fits, Still, Calm, Silent
  <1>10. Settled(hw, latest, platter)
    BY <1>3, <1>4, Zenon DEF Settled
  <1> QED
    BY <1>2, <1>4, <1>5, <1>6, <1>7, <1>8, <1>9, <1>10, Zenon DEF IdeInv, IdeTypes

\* Every step of the driver and of the controller preserves the invariant.
LEMMA IdeStepInv == IdeInv /\ [IdeNext]_ideVars => IdeInv'
  <1> SUFFICES ASSUME IdeInv, [IdeNext]_ideVars PROVE IdeInv'
    OBVIOUS
  <1>1. ASSUME NEW t \in IdeThread \cup {Boot}, IdeStep(t) PROVE IdeInv'
    BY <1>1, LockKeeps, SelectKeeps, IssueKeeps, DownKeeps, TransferKeeps, UnlockKeeps, Zenon
       DEF IdeStep
  <1>2. ASSUME NEW t \in IdeThread, block_request(t) PROVE IdeInv'
    BY <1>2, RequestKeeps, Zenon
  <1>3. CASE BootStep
    BY <1>1, <1>3, DetectionKeeps, Zenon DEF BootStep
  <1>4. CASE Controller \/ DeviceAbort \/ StrayInterrupt
    BY <1>4, DeviceKeeps, HandlerKeeps, AbortKeeps, StrayKeeps, Zenon DEF Controller
  <1>5. CASE UNCHANGED ideVars
    <2>1. UNCHANGED <<registered, channel, hw, platter, latest, ide_pc, spent>>
      BY <1>5, Zenon DEF ideVars
    <2> QED BY <2>1, Zenon DEF IdeInv, IdeTypes, LockInv, Current
  <1> QED BY <1>1, <1>2, <1>3, <1>4, <1>5, Zenon DEF IdeNext

\* The invariant orders the requests.
LEMMA IdeInvOrders == IdeInv => RequestsOrdered
  <1> SUFFICES ASSUME IdeInv PROVE RequestsOrdered
    OBVIOUS
  <1> USE IdeAssumption
  <1>1. ReadsLatest
    <2> SUFFICES ASSUME NEW t \in IdeThread, ide_pc[t].at = "done", ide_pc[t].op = "read"
                 PROVE  ide_pc[t].value = latest[ide_pc[t].disk][ide_pc[t].sector]
      BY Zenon DEF ReadsLatest
    <2>1. Fits(ide_pc[t], hw, latest)
      BY WorkingFacts, Zenon
    <2> QED BY <2>1 DEF Fits
  <1>2. ChannelQuiet
    <2> SUFFICES ASSUME channel.lock = Free, ide_pc[Boot] = Off, spent.stray = 0
                 PROVE  ~hw.bsy /\ ~hw.drq /\ ~hw.irq /\ channel.completion_wait = 0
      BY Zenon DEF ChannelQuiet
    <2>1. Current = Off /\ Off.at = "idle"
      BY DEF Current, Off
    <2>2. Fits(Off, hw, latest) /\ Calm(Off, hw, channel)
      BY <2>1, Zenon DEF IdeInv
    <2> QED BY <2>1, <2>2 DEF Fits, Resting, Calm, Silent
  <1>3. WriteAcknowledged
    <2> SUFFICES ASSUME spent.stray = 0, NEW t \in IdeThread,
                        ide_pc[t].at = "done", ide_pc[t].op = "write"
                 PROVE  platter[ide_pc[t].disk][ide_pc[t].sector] = ide_pc[t].value
      BY Zenon DEF WriteAcknowledged
    <2>1. /\ Fits(ide_pc[t], hw, latest) /\ Calm(ide_pc[t], hw, channel)
          /\ Settled(hw, latest, platter)
      BY WorkingFacts, Zenon
    <2>2. ~hw.bsy /\ latest[ide_pc[t].disk][ide_pc[t].sector] = ide_pc[t].value
      BY <2>1 DEF Fits, Calm
    <2> QED BY <2>1, <2>2, Zenon DEF Settled
  <1> QED BY <1>1, <1>2, <1>3, Zenon DEF RequestsOrdered

\* ide.c, for any number of threads, sectors and requests, and with stray
\* interrupts and aborted commands: a read returns what the last write to its
\* sector transferred; without stray interrupts a write returns after the disk
\* has its data, and a free channel has no completion left over.
THEOREM RequestsAlwaysOrdered == IdeSpec => []RequestsOrdered
  BY IdeInitInv, IdeStepInv, IdeInvOrders, PTL DEF IdeSpec

-----------------------------------------------------------------------------
(* Partitions.                                                             *)

\* Numbers of sectors.
Sector == 0..SectorWord - 1

\* What a registered block is, and that it ends on the disk without wrapping.
Inside(block) == /\ block.start \in Nat /\ block.size \in Nat
                 /\ block.start + block.size <= DeviceSize

\* Types, and that every block is inside the first, the disk.
PartTypesInv ==
  /\ mbr \in [signed : BOOLEAN, partitions : [1..TableLength -> TableEntry]]
  /\ frames \in Seq([sector : Sector, primary : Sector, i : Nat \ {0}])
  /\ all_blocks \in Seq([nr : Nat, type : PartTypes \cup {"raw"}, start : Nat, size : Nat])
  /\ part_nr \in Nat

PartInv == /\ PartTypesInv
           /\ Len(all_blocks) > 0 /\ all_blocks[1].size = DeviceSize
           /\ \A k \in DOMAIN all_blocks : Inside(all_blocks[k])

-----------------------------------------------------------------------------
(* A number below the modulus is its own remainder.                        *)
LEMMA ModSmall == ASSUME NEW n \in Nat \ {0}, NEW x \in 0..n - 1 PROVE x % n = x
  OBVIOUS

(* The sum of two words wraps at most once.                                *)
LEMMA ModSum == ASSUME NEW n \in Nat \ {0}, NEW x \in 0..n - 1, NEW y \in 0..n - 1
                PROVE  (x + y) % n = IF x + y < n THEN x + y ELSE x + y - n
  OBVIOUS

(* A sum of words, reduced, is a word.                                     *)
LEMMA WordSum == ASSUME NEW x \in Sector, NEW y \in Sector
                 PROVE  (x + y) % SectorWord \in Sector
  <1>1. SectorWord \in Nat \ {0}
        BY PartitionsAssumption
  <1>2. (x + y) % SectorWord = IF x + y < SectorWord THEN x + y ELSE x + y - SectorWord
        BY <1>1, ModSum, Zenon DEF Sector
  <1>3. QED
        BY <1>1, <1>2 DEF Sector

(* Sequences: an element more, one replaced, one less.                     *)
LEMMA Appended == ASSUME NEW S, NEW s \in Seq(S), NEW x \in S
                  PROVE  /\ Append(s, x) \in Seq(S) /\ Len(Append(s, x)) = Len(s) + 1
                         /\ \A k \in 1..Len(s) : Append(s, x)[k] = s[k]
                         /\ Append(s, x)[Len(s) + 1] = x
  OBVIOUS

\* A frame that is replaced or popped leaves a sequence of frames.
LEMMA LastReplaced == ASSUME NEW S, NEW s \in Seq(S), Len(s) > 0, NEW x \in S
                      PROVE  /\ s[Len(s)] \in S /\ [s EXCEPT ![Len(s)] = x] \in Seq(S)
                             /\ SubSeq(s, 1, Len(s) - 1) \in Seq(S)
  OBVIOUS

(* found_partition refuses what would wrap: what it registers is inside.   *)
LEMMA FoundInside ==
  ASSUME PartInv, NEW type \in PartTypes, NEW start \in Sector, NEW size \in Sector, NEW nr \in Nat
  PROVE  LET b == found_partition(type, start, size, nr)
         IN /\ b \in Seq([nr : Nat, type : PartTypes \cup {"raw"}, start : Nat, size : Nat])
            /\ Len(b) > 0 /\ b[1].size = DeviceSize
            /\ \A k \in DOMAIN b : Inside(b[k])
<1> DEFINE end == (start + size) % SectorWord
           new == Block(nr, type, start, size)
           b == found_partition(type, start, size, nr)
<1>0. SectorWord \in Nat \ {0} /\ DeviceSize \in Nat /\ DeviceSize < SectorWord
      BY PartitionsAssumption
<1>1. new \in [nr : Nat, type : PartTypes \cup {"raw"}, start : Nat, size : Nat]
      BY <1>0 DEF Block, Sector
<1>2. CASE start >= DeviceSize \/ end < start \/ end > DeviceSize
      BY <1>2, Zenon DEF found_partition, PartInv, PartTypesInv
<1>3. CASE ~(start >= DeviceSize \/ end < start \/ end > DeviceSize)
  <2>1. end = IF start + size < SectorWord THEN start + size ELSE start + size - SectorWord
        BY <1>0, ModSum, Zenon DEF Sector
  <2>2. Inside(new)
        BY <1>0, <1>3, <2>1 DEF Inside, Block, Sector
  <2>3. b = Append(all_blocks, new)
        BY <1>3, Zenon DEF found_partition
  <2> HIDE DEF new
  <2>4. /\ b \in Seq([nr : Nat, type : PartTypes \cup {"raw"}, start : Nat, size : Nat])
        /\ Len(b) = Len(all_blocks) + 1 /\ b[Len(all_blocks) + 1] = new
        /\ \A k \in 1..Len(all_blocks) : b[k] = all_blocks[k]
        BY <1>1, <2>3, Appended DEF PartInv, PartTypesInv
  <2> HIDE DEF b
  <2>a. /\ Len(all_blocks) \in Nat /\ Len(all_blocks) > 0 /\ all_blocks[1].size = DeviceSize
        /\ \A k \in 1..Len(all_blocks) : Inside(all_blocks[k])
        BY DEF PartInv, PartTypesInv
  <2>5. \A k \in DOMAIN b : k \in 1..Len(all_blocks) \/ k = Len(all_blocks) + 1
        BY <2>4, <2>a
  <2>6. \A k \in DOMAIN b : Inside(b[k])
        BY <2>2, <2>4, <2>5, <2>a, Zenon
  <2>7. Len(b) > 0 /\ b[1].size = DeviceSize
    <3>1. 1 \in 1..Len(all_blocks)
          BY <2>a
    <3>2. QED
          BY <2>4, <2>a, <3>1
  <2>8. QED
        BY <2>4, <2>6, <2>7 DEF b
<1>4. QED
      BY <1>2, <1>3

-----------------------------------------------------------------------------
(* The three facts of the induction.                                       *)

\* After the disk is registered it is the only block, and it is inside.
LEMMA InitInside == PartInit => PartInv
<1> SUFFICES ASSUME PartInit PROVE PartInv
    OBVIOUS
<1> USE PartitionsAssumption DEF PartInit, PartRest
<1>1. all_blocks = <<Block(0, "raw", 0, DeviceSize)>>
      OBVIOUS
<1>2. all_blocks[1] = Block(0, "raw", 0, DeviceSize) /\ Len(all_blocks) = 1
      BY <1>1
<1>3. PartTypesInv
      BY <1>1 DEF PartTypesInv, Block
<1>4. QED
      BY <1>2, <1>3 DEF PartInv, Inside, Block

\* The scan, whatever the table, adds only blocks that are inside.
LEMMA StepInside == PartInv /\ [PartNext]_partVars => PartInv'
<1> SUFFICES ASSUME PartInv, [PartNext]_partVars PROVE PartInv'
    OBVIOUS
<1>0. /\ SectorWord \in Nat \ {0} /\ DeviceSize \in Nat /\ DeviceSize < SectorWord
      /\ PartOffsets \subseteq Sector /\ PartSizes \subseteq Sector /\ TableLength \in Nat
      BY PartitionsAssumption DEF Sector
<1> DEFINE Frame == [sector : Sector, primary : Sector, i : Nat \ {0}]
<1>e. ASSUME NEW stack \in Seq(Frame), NEW sector \in Sector, NEW primary \in Sector
      PROVE  Enter(stack, sector, primary) \in Seq(Frame)
  <2>1. [sector |-> sector, primary |-> primary, i |-> 1] \in Frame
        OBVIOUS
  <2> HIDE DEF Frame
  <2>2. QED
        BY <2>1, Appended DEF Enter
<1>1. CASE partition_scan
  <2>1. 0 \in Sector
        BY <1>0 DEF Sector
  <2>2. frames' \in Seq(Frame)
    <3> HIDE DEF Frame
    <3>1. << >> \in Seq(Frame)
          OBVIOUS
    <3>2. QED
          BY <1>1, <1>e, <2>1, <3>1, Zenon DEF partition_scan
  <2>3. QED
        BY <1>1, <2>2 DEF partition_scan, PartInv, PartTypesInv
<1>2. CASE read_partition_table
  <2> DEFINE top == frames[Len(frames)]
             e == mbr.partitions[top.i]
             rest == [frames EXCEPT ![Len(frames)] = [top EXCEPT !.i = @ + 1]]
             primary == IF top.sector = 0 THEN e.offset ELSE top.primary
             sector == IF top.sector = 0 THEN e.offset ELSE (e.offset + primary) % SectorWord
  <2>0. frames \in Seq(Frame) /\ frames # << >>
        BY <1>2 DEF read_partition_table, PartInv, PartTypesInv
  <2>1. top \in Frame /\ frames \in Seq(Frame) /\ Len(frames) > 0
    <3> HIDE DEF Frame
    <3>1. QED
          BY <2>0
  <2>2. rest \in Seq(Frame) /\ SubSeq(frames, 1, Len(frames) - 1) \in Seq(Frame)
    <3>1. [top EXCEPT !.i = @ + 1] \in Frame
      <4> HIDE DEF top
      <4>1. QED
            BY <2>1
    <3> HIDE DEF Frame
    <3>2. QED
          BY <2>1, <3>1, LastReplaced
  <2>3. top.i <= TableLength => e \in TableEntry /\ e.offset \in Sector /\ e.size \in Sector
    <3>1. top.i <= TableLength => top.i \in 1..TableLength
          BY <2>1, <1>0
    <3>2. QED
          BY <3>1, <1>0, Zenon DEF PartInv, PartTypesInv, TableEntry
  <2>4. CASE top.i > TableLength /\ frames' = SubSeq(frames, 1, Len(frames) - 1)
               /\ UNCHANGED <<part_nr, all_blocks, scan_at>>
    <3>1. frames' \in Seq(Frame)
          BY <2>2, <2>4, Zenon
    <3>2. QED
          BY <1>2, <2>4, <3>1, Zenon DEF read_partition_table, PartInv, PartTypesInv
  <2>5. CASE frames' = rest /\ UNCHANGED <<part_nr, all_blocks, scan_at>>
        BY <1>2, <2>2, <2>5, Zenon DEF read_partition_table, PartInv, PartTypesInv
  <2>6. CASE /\ top.i <= TableLength
             /\ frames' = Enter(rest, sector, primary) \/ UNCHANGED frames
             /\ UNCHANGED <<part_nr, all_blocks>>
    <3>1. primary \in Sector
          BY <2>1, <2>3, <2>6
    <3>2. sector \in Sector
      <4>1. e.offset \in Sector
            BY <2>3, <2>6
      <4> HIDE DEF primary, e, top
      <4>2. QED
            BY <3>1, <4>1, WordSum, Zenon
    <3>3. frames' \in Seq(Frame)
      <4> HIDE DEF Frame, rest, sector, primary, top
      <4>1. QED
            BY <1>e, <2>1, <2>2, <2>6, <3>1, <3>2, Zenon
    <3>4. QED
          BY <1>2, <2>6, <3>3, Zenon DEF read_partition_table, PartInv, PartTypesInv
  <2>7. CASE /\ top.i <= TableLength /\ frames' = rest /\ part_nr' = part_nr + 1
             /\ all_blocks' = found_partition(e.type, (e.offset + top.sector) % SectorWord,
                                              e.size, part_nr + 1)
    <3>1. (e.offset + top.sector) % SectorWord \in Sector
      <4> HIDE DEF top, e
      <4>1. e.offset \in Sector /\ top.sector \in Sector
            BY <2>1, <2>3, <2>7
      <4>2. QED
            BY <4>1, WordSum
    <3>2. e.type \in PartTypes /\ e.size \in Sector /\ part_nr + 1 \in Nat
      <4> HIDE DEF top, e
      <4>1. e \in TableEntry /\ e.size \in Sector
            BY <2>3, <2>7
      <4>2. e.type \in PartTypes
            BY <4>1 DEF TableEntry
      <4>3. part_nr + 1 \in Nat
            BY DEF PartInv, PartTypesInv
      <4>4. QED
            BY <4>1, <4>2, <4>3
    <3>3. /\ all_blocks' \in Seq([nr : Nat, type : PartTypes \cup {"raw"}, start : Nat, size : Nat])
          /\ Len(all_blocks') > 0 /\ all_blocks'[1].size = DeviceSize
          /\ \A k \in DOMAIN all_blocks' : Inside(all_blocks'[k])
          BY <2>7, <3>1, <3>2, FoundInside, Zenon
    <3>4. QED
          BY <1>2, <2>2, <2>7, <3>2, <3>3, Zenon DEF read_partition_table, PartInv, PartTypesInv, Inside
  <2>8. QED
        BY <1>2, <2>4, <2>5, <2>6, <2>7, Zenon DEF read_partition_table
<1>3. CASE locate_block_devices
      BY <1>3, Zenon DEF locate_block_devices, PartInv, PartTypesInv, Inside
<1>4. CASE UNCHANGED partVars
      BY <1>4, Zenon DEF partVars, PartInv, PartTypesInv, Inside
<1>5. QED
      BY <1>1, <1>2, <1>3, <1>4 DEF PartNext

(* A block that ends on the disk translates its sectors to the disk's.     *)
LEMMA InsideTranslates == PartInv => PartitionsInside
<1> SUFFICES ASSUME PartInv, NEW k \in DOMAIN all_blocks, NEW s \in 0..SectorWord - 1,
                    check_sector(all_blocks[k], s)
             PROVE  LET at == partition_read(all_blocks[k], s)
                    IN check_sector(all_blocks[1], at) /\ at = all_blocks[k].start + s
    BY DEF PartitionsInside
<1>0. SectorWord \in Nat \ {0} /\ DeviceSize \in Nat /\ DeviceSize < SectorWord
      BY PartitionsAssumption
<1>1. all_blocks[k].start + s < DeviceSize /\ all_blocks[k].start + s \in 0..SectorWord - 1
      BY <1>0 DEF PartInv, Inside, check_sector
<1>2. partition_read(all_blocks[k], s) = all_blocks[k].start + s
      BY <1>0, <1>1, ModSmall, Zenon DEF partition_read
<1>3. QED
      BY <1>1, <1>2, Zenon DEF PartInv, check_sector

-----------------------------------------------------------------------------
(* read_partition_table and found_partition: no table, however it wraps or *)
(* nests, makes a partition reach past the disk.                           *)
THEOREM AlwaysInside == PartSpec => []PartitionsInside
<1>1. PartSpec => []PartInv
      BY InitInside, StepInside, PTL DEF PartSpec
<1>2. QED
      BY <1>1, InsideTranslates, PTL

-----------------------------------------------------------------------------
(* Tables without an extended partition.                                   *)

\* The block an entry of a flat table becomes, and the entries that fit.
FlatBlock(i) == LET e == mbr.partitions[i] IN Block(Number(i), e.type, e.offset, e.size)
Fitting == {i \in Used : OnDisk(mbr.partitions[i])}
\* Members up to n, and where in all_blocks the entry i is.
Upto(S, n) == {j \in S : j <= n}
Place(i) == 1 + Cardinality(Upto(Fitting, i))

\* Entries the loop has gone through.
Looked == IF frames # << >> THEN frames[1].i - 1 ELSE IF scan_at = "start" THEN 0 ELSE TableLength

\* all_blocks
Blocks == Seq([nr : Nat, type : PartTypes \cup {"raw"}, start : Nat, size : Nat])

\* The blocks are those of the first n entries, in order.
Listed(blocks, nr, n) ==
  /\ nr = Cardinality(Upto(Used, n))
  /\ Len(blocks) = 1 + Cardinality(Upto(Fitting, n))
  /\ \A i \in Upto(Fitting, n) : blocks[Place(i)] = FlatBlock(i)
  /\ \A k \in 2..Len(blocks) : \E i \in Upto(Fitting, n) : Place(i) = k

\* locate_block_devices has found the file system or panicked.
Located ==
  /\ bdev_name # NoName => block_get_by_name(bdev_name) # NoBlock
  /\ block_by_role["filesys"] = locate_block_device("filesys", bdev_name)

\* The scan of a flat table is one frame that has listed what it looked at.
FlatScan ==
  /\ Len(frames) <= 1 /\ scan_at # "overflow"
  /\ frames # << >> => /\ scan_at = "scan" /\ frames[1].sector = 0
                       /\ frames[1].i <= TableLength + 1
  /\ mbr.signed => Listed(all_blocks, part_nr, Looked)

\* The inductive invariant.
FlatInv ==
  /\ PartInv
  /\ all_blocks[1] = Block(0, "raw", 0, DeviceSize)
  /\ scan_at = "start" => frames = << >>
  /\ scan_at = "ready" => Located /\ frames = << >>
  /\ Flat => FlatScan

\* Facts on finite sets of numbers, proved at the end of this module: the
\* library they come from makes every proof after it slow.
NumberSets ==
  /\ Cardinality({}) = 0
  /\ \A S \in SUBSET Nat : S # {} => Min(S) \in S /\ \A y \in S : Min(S) <= y
  /\ \A S \in SUBSET (1..TableLength) : \A n \in Nat :
       Cardinality(Upto(S, n)) \in Nat
  /\ \A S \in SUBSET (1..TableLength) : \A n \in Nat \ {0} :
       /\ n \in S => /\ Upto(S, n) = Upto(S, n - 1) \cup {n}
                     /\ Cardinality(Upto(S, n)) = Cardinality(Upto(S, n - 1)) + 1
       /\ n \notin S => Upto(S, n) = Upto(S, n - 1)
  /\ \A S \in SUBSET (1..TableLength) : \A i, j \in Nat :
       /\ i <= j => Cardinality(Upto(S, i)) <= Cardinality(Upto(S, j))
       /\ i < j /\ j \in S => Cardinality(Upto(S, i)) < Cardinality(Upto(S, j))

\* The smallest of a set of places or entries.
LEMMA MinIsLeast ==
  ASSUME NumberSets, NEW S, S \subseteq Nat, S # {}
  PROVE  Min(S) \in S /\ \A y \in S : Min(S) <= y
  BY Zenon DEF NumberSets

\* The members up to a number are counted by a natural number.
LEMMA UptoCounts ==
  ASSUME NumberSets, NEW S, S \subseteq 1..TableLength, NEW n \in Nat
  PROVE  Cardinality(Upto(S, n)) \in Nat
  BY Zenon DEF NumberSets

\* Going on by one entry counts it if it is a member.
LEMMA UptoNext ==
  ASSUME NumberSets, NEW S, S \subseteq 1..TableLength, NEW n \in Nat \ {0}
  PROVE  /\ n \in S => /\ Upto(S, n) = Upto(S, n - 1) \cup {n}
                       /\ Cardinality(Upto(S, n)) = Cardinality(Upto(S, n - 1)) + 1
         /\ n \notin S => Upto(S, n) = Upto(S, n - 1)
  <1>1. \A T \in SUBSET (1..TableLength) : \A m \in Nat \ {0} :
          /\ m \in T => /\ Upto(T, m) = Upto(T, m - 1) \cup {m}
                        /\ Cardinality(Upto(T, m)) = Cardinality(Upto(T, m - 1)) + 1
          /\ m \notin T => Upto(T, m) = Upto(T, m - 1)
    BY Zenon DEF NumberSets
  <1>2. S \in SUBSET (1..TableLength)
    BY Zenon
  <1> QED BY <1>1, <1>2, Zenon

\* The count grows with the number, and strictly at a member.
LEMMA UptoGrows ==
  ASSUME NumberSets, NEW S, S \subseteq 1..TableLength, NEW i \in Nat, NEW j \in Nat
  PROVE  /\ i <= j => Cardinality(Upto(S, i)) <= Cardinality(Upto(S, j))
         /\ i < j /\ j \in S => Cardinality(Upto(S, i)) < Cardinality(Upto(S, j))
  BY Zenon DEF NumberSets

\* The place of an entry that fits is behind the disk and among the blocks.
LEMMA PlaceFacts ==
  ASSUME NumberSets, NEW n \in Nat, NEW i \in Upto(Fitting, n)
  PROVE  /\ i \in 1..TableLength /\ i \in Fitting /\ Fitting \subseteq 1..TableLength
         /\ Place(i) \in 2..1 + Cardinality(Upto(Fitting, n))
  <1>1. /\ Fitting \subseteq 1..TableLength /\ i \in Fitting /\ i \in Nat /\ i <= n
        /\ i \in Upto(Fitting, i) /\ i \in Nat \ {0}
    BY PartitionsAssumption DEF Upto, Fitting, Used
  <1>2. Cardinality(Upto(Fitting, i)) = Cardinality(Upto(Fitting, i - 1)) + 1
    BY <1>1, UptoNext, Zenon
  <1>3. Cardinality(Upto(Fitting, i)) <= Cardinality(Upto(Fitting, n))
    BY <1>1, UptoGrows, Zenon
  <1>4. /\ Cardinality(Upto(Fitting, i)) \in Nat /\ Cardinality(Upto(Fitting, n)) \in Nat
        /\ Cardinality(Upto(Fitting, i - 1)) \in Nat
    <2>1. i - 1 \in Nat
      BY <1>1
    <2> QED BY <1>1, <2>1, UptoCounts, Zenon
  <1> HIDE DEF Fitting, Upto
  <1>5. Place(i) \in 2..1 + Cardinality(Upto(Fitting, n))
    BY <1>2, <1>3, <1>4 DEF Place
  <1> QED BY <1>1, <1>5, Zenon

\* Appending to the blocks.
LEMMA BlockAppended ==
  ASSUME NEW b \in Blocks, NEW x, b # << >>
  PROVE  /\ Len(Append(b, x)) = Len(b) + 1 /\ Len(b) \in Nat \ {0}
         /\ \A k \in 1..Len(b) : Append(b, x)[k] = b[k]
         /\ Append(b, x)[Len(b) + 1] = x
  BY DEF Blocks

\* An entry that is not used leaves everything as it is.
LEMMA ListedSkips ==
  ASSUME NumberSets, NEW b, NEW nr, NEW i \in 1..TableLength, i \notin Used, Listed(b, nr, i - 1)
  PROVE  Listed(b, nr, i)
  <1>1. /\ Used \subseteq 1..TableLength /\ Fitting \subseteq 1..TableLength
        /\ i \notin Fitting /\ i \in Nat \ {0}
    BY PartitionsAssumption DEF Used, Fitting
  <1>2. Upto(Used, i) = Upto(Used, i - 1) /\ Upto(Fitting, i) = Upto(Fitting, i - 1)
    BY <1>1, UptoNext, Zenon
  <1> QED BY <1>2, Zenon DEF Listed

\* A used entry takes the next number, and if it fits the next place.
LEMMA ListedFinds ==
  ASSUME NumberSets, NEW b \in Blocks, b # << >>, NEW nr, NEW i \in Used, Listed(b, nr, i - 1)
  PROVE  LET c == IF OnDisk(mbr.partitions[i]) THEN Append(b, FlatBlock(i)) ELSE b
         IN Listed(c, nr + 1, i) /\ nr + 1 = Number(i)
  <1>1. /\ Used \subseteq 1..TableLength /\ Fitting \subseteq 1..TableLength
        /\ i \in Nat \ {0} /\ i - 1 \in Nat
        /\ i \in Fitting <=> OnDisk(mbr.partitions[i])
    BY PartitionsAssumption DEF Used, Fitting
  <1>2. Cardinality(Upto(Used, i)) = nr + 1
    BY <1>1, UptoNext, Zenon DEF Listed
  <1>3. nr + 1 = Number(i)
    BY <1>2, Zenon DEF Number, Upto
  <1>4. CASE i \notin Fitting
    <2>1. Upto(Fitting, i) = Upto(Fitting, i - 1)
      BY <1>1, <1>4, UptoNext, Zenon
    <2>2. Listed(b, nr + 1, i)
      BY <1>2, <2>1, Zenon DEF Listed
    <2> QED BY <1>1, <1>3, <1>4, <2>2, Zenon
  <1>5. CASE i \in Fitting
    <2> DEFINE c == Append(b, FlatBlock(i))
               m == Cardinality(Upto(Fitting, i - 1))
    <2>1. /\ Upto(Fitting, i) = Upto(Fitting, i - 1) \cup {i}
          /\ Cardinality(Upto(Fitting, i)) = m + 1
      BY <1>1, <1>5, UptoNext, Zenon
    <2>2. Place(i) = m + 2 /\ m \in Nat
      <3>1. m \in Nat
        BY <1>1, UptoCounts, Zenon
      <3> QED BY <2>1, <3>1 DEF Place
    <2>3. Len(b) = m + 1
      BY <2>2 DEF Listed
    <2>4. \A j \in Upto(Fitting, i - 1) : Place(j) \in 2..1 + m
      BY <1>1, PlaceFacts, Zenon
    <2>5. /\ Len(c) = Len(b) + 1 /\ \A k \in 1..Len(b) : c[k] = b[k]
          /\ c[Len(b) + 1] = FlatBlock(i)
      BY BlockAppended, Zenon
    <2> HIDE DEF c, m
    <2>6. Len(c) = 1 + Cardinality(Upto(Fitting, i))
      BY <2>1, <2>2, <2>3, <2>5
    <2>7. ASSUME NEW j \in Upto(Fitting, i) PROVE c[Place(j)] = FlatBlock(j)
      <3>1. CASE j = i
        <4>1. Place(i) = Len(b) + 1
          BY <2>2, <2>3
        <4> QED BY <2>5, <3>1, <4>1, Zenon
      <3>2. CASE j \in Upto(Fitting, i - 1)
        <4>1. b[Place(j)] = FlatBlock(j)
          BY <3>2, Zenon DEF Listed
        <4>2. Place(j) \in 2..1 + m
          BY <2>4, <3>2, Zenon
        <4>3. Place(j) \in 1..Len(b)
          BY <2>2, <2>3, <4>2
        <4> QED BY <2>5, <4>1, <4>3, Zenon
      <3> QED BY <2>1, <3>1, <3>2, Zenon
    <2>8. ASSUME NEW k \in 2..Len(c) PROVE \E j \in Upto(Fitting, i) : Place(j) = k
      <3>1. k \in 2..Len(b) \/ k = Place(i)
        BY <2>2, <2>3, <2>5
      <3>2. k \in 2..Len(b) => \E j \in Upto(Fitting, i - 1) : Place(j) = k
        BY Zenon DEF Listed
      <3> QED BY <2>1, <3>1, <3>2, Zenon
    <2>9. Listed(c, nr + 1, i)
      BY <1>2, <2>6, <2>7, <2>8, Zenon DEF Listed
    <2> QED BY <1>1, <1>3, <1>5, <2>9, Zenon DEF c
  <1> QED BY <1>4, <1>5, Zenon

\* found_partition registers exactly what lies on the disk.
LEMMA FoundOnDisk ==
  ASSUME NEW type, NEW start \in Sector, NEW size \in Sector, size # 0, NEW nr
  PROVE  found_partition(type, start, size, nr) =
           IF start + size <= DeviceSize
           THEN Append(all_blocks, Block(nr, type, start, size)) ELSE all_blocks
  <1> DEFINE end == (start + size) % SectorWord
  <1>0. SectorWord \in Nat \ {0} /\ DeviceSize \in Nat /\ DeviceSize < SectorWord
    BY PartitionsAssumption
  <1>1. end = IF start + size < SectorWord THEN start + size ELSE start + size - SectorWord
    BY <1>0, ModSum, Zenon DEF Sector
  <1> HIDE DEF end
  <1>2. (start >= DeviceSize \/ end < start \/ end > DeviceSize) <=> ~(start + size <= DeviceSize)
    BY <1>0, <1>1 DEF Sector
  <1> QED BY <1>2, Zenon DEF found_partition, end

\* Before the scan no entry is looked at.
LEMMA FlatInit == NumberSets /\ PartInit => FlatInv
  <1> SUFFICES ASSUME NumberSets, PartInit PROVE FlatInv
    OBVIOUS
  <1>1. PartInv
    BY InitInside
  <1>2. /\ frames = << >> /\ part_nr = 0 /\ scan_at = "start"
        /\ all_blocks = <<Block(0, "raw", 0, DeviceSize)>>
    BY DEF PartInit, PartRest
  <1>3. Len(all_blocks) = 1 /\ all_blocks[1] = Block(0, "raw", 0, DeviceSize) /\ Len(frames) = 0
    BY <1>2
  <1>4. \A n \in 1..TableLength : ~(n <= 0)
    BY PartitionsAssumption
  <1>5. Upto(Used, 0) = {} /\ Upto(Fitting, 0) = {}
    BY <1>4, Zenon DEF Upto, Used, Fitting
  <1>6. Cardinality({}) = 0
    BY Zenon DEF NumberSets
  <1>7. Looked = 0
    BY <1>2, Zenon DEF Looked
  <1>8. Listed(all_blocks, part_nr, 0)
    <2>1. \A k \in 2..Len(all_blocks) : FALSE
      BY <1>3
    <2>2. Len(all_blocks) = 1 + Cardinality({})
      BY <1>3, <1>6
    <2> QED BY <1>2, <1>5, <1>6, <2>1, <2>2, Zenon DEF Listed
  <1>9. FlatScan
    BY <1>2, <1>3, <1>7, <1>8 DEF FlatScan
  <1> QED BY <1>1, <1>2, <1>3, <1>9 DEF FlatInv

\* What the scan does not change.
LEMMA ScanKeeps ==
  ASSUME UNCHANGED mbr, NEW n
  PROVE  /\ Flat' <=> Flat
         /\ Listed(all_blocks', part_nr', n) => Listed(all_blocks, part_nr, n)'
  <1>1. Flat' <=> Flat
    BY Zenon DEF Flat, Used
  <1>2. Listed(all_blocks', part_nr', n) => Listed(all_blocks, part_nr, n)'
    <2>1. Used' = Used
      BY Zenon DEF Used
    <2>2. Fitting' = Fitting
      BY <2>1, Zenon DEF Fitting
    <2>3. \A i : Place(i)' = Place(i) /\ FlatBlock(i)' = FlatBlock(i)
      BY <2>1, <2>2, Zenon DEF Place, FlatBlock, Number
    <2> QED BY <2>1, <2>2, <2>3, Zenon DEF Listed
  <1> QED BY <1>1, <1>2, Zenon

\* A stack of at most one frame that is not empty is its top.
LEMMA OneElement ==
  ASSUME NEW S, NEW s \in Seq(S), s # << >>, Len(s) <= 1
  PROVE  Len(s) = 1 /\ s = <<s[Len(s)]>> /\ s[Len(s)] \in S
  <1>1. Len(s) = 1 /\ s[1] \in S
    OBVIOUS
  <1>2. s = <<s[1]>>
    BY <1>1
  <1> QED BY <1>1, <1>2, Zenon

\* One turn of the loop over a flat table.
LEMMA FlatTurn ==
  ASSUME NumberSets, FlatInv, Flat, read_partition_table
  PROVE  FlatScan'
  <1> DEFINE top == frames[Len(frames)]
             e == mbr.partitions[top.i]
             rest == [frames EXCEPT ![Len(frames)] = [top EXCEPT !.i = @ + 1]]
             primary == IF top.sector = 0 THEN e.offset ELSE top.primary
             sector == IF top.sector = 0 THEN e.offset ELSE (e.offset + primary) % SectorWord
             Frame == [sector : Sector, primary : Sector, i : Nat \ {0}]
  <1>1. /\ scan_at = "scan" /\ frames # << >> /\ mbr' = mbr
        /\ \/ /\ top.i > TableLength
              /\ frames' = SubSeq(frames, 1, Len(frames) - 1)
              /\ part_nr' = part_nr /\ all_blocks' = all_blocks /\ scan_at' = scan_at
           \/ /\ top.i <= TableLength /\ (e.size = 0 \/ e.type = "empty")
              /\ frames' = rest
              /\ part_nr' = part_nr /\ all_blocks' = all_blocks /\ scan_at' = scan_at
           \/ top.i <= TableLength /\ e.size # 0 /\ e.type = "extended"
           \/ /\ top.i <= TableLength /\ e.size # 0 /\ e.type \notin {"empty", "extended"}
              /\ frames' = rest /\ part_nr' = part_nr + 1
              /\ all_blocks' = found_partition(e.type, (e.offset + top.sector) % SectorWord,
                                               e.size, part_nr + 1)
              /\ scan_at' = scan_at
    BY Zenon DEF read_partition_table
  <1>2. /\ frames \in Seq(Frame) /\ FlatScan /\ all_blocks \in Blocks /\ Len(all_blocks) > 0
        /\ mbr \in [signed : BOOLEAN, partitions : [1..TableLength -> TableEntry]]
    BY Zenon DEF FlatInv, PartInv, PartTypesInv, Blocks
  <1>3. Len(frames) = 1 /\ frames = <<top>> /\ top \in Frame
    <2> HIDE DEF Frame
    <2> QED BY <1>1, <1>2, OneElement, Zenon DEF FlatScan
  <1>4. /\ top.sector = 0 /\ top.i \in Nat \ {0} /\ top.i <= TableLength + 1
        /\ mbr.signed => Listed(all_blocks, part_nr, top.i - 1)
    BY <1>1, <1>2, <1>3 DEF FlatScan, Looked
  <1>5. /\ SectorWord \in Nat \ {0} /\ DeviceSize \in Nat /\ DeviceSize < SectorWord
        /\ PartOffsets \subseteq Sector /\ PartSizes \subseteq Sector /\ TableLength \in Nat
    BY PartitionsAssumption DEF Sector
  <1>6. rest = <<[top EXCEPT !.i = @ + 1]>>
    <2> HIDE DEF top
    <2> QED BY <1>3
  <1>7. /\ rest # << >> /\ Len(rest) <= 1 /\ rest[1].sector = 0
        /\ rest[1].i = top.i + 1
    <2> HIDE DEF top, rest
    <2> QED BY <1>3, <1>4, <1>6
  <1> HIDE DEF rest, Frame
  <1>8. CASE /\ top.i > TableLength /\ scan_at' = scan_at
             /\ frames' = SubSeq(frames, 1, Len(frames) - 1)
             /\ part_nr' = part_nr /\ all_blocks' = all_blocks
    <2>1. frames' = << >> /\ Len(frames') = 0
      <3> HIDE DEF top
      <3> QED BY <1>3, <1>8
    <2>2. top.i - 1 = TableLength
      <3>1. top.i > TableLength
        BY <1>8, Zenon
      <3> HIDE DEF top
      <3> QED BY <1>4, <1>5, <3>1
    <2>3. Looked' = TableLength
      BY <1>1, <1>8, <2>1, Zenon DEF Looked
    <2>4. mbr.signed => Listed(all_blocks, part_nr, Looked)'
      BY <1>1, <1>4, <1>8, <2>2, <2>3, ScanKeeps, Zenon
    <2> QED BY <1>1, <1>8, <2>1, <2>4 DEF FlatScan
  <1>9. ASSUME top.i <= TableLength, frames' = rest, scan_at' = scan_at,
               mbr.signed => Listed(all_blocks', part_nr', top.i)
        PROVE  FlatScan'
    <2>1. Looked' = top.i
      BY <1>4, <1>7, <1>9 DEF Looked
    <2>2. mbr.signed => Listed(all_blocks, part_nr, Looked)'
      BY <1>1, <1>9, <2>1, ScanKeeps, Zenon
    <2>3. frames'[1].i <= TableLength + 1
      BY <1>4, <1>5, <1>7, <1>9
    <2>4. Len(frames') <= 1
      BY <1>7, <1>9, Zenon
    <2>5. scan_at' = "scan" /\ scan_at' # "overflow"
      BY <1>1, <1>9
    <2> QED BY <1>1, <1>7, <1>9, <2>2, <2>3, <2>4, <2>5, Zenon DEF FlatScan
  <1>10. ASSUME top.i <= TableLength
         PROVE  /\ top.i \in 1..TableLength /\ e.offset \in Sector /\ e.size \in Sector
                /\ top.i \in Used <=> e.type # "empty" /\ e.size # 0
    <2>1. top.i \in 1..TableLength
      BY <1>4, <1>5, <1>10
    <2>2. e \in TableEntry
      BY <1>2, <2>1, Zenon
    <2>3. e.offset \in Sector /\ e.size \in Sector
      BY <1>5, <2>2, Zenon DEF TableEntry
    <2>4. e.size # 0 <=> e.size > 0
      BY <2>3, <1>5 DEF Sector
    <2> QED BY <2>1, <2>3, <2>4, Zenon DEF Used
  <1>11. CASE /\ top.i <= TableLength /\ (e.size = 0 \/ e.type = "empty")
              /\ frames' = rest /\ scan_at' = scan_at
              /\ part_nr' = part_nr /\ all_blocks' = all_blocks
    <2>1. top.i \in 1..TableLength /\ top.i \notin Used
      BY <1>10, <1>11, Zenon
    <2>2. mbr.signed => Listed(all_blocks', part_nr', top.i)
      BY <1>4, <1>11, <2>1, ListedSkips, Zenon
    <2> QED BY <1>9, <1>11, <2>2, Zenon
  <1>12. CASE top.i <= TableLength /\ e.size # 0 /\ e.type = "extended"
    <2>1. top.i \in Used
      BY <1>10, <1>12
    <2> QED BY <1>12, <2>1, Zenon DEF Flat
  <1>13. CASE /\ top.i <= TableLength /\ e.size # 0 /\ e.type \notin {"empty", "extended"}
              /\ frames' = rest /\ part_nr' = part_nr + 1 /\ scan_at' = scan_at
              /\ all_blocks' = found_partition(e.type, (e.offset + top.sector) % SectorWord,
                                               e.size, part_nr + 1)
    <2>1. top.i \in Used /\ e.offset \in Sector /\ e.size \in Sector
      BY <1>10, <1>13, Zenon
    <2>2. (e.offset + top.sector) % SectorWord = e.offset
      <3> HIDE DEF top, e
      <3>1. e.offset + top.sector = e.offset
        BY <1>4, <2>1 DEF Sector
      <3> QED BY <1>5, <2>1, <3>1, ModSmall, Zenon DEF Sector
    <2>3. all_blocks' = IF OnDisk(e) THEN Append(all_blocks, Block(part_nr + 1, e.type, e.offset, e.size))
                        ELSE all_blocks
      <3> HIDE DEF top, e
      <3> QED BY <1>13, <2>1, <2>2, FoundOnDisk, Zenon DEF OnDisk
    <2>4. ASSUME mbr.signed PROVE Listed(all_blocks', part_nr', top.i)
      <3>0. all_blocks # << >>
        BY <1>2
      <3>1. /\ part_nr + 1 = Number(top.i)
            /\ Listed(IF OnDisk(e) THEN Append(all_blocks, FlatBlock(top.i)) ELSE all_blocks,
                      part_nr + 1, top.i)
        BY <1>2, <1>4, <2>1, <2>4, <3>0, ListedFinds, Zenon
      <3>2. FlatBlock(top.i) = Block(part_nr + 1, e.type, e.offset, e.size)
        BY <3>1, Zenon DEF FlatBlock
      <3> QED BY <1>13, <2>3, <3>1, <3>2, Zenon
    <2> QED BY <1>9, <1>13, <2>4, Zenon
  <1> QED BY <1>1, <1>8, <1>11, <1>12, <1>13, Zenon


\* partition_scan, each turn of read_partition_table and locate_block_devices
\* preserve the invariant.
LEMMA FlatStep == NumberSets /\ FlatInv /\ [PartNext]_partVars => FlatInv'
  <1> SUFFICES ASSUME NumberSets, FlatInv, [PartNext]_partVars PROVE FlatInv'
    OBVIOUS
  <1>1. PartInv'
    BY StepInside, Zenon DEF FlatInv
  <1>2. CASE partition_scan
    <2>1. /\ scan_at = "start" /\ scan_at' = "scan" /\ frames' = Enter(<< >>, 0, 0)
          /\ mbr' = mbr /\ part_nr' = part_nr /\ all_blocks' = all_blocks /\ frames = << >>
      BY <1>2, Zenon DEF partition_scan, FlatInv
    <2>2. ~(0 >= DeviceSize) /\ TableLength \in Nat
      BY PartitionsAssumption
    <2>3. CASE ~mbr.signed
      <3>1. frames' = << >> /\ Len(frames') <= 1
        BY <2>1, <2>3 DEF Enter
      <3> QED BY <1>1, <2>1, <2>3, <3>1, Zenon DEF FlatInv, FlatScan
    <2>4. CASE mbr.signed
      <3>1. frames' = <<[sector |-> 0, primary |-> 0, i |-> 1]>>
        BY <2>1, <2>2, <2>4 DEF Enter
      <3>2. /\ Len(frames') <= 1 /\ frames' # << >> /\ frames'[1].sector = 0
            /\ frames'[1].i = 1 /\ 1 <= TableLength + 1 /\ 1 - 1 = 0
        BY <2>2, <3>1
      <3>3. Looked = 0 /\ Looked' = 0
        BY <2>1, <3>2, Zenon DEF Looked
      <3>4. Flat => Listed(all_blocks, part_nr, Looked)'
        BY <2>1, <2>4, <3>3, ScanKeeps, Zenon DEF FlatInv, FlatScan
      <3>5. Flat => FlatScan'
        BY <2>1, <3>2, <3>4 DEF FlatScan
      <3> QED BY <1>1, <2>1, <3>5, ScanKeeps, Zenon DEF FlatInv
    <2> QED BY <2>3, <2>4, Zenon
  <1>3. CASE read_partition_table
    <2>1. mbr' = mbr /\ scan_at = "scan" /\ scan_at' \in {"scan", "overflow"}
      BY <1>3, Zenon DEF read_partition_table
    <2>2. all_blocks'[1] = Block(0, "raw", 0, DeviceSize)
      <3>1. all_blocks \in Blocks /\ Len(all_blocks) > 0
        BY Zenon DEF FlatInv, PartInv, PartTypesInv, Blocks
      <3>2. \A x : Append(all_blocks, x)[1] = all_blocks[1]
        BY <3>1 DEF Blocks
      <3>3. \E type, start, size, nr : all_blocks' = found_partition(type, start, size, nr)
                                       \/ all_blocks' = all_blocks
        BY <1>3, Zenon DEF read_partition_table
      <3> QED BY <3>2, <3>3, Zenon DEF found_partition, FlatInv
    <2>3. Flat' => FlatScan'
      BY <1>3, <2>1, FlatTurn, ScanKeeps, Zenon
    <2>4. scan_at' # "start" /\ scan_at' # "ready"
      BY <2>1
    <2> QED BY <1>1, <2>2, <2>3, <2>4, Zenon DEF FlatInv
  <1>4. CASE locate_block_devices
    <2>1. /\ scan_at = "scan" /\ frames = << >> /\ frames' = frames /\ mbr' = mbr
          /\ part_nr' = part_nr /\ all_blocks' = all_blocks /\ bdev_name' = bdev_name
          /\ IF bdev_name # NoName /\ block_get_by_name(bdev_name) = NoBlock
             THEN scan_at' = "panic"
             ELSE /\ scan_at' = "ready"
                  /\ block_by_role' = [filesys |-> locate_block_device("filesys", bdev_name),
                                       scratch |-> locate_block_device("scratch", NoName)]
      BY <1>4, Zenon DEF locate_block_devices
    <2>2. scan_at' = "ready" => Located'
      <3>1. /\ block_get_by_name(bdev_name)' = block_get_by_name(bdev_name)
            /\ locate_block_device("filesys", bdev_name)' = locate_block_device("filesys", bdev_name)
        BY <2>1, Zenon DEF block_get_by_name, locate_block_device
      <3>2. scan_at' = "ready" =>
              /\ bdev_name # NoName => block_get_by_name(bdev_name) # NoBlock
              /\ block_by_role'["filesys"] = locate_block_device("filesys", bdev_name)
        <4> HIDE DEF NoName, NoBlock
        <4> QED BY <2>1
      <3> QED BY <2>1, <3>1, <3>2, Zenon DEF Located
    <2>3. scan_at' \in {"panic", "ready"} /\ Looked' = TableLength /\ Looked = TableLength
      BY <2>1, Zenon DEF Looked
    <2>4. Flat => FlatScan'
      <3>1. Flat /\ mbr.signed => Listed(all_blocks, part_nr, Looked)'
        BY <2>1, <2>3, ScanKeeps, Zenon DEF FlatInv, FlatScan
      <3>2. Flat => Len(frames') <= 1
        BY <2>1, Zenon DEF FlatInv, FlatScan
      <3> QED BY <2>1, <2>3, <3>1, <3>2 DEF FlatScan
    <2>5. scan_at' # "start" /\ (Flat' <=> Flat)
      BY <2>1, <2>3, ScanKeeps
    <2> QED BY <1>1, <2>1, <2>2, <2>4, <2>5, Zenon DEF FlatInv
  <1>5. CASE UNCHANGED partVars
    <2>1. UNCHANGED <<mbr, bdev_name, frames, part_nr, all_blocks, block_by_role, scan_at>>
      BY <1>5, Zenon DEF partVars
    <2>2. Looked' = Looked
      BY <2>1, Zenon DEF Looked
    <2>3. Flat' => FlatScan'
      BY <2>1, <2>2, ScanKeeps, Zenon DEF FlatInv, FlatScan
    <2>4. Located' <=> Located
      BY <2>1, Zenon DEF Located, block_get_by_name, locate_block_device
    <2> QED BY <1>1, <2>1, <2>3, <2>4, Zenon DEF FlatInv
  <1> QED BY <1>2, <1>3, <1>4, <1>5, Zenon DEF PartNext

\* The least block of a set of places.
LEMMA FirstIsLeast ==
  ASSUME NumberSets, NEW S, S \subseteq Nat \ {0}
  PROVE  /\ S = {} => FirstOf(S) = NoBlock
         /\ S # {} => FirstOf(S) \in S /\ (\A k \in S : FirstOf(S) <= k) /\ FirstOf(S) # NoBlock
  BY MinIsLeast, Zenon DEF FirstOf, NoBlock

\* What the finished scan has registered is what the table names.
LEMMA FlatFound == NumberSets /\ FlatInv => FlatTableFound
  <1> SUFFICES ASSUME NumberSets, FlatInv PROVE FlatTableFound
    OBVIOUS
  <1> USE PartitionsAssumption
  <1>1. Flat => Len(frames) <= 1 /\ scan_at # "overflow"
    BY Zenon DEF FlatInv, FlatScan
  <1>2. ASSUME Flat, mbr.signed, scan_at = "ready"
        PROVE  LET typed == {i \in Fitting : mbr.partitions[i].type = "filesys"}
                   fs == block_by_role["filesys"]
               IN /\ {all_blocks[k] : k \in 2..Len(all_blocks)} = {FlatBlock(i) : i \in Fitting}
                  /\ Len(all_blocks) = 1 + Cardinality(Fitting)
                  /\ bdev_name = NoName =>
                       IF typed = {} THEN fs = NoBlock ELSE all_blocks[fs] = FlatBlock(Min(typed))
                  /\ bdev_name > 0 =>
                       \E i \in Fitting : Number(i) = bdev_name /\ all_blocks[fs] = FlatBlock(i)
    <2> DEFINE typed == {i \in Fitting : mbr.partitions[i].type = "filesys"}
               fs == block_by_role["filesys"]
    <2>1. Listed(all_blocks, part_nr, TableLength)
      <3>1. frames = << >> /\ Looked = TableLength
        BY <1>2, Zenon DEF FlatInv, Looked
      <3> QED BY <1>2, <3>1, Zenon DEF FlatInv, FlatScan
    <2>2. Fitting \subseteq 1..TableLength /\ Upto(Fitting, TableLength) = Fitting
      BY DEF Fitting, Used, Upto
    <2>3. /\ Len(all_blocks) = 1 + Cardinality(Fitting)
          /\ \A i \in Fitting : all_blocks[Place(i)] = FlatBlock(i)
          /\ \A k \in 2..Len(all_blocks) : \E i \in Fitting : Place(i) = k
      BY <2>1, <2>2, Zenon DEF Listed
    <2>4. \A i \in Fitting : Place(i) \in 2..Len(all_blocks)
      BY <2>2, <2>3, PlaceFacts, Zenon
    <2>5. {all_blocks[k] : k \in 2..Len(all_blocks)} = {FlatBlock(i) : i \in Fitting}
      <3>1. ASSUME NEW i \in Fitting PROVE \E k \in 2..Len(all_blocks) : all_blocks[k] = FlatBlock(i)
        BY <2>3, <2>4, Zenon
      <3>2. ASSUME NEW k \in 2..Len(all_blocks) PROVE \E i \in Fitting : all_blocks[k] = FlatBlock(i)
        BY <2>3, Zenon
      <3> QED BY <3>1, <3>2
    <2>6. /\ all_blocks \in Blocks /\ Len(all_blocks) \in Nat
          /\ DOMAIN all_blocks = 1..Len(all_blocks)
          /\ all_blocks[1].nr = 0 /\ all_blocks[1].type = "raw"
      BY DEF FlatInv, PartInv, PartTypesInv, Blocks, Block
    <2>7. \A i : /\ FlatBlock(i).nr = Number(i)
                 /\ FlatBlock(i).type = mbr.partitions[i].type
      BY DEF FlatBlock, Block
    <2>8. Located
      BY <1>2, Zenon DEF FlatInv
    <2>9. \A k \in DOMAIN all_blocks : k = 1 \/ k \in 2..Len(all_blocks)
      BY <2>6
    <2>10. \A i, j \in Fitting : i < j => Place(i) < Place(j)
      <3> SUFFICES ASSUME NEW i \in Fitting, NEW j \in Fitting, i < j PROVE Place(i) < Place(j)
        OBVIOUS
      <3>1. i \in Nat /\ j \in Nat
        BY <2>2
      <3>2. Cardinality(Upto(Fitting, i)) < Cardinality(Upto(Fitting, j))
        BY <2>2, <3>1, UptoGrows, Zenon
      <3>3. Cardinality(Upto(Fitting, i)) \in Nat /\ Cardinality(Upto(Fitting, j)) \in Nat
        BY <2>2, <3>1, UptoCounts, Zenon
      <3> QED BY <3>2, <3>3 DEF Place
    <2>11. ASSUME bdev_name = NoName
           PROVE  IF typed = {} THEN fs = NoBlock ELSE all_blocks[fs] = FlatBlock(Min(typed))
      <3> DEFINE S == {k \in DOMAIN all_blocks : all_blocks[k].type = "filesys"}
      <3>1. fs = FirstOf(S)
        BY <2>8, <2>11, Zenon DEF Located, locate_block_device
      <3>2. S \subseteq Nat \ {0}
        BY <2>6
      <3>3. ASSUME NEW k \in S PROVE \E i \in typed : Place(i) = k
        <4>1. k # 1
          BY <2>6
        <4>2. k \in 2..Len(all_blocks)
          BY <2>9, <4>1, Zenon
        <4>3. PICK i \in Fitting : Place(i) = k
          BY <2>3, <4>2, Zenon
        <4> QED BY <2>3, <2>7, <4>3, Zenon
      <3>4. ASSUME NEW i \in typed PROVE Place(i) \in S
        <4>1. Place(i) \in DOMAIN all_blocks
          BY <2>4, <2>6
        <4> QED BY <2>3, <2>7, <4>1, Zenon
      <3> HIDE DEF S
      <3>5. CASE typed = {}
        <4>1. S = {}
          BY <3>3, <3>5, Zenon
        <4> QED BY <3>1, <3>2, <3>5, <4>1, FirstIsLeast, Zenon
      <3>6. CASE typed # {}
        <4>1. typed \subseteq Nat
          BY <2>2
        <4>2. Min(typed) \in typed /\ \A y \in typed : Min(typed) <= y
          BY <3>6, <4>1, MinIsLeast, Zenon
        <4>3. Place(Min(typed)) \in S
          BY <3>4, <4>2, Zenon
        <4>4. fs \in S /\ fs <= Place(Min(typed))
          <5>1. S # {}
            BY <4>3, Zenon
          <5>2. FirstOf(S) \in S /\ \A k \in S : FirstOf(S) <= k
            BY <3>2, <5>1, FirstIsLeast, Zenon
          <5> QED BY <3>1, <4>3, <5>2, Zenon
        <4>5. PICK i \in typed : Place(i) = fs
          BY <3>3, <4>4, Zenon
        <4>6. Place(Min(typed)) \in Nat /\ Place(i) \in Nat
          BY <3>2, <4>3, <4>4, <4>5, Zenon
        <4>7. ~(Min(typed) < i)
          <5>1. ~(Place(Min(typed)) < Place(i))
            BY <4>4, <4>5, <4>6
          <5> QED BY <2>10, <4>2, <5>1, Zenon
        <4>8. i = Min(typed)
          <5>1. i \in Nat /\ Min(typed) \in Nat /\ Min(typed) <= i
            BY <4>1, <4>2, Zenon
          <5> HIDE DEF typed
          <5> QED BY <4>7, <5>1
        <4>9. all_blocks[fs] = FlatBlock(Min(typed))
          BY <2>3, <4>2, <4>5, <4>8, Zenon
        <4> QED BY <3>6, <4>9, Zenon
      <3> QED BY <3>5, <3>6, Zenon
    <2>12. ASSUME bdev_name > 0
           PROVE  \E i \in Fitting : Number(i) = bdev_name /\ all_blocks[fs] = FlatBlock(i)
      <3> DEFINE S == {k \in DOMAIN all_blocks : all_blocks[k].nr = bdev_name}
      <3>1. bdev_name # NoName /\ bdev_name # 0
        BY <2>12 DEF NoName
      <3>2. fs = FirstOf(S) /\ FirstOf(S) # NoBlock
        BY <2>8, <3>1, Zenon DEF Located, locate_block_device, block_get_by_name
      <3>3. S \subseteq Nat \ {0}
        BY <2>6
      <3>4. fs \in S
        <4> HIDE DEF S
        <4> QED BY <3>2, <3>3, FirstIsLeast, Zenon
      <3>5. fs \in 2..Len(all_blocks)
        BY <2>6, <2>9, <3>1, <3>4, Zenon
      <3>6. PICK i \in Fitting : Place(i) = fs
        BY <2>3, <3>5, Zenon
      <3> QED BY <2>3, <2>7, <3>4, <3>6, Zenon
    <2> QED BY <2>3, <2>5, <2>11, <2>12, Zenon
  <1> QED BY <1>1, <1>2, Zenon DEF FlatTableFound, FlatBlock, Fitting

-----------------------------------------------------------------------------
INSTANCE FiniteSetTheorems
W == INSTANCE WellFoundedInduction

\* The smallest number of a set of natural numbers.
LEMMA HasLeast == ASSUME NEW S, S \subseteq Nat, S # {} PROVE \E x \in S : \A y \in S : x <= y
<1> DEFINE R == {ss \in Nat \X Nat : ss[1] < ss[2]}
<1>1. W!IsWellFoundedOn(R, Nat)
  BY W!NatLessThanWellFounded, Zenon DEF W!OpToRel
<1>2. PICK x \in S : \A y \in S : <<y, x>> \notin R
  BY <1>1, W!WFMin, Zenon
<1>3. ASSUME NEW y \in S PROVE x <= y
  <2>1. <<y, x>> \notin R /\ x \in Nat /\ y \in Nat
    BY <1>2, Zenon
  <2> QED BY <2>1
<1> QED BY <1>2, <1>3, Zenon

\* Min is the smallest number.
LEMMA MinOfNumbers ==
  ASSUME NEW S, S \subseteq Nat, S # {} PROVE Min(S) \in S /\ \A y \in S : Min(S) <= y
  BY HasLeast, Zenon DEF Min

\* Counting the members up to a number.
LEMMA Counted ==
  ASSUME NEW S, S \subseteq 1..TableLength, NEW n \in Nat
  PROVE  IsFiniteSet(Upto(S, n)) /\ Cardinality(Upto(S, n)) \in Nat
  <1>1. IsFiniteSet(1..TableLength)
    BY PartitionsAssumption, FS_Interval
  <1>2. Upto(S, n) \subseteq 1..TableLength
    BY Zenon DEF Upto
  <1>3. IsFiniteSet(Upto(S, n))
    BY <1>1, <1>2, FS_Subset, Zenon
  <1> QED BY <1>3, FS_CardinalityType, Zenon

\* One member more is one more in the count.
LEMMA NextCounted ==
  ASSUME NEW S, S \subseteq 1..TableLength, NEW n \in Nat \ {0}
  PROVE  /\ n \in S => /\ Upto(S, n) = Upto(S, n - 1) \cup {n}
                       /\ Cardinality(Upto(S, n)) = Cardinality(Upto(S, n - 1)) + 1
         /\ n \notin S => Upto(S, n) = Upto(S, n - 1)
  <1>0. n - 1 \in Nat /\ \A j \in S : j <= n <=> j <= n - 1 \/ j = n
    BY PartitionsAssumption
  <1>a. n <= n /\ ~(n <= n - 1)
    OBVIOUS
  <1>1. n \notin S => Upto(S, n) = Upto(S, n - 1)
    BY <1>0, Zenon DEF Upto
  <1>2. ASSUME n \in S
        PROVE  /\ Upto(S, n) = Upto(S, n - 1) \cup {n}
               /\ Cardinality(Upto(S, n)) = Cardinality(Upto(S, n - 1)) + 1
    <2>1. Upto(S, n) = Upto(S, n - 1) \cup {n} /\ n \notin Upto(S, n - 1)
      BY <1>0, <1>a, <1>2, Zenon DEF Upto
    <2>2. IsFiniteSet(Upto(S, n - 1))
      BY <1>0, Counted, Zenon
    <2> QED BY <2>1, <2>2, FS_AddElement, Zenon
  <1> QED BY <1>1, <1>2, Zenon

\* More members up to a larger number.
LEMMA CountGrows ==
  ASSUME NEW S, S \subseteq 1..TableLength, NEW i \in Nat, NEW j \in Nat
  PROVE  /\ i <= j => Cardinality(Upto(S, i)) <= Cardinality(Upto(S, j))
         /\ i < j /\ j \in S => Cardinality(Upto(S, i)) < Cardinality(Upto(S, j))
  <1>0. \A x \in S : x \in Int
    BY PartitionsAssumption
  <1>1. ASSUME NEW a \in Nat, NEW b \in Nat, a <= b
        PROVE  Cardinality(Upto(S, a)) <= Cardinality(Upto(S, b))
    <2>1. \A x \in S : x <= a => x <= b
      BY <1>0, <1>1
    <2>2. Upto(S, a) \subseteq Upto(S, b)
      BY <2>1, Zenon DEF Upto
    <2> QED BY <2>2, Counted, FS_Subset, Zenon
  <1>2. ASSUME i < j, j \in S
        PROVE  Cardinality(Upto(S, i)) < Cardinality(Upto(S, j))
    <2>1. j - 1 \in Nat /\ i <= j - 1 /\ j \in Nat \ {0}
      BY <1>2
    <2>2. Cardinality(Upto(S, i)) <= Cardinality(Upto(S, j - 1))
      BY <1>1, <2>1, Zenon
    <2>3. Cardinality(Upto(S, j)) = Cardinality(Upto(S, j - 1)) + 1
      BY <1>2, <2>1, NextCounted, Zenon
    <2>4. Cardinality(Upto(S, i)) \in Nat /\ Cardinality(Upto(S, j - 1)) \in Nat
      BY <2>1, Counted, Zenon
    <2> QED BY <2>2, <2>3, <2>4
  <1> QED BY <1>1, <1>2, Zenon

\* The facts the lemmas above take as hypothesis.
LEMMA NumberSetsHold == NumberSets
  <1>1. Cardinality({}) = 0
    BY FS_EmptySet, Zenon
  <1> QED BY <1>1, MinOfNumbers, Counted, NextCounted, CountGrows, Zenon DEF NumberSets

\* threads/init.c with partition.c: for every partition table, disk and word
\* size the sectors of a block are sectors of the disk, and for a table without
\* an extended partition the blocks are exactly the entries on the disk, in
\* order, and the file system is on the one named or the first of its type.
THEOREM BlocksAlwaysResolved == PartSpec => []BlocksResolved
  <1>1. FlatInv => BlocksResolved
    BY InsideTranslates, FlatFound, NumberSetsHold, Zenon DEF FlatInv, BlocksResolved
  <1> QED BY <1>1, FlatInit, FlatStep, NumberSetsHold, PTL DEF PartSpec
=============================================================================
