----------------------------- MODULE Partitions -----------------------------
(***************************************************************************)
(* From a disk to the file system's block device: the partition table is   *)
(* read (devices/partition.c), partitions are registered (devices/block.c) *)
(* and given their roles (threads/init.c).  Sector numbers are words, and  *)
(* wrap.  read_partition_table calls itself for an extended partition;     *)
(* each call is a frame.  Memory suffices: without it the boot panics.     *)
(***************************************************************************)
EXTENDS Integers, Sequences, FiniteSets, FiniteSetsExt

CONSTANTS SectorWord,      \* 2 ^ (width of a sector number)
          DeviceSize,      \* sectors of the disk
          PartTypes, PartOffsets, PartSizes, TableLength,
          MaxFrames        \* calls that fit the kernel stack

ASSUME PartitionsAssumption ==
  /\ SectorWord \in Nat /\ DeviceSize \in 1..SectorWord - 1 /\ MaxFrames \in Nat \ {0} /\ TableLength \in Nat
  /\ PartTypes \subseteq {"empty", "extended", "kernel", "filesys", "scratch", "foreign"}
  /\ PartOffsets \subseteq 0..SectorWord - 1 /\ PartSizes \subseteq 0..SectorWord - 1

VARIABLES mbr,             \* sector 0 of the disk
          bdev_name,       \* the file system's device by the command line
          frames, part_nr,
          all_blocks, block_by_role,
          scan_at

partVars == <<mbr, bdev_name, frames, part_nr, all_blocks, block_by_role, scan_at>>

NoName == -1
NoBlock == 0
Roles == {"filesys", "scratch"}
TableEntry == [type : PartTypes, offset : PartOffsets, size : PartSizes]

\* block_register: name hdaN is the number N, the disk itself is 0.
Block(nr, type, start, size) == [nr |-> nr, type |-> type, start |-> start, size |-> size]

\* After identify_ata_device has registered the disk.
PartRest ==
  /\ frames = << >> /\ part_nr = 0
  /\ all_blocks = <<Block(0, "raw", 0, DeviceSize)>>
  /\ block_by_role = [r \in Roles |-> NoBlock]
  /\ scan_at = "start"

EmptyTable == [signed |-> FALSE,
               partitions |-> [i \in 1..TableLength |-> [type |-> "empty", offset |-> 0, size |-> 0]]]
PartInit ==
  /\ mbr \in [signed : BOOLEAN, partitions : [1..TableLength -> TableEntry]]
  /\ bdev_name \in {NoName} \cup 0..TableLength
  /\ PartRest

-----------------------------------------------------------------------------
(* Accesses *)

check_sector(block, sector) == sector < block.size
\* partition_read and partition_write: the sector of the disk.
partition_read(block, sector) == (block.start + sector) % SectorWord

-----------------------------------------------------------------------------
(* The scan *)

\* The beginning of read_partition_table: whatever the sector asked for, the
\* table that is read is the one in sector 0.
Enter(stack, sector, primary) ==
  IF sector >= DeviceSize \/ ~mbr.signed THEN stack
  ELSE Append(stack, [sector |-> sector, primary |-> primary, i |-> 1])

partition_scan ==
  /\ scan_at = "start" /\ scan_at' = "scan"
  /\ frames' = Enter(<< >>, 0, 0)
  /\ UNCHANGED <<mbr, bdev_name, part_nr, all_blocks, block_by_role>>

\* A size that makes the end wrap is let through.
found_partition_nowrap(type, start, size, nr) ==
  IF start >= DeviceSize \/ (start + size) % SectorWord > DeviceSize THEN all_blocks
  ELSE Append(all_blocks, Block(nr, type, start, size))

found_partition(type, start, size, nr) ==
  LET end == (start + size) % SectorWord IN
  IF start >= DeviceSize \/ end < start \/ end > DeviceSize THEN all_blocks
  ELSE Append(all_blocks, Block(nr, type, start, size))

\* One turn of the loop over the entries, or the return.
read_partition_table ==
  LET top == frames[Len(frames)]
      e == mbr.partitions[top.i]
      rest == [frames EXCEPT ![Len(frames)] = [top EXCEPT !.i = @ + 1]]
      primary == IF top.sector = 0 THEN e.offset ELSE top.primary
      sector == IF top.sector = 0 THEN e.offset ELSE (e.offset + primary) % SectorWord
  IN /\ scan_at = "scan" /\ frames # << >>
     /\ UNCHANGED <<mbr, bdev_name, block_by_role>>
     /\ \/ /\ top.i > TableLength
           /\ frames' = SubSeq(frames, 1, Len(frames) - 1)
           /\ UNCHANGED <<part_nr, all_blocks, scan_at>>
        \/ /\ top.i <= TableLength /\ (e.size = 0 \/ e.type = "empty")
           /\ frames' = rest
           /\ UNCHANGED <<part_nr, all_blocks, scan_at>>
        \/ /\ top.i <= TableLength /\ e.size # 0 /\ e.type = "extended"
           /\ IF Len(frames) = MaxFrames
              THEN scan_at' = "overflow" /\ UNCHANGED frames
              ELSE frames' = Enter(rest, sector, primary) /\ UNCHANGED scan_at
           /\ UNCHANGED <<part_nr, all_blocks>>
        \/ /\ top.i <= TableLength /\ e.size # 0 /\ e.type \notin {"empty", "extended"}
           /\ frames' = rest /\ part_nr' = part_nr + 1
           /\ all_blocks' = found_partition(e.type, (e.offset + top.sector) % SectorWord,
                                            e.size, part_nr + 1)
           /\ UNCHANGED scan_at

-----------------------------------------------------------------------------
(* Roles.  A block is its place in all_blocks. *)

FirstOf(S) == IF S = {} THEN NoBlock ELSE Min(S)
block_get_by_name(name) == FirstOf({k \in DOMAIN all_blocks : all_blocks[k].nr = name})

locate_block_device(role, name) ==
  IF name # NoName THEN block_get_by_name(name)
  ELSE FirstOf({k \in DOMAIN all_blocks : all_blocks[k].type = role})

\* A name no block has is a panic.
locate_block_devices ==
  /\ scan_at = "scan" /\ frames = << >>
  /\ IF bdev_name # NoName /\ block_get_by_name(bdev_name) = NoBlock
     THEN scan_at' = "panic" /\ UNCHANGED block_by_role
     ELSE /\ scan_at' = "ready"
          /\ block_by_role' = [filesys |-> locate_block_device("filesys", bdev_name),
                               scratch |-> locate_block_device("scratch", NoName)]
  /\ UNCHANGED <<mbr, bdev_name, frames, part_nr, all_blocks>>

PartNext == partition_scan \/ read_partition_table \/ locate_block_devices
PartSpec == PartInit /\ [][PartNext]_partVars

-----------------------------------------------------------------------------
(* Properties *)

\* The partitions of a table without an extended one that fit the disk.
Used == {i \in 1..TableLength : LET e == mbr.partitions[i] IN e.type # "empty" /\ e.size > 0}
Flat == \A i \in Used : mbr.partitions[i].type # "extended"
OnDisk(e) == e.offset + e.size <= DeviceSize
Number(i) == Cardinality({j \in Used : j <= i})

(* Whatever the table says, also with sizes that wrap and nested tables,   *)
(* every sector a partition lets through is a sector of the disk: the      *)
(* disk's own check, a panic, is never reached from a partition.           *)
PartitionsInside ==
  \A k \in DOMAIN all_blocks : \A s \in 0..SectorWord - 1 :
    check_sector(all_blocks[k], s) =>
      LET at == partition_read(all_blocks[k], s)
      IN check_sector(all_blocks[1], at) /\ at = all_blocks[k].start + s

(* A table without an extended partition is read in one call and gives     *)
(* exactly the partitions that lie on the disk, numbered by their entries; *)
(* the file system is on the one named or on the first of its type, at     *)
(* that entry's sectors.                                                   *)
FlatTableFound ==
  /\ Flat => Len(frames) <= 1 /\ scan_at # "overflow"
  /\ Flat /\ mbr.signed /\ scan_at = "ready" =>
       LET own(i) == LET e == mbr.partitions[i] IN Block(Number(i), e.type, e.offset, e.size)
           fits == {i \in Used : OnDisk(mbr.partitions[i])}
           typed == {i \in fits : mbr.partitions[i].type = "filesys"}
           fs == block_by_role["filesys"]
       IN /\ {all_blocks[k] : k \in 2..Len(all_blocks)} = {own(i) : i \in fits}
          /\ Len(all_blocks) = 1 + Cardinality(fits)
          /\ bdev_name = NoName =>
               IF typed = {} THEN fs = NoBlock ELSE all_blocks[fs] = own(Min(typed))
          /\ bdev_name > 0 => \E i \in fits : Number(i) = bdev_name /\ all_blocks[fs] = own(i)

(* The sectors the file system reads and writes are the ones its entry of  *)
(* the partition table names, and never any past the disk.                 *)
BlocksResolved == PartitionsInside /\ FlatTableFound
=============================================================================
