------------------------------ MODULE FileSys ------------------------------
(***************************************************************************)
(* The file system of pintos/src/filesys: free-map.c, inode.c,             *)
(* directory.c, file.c, filesys.c and the fsutil.c commands, which the     *)
(* kernel runs one after the other.                                        *)
(*                                                                         *)
(* A call is one action: it computes its effect on memory at once and      *)
(* leaves in w the sector writes it makes, in order.  Each write is then a *)
(* step of its own, and a crash loses the memory and the writes not yet    *)
(* made.  A sector holds SectorSize units; a unit is a bit of the free     *)
(* map, a directory entry or a byte of a file.  A call may run out of      *)
(* memory at the places of bad, at most MaxFaults of them.                 *)
(***************************************************************************)
EXTENDS Bitmap, SequencesExt

CONSTANTS Sectors,           \* block_size (fs_device)
          SectorSize,        \* BLOCK_SECTOR_SIZE
          DirEntries,        \* entries of the root directory
          ScratchSectors,    \* block_size of the scratch device
          Names, FileSizes,
          WriteSizes,        \* sizes of the file_write calls
          Files,             \* handles: bound on the open files
          MaxFaults,
          MaxListings        \* bound on the fsutil_ls calls

ASSUME FileSysAssumption ==
  /\ Sectors \in Nat /\ SectorSize \in Nat \ {0} /\ MaxFaults \in Nat
  /\ DirEntries \in 1 .. SectorSize   \* 16 entries of 20 bytes: one sector
  /\ FileSizes \subseteq Nat /\ WriteSizes \subseteq Nat \ {0}

VARIABLES disk, scratch,
          free_map,      \* in memory
          open_inodes,   \* by sector
          files,         \* struct file of each handle
          w,             \* writes still to be made: <<device, sector, content>>
          static_sector, \* of fsutil_extract and of fsutil_append
          up,            \* FALSE before the file system is there, and after a panic
          formatted,     \* history: the disk holds a complete file system
          calm,          \* history: no directory search ran out of memory
          lost           \* history: marked sectors that nothing refers to

fsVars == <<disk, scratch, free_map, open_inodes, files, w, static_sector, up,
            formatted, calm, lost>>

FREE_MAP_SECTOR == 0
ROOT_DIR_SECTOR == 1

DivUp(x, y) == (x + y - 1) \div y
Least(x, y) == IF x < y THEN x ELSE y

\* Units.  A byte of zero is also a clear bit and an entry not in use.
Byte(v) == [byte |-> v]
Bit(b) == Byte(IF b THEN 1 ELSE 0)
Entry(name, sector, in_use) == [name |-> name, inode_sector |-> sector, in_use |-> in_use]
InUse(e) == "name" \in DOMAIN e /\ e.in_use

DataSector(units) == [units |-> units]
Filled(v) == [i \in 1 .. SectorSize |-> Byte(v)]
zeros == DataSector(Filled(0))
inode_disk(start, length) == [start |-> start, length |-> length, units |-> Filled(3)]
header(name, size) == [name |-> name, size |-> size, units |-> Filled(2)]

bytes_to_sectors(size) == DivUp(size, SectorSize)
SectorsOf(inode) == inode.start .. inode.start + bytes_to_sectors(inode.length) - 1

-----------------------------------------------------------------------------
(* A call computes on a record of the state it changes.                    *)

Memory == [disk |-> disk, scratch |-> scratch, fm |-> free_map, open |-> open_inodes,
           w |-> <<>>, ok |-> TRUE, sector |-> BITMAP_ERROR, lost |-> lost]

Failed(st) == [st EXCEPT !.ok = FALSE]

block_write(st, sector, content) ==
  [st EXCEPT !.disk[sector] = content, !.w = Append(@, <<"disk", sector, content>>)]

scratch_write(st, sector, content) ==
  [st EXCEPT !.scratch[sector] = content, !.w = Append(@, <<"scratch", sector, content>>)]

inode_data(st, sector) ==
  IF sector \in DOMAIN st.open
  THEN inode_disk(st.open[sector].start, st.open[sector].length)
  ELSE st.disk[sector]

\* The unit at offset pos, through byte_to_sector.
unit_at(st, inode, pos) ==
  st.disk[inode.start + pos \div SectorSize].units[1 + (pos % SectorSize)]

\* How many units inode_read_at and inode_write_at transfer: up to the end
\* of the file, and up to the first partial sector when there is no memory
\* for the bounce buffer.
transfer(inode, size, ofs, no_bounce) ==
  LET n == Max({0, Least(size, inode.length - ofs)})
  IN  IF ~no_bounce THEN n
      ELSE IF ofs % SectorSize # 0 THEN 0 ELSE n - (n % SectorSize)

inode_read_at(st, inode, size, ofs, no_bounce) ==
  [i \in 1 .. transfer(inode, size, ofs, no_bounce) |-> unit_at(st, inode, ofs + i - 1)]

\* Sector by sector; a sector that is written in part is read first.
inode_write_at(st, inode, buffer, ofs, no_bounce) ==
  LET n == transfer(inode, Len(buffer), ofs, no_bounce)
      content(s, k) == DataSector([i \in 1 .. SectorSize |->
        LET pos == k * SectorSize + i - 1
        IN  IF pos \in ofs .. ofs + n - 1 THEN buffer[pos - ofs + 1]
            ELSE s.disk[inode.start + k].units[i]])
      touched == {k \in 0 .. Sectors : n > 0 /\ k \in ofs \div SectorSize ..
                                                      (ofs + n - 1) \div SectorSize}
  IN  FoldLeft(LAMBDA s, k : block_write(s, inode.start + k, content(s, k)),
               [st EXCEPT !.ok = (n = Len(buffer))], SetToSortSeq(touched, <))

-----------------------------------------------------------------------------
(* free-map.c *)

bitmap_write(st, no_bounce) ==
  inode_write_at(st, inode_data(st, FREE_MAP_SECTOR),
                 [i \in 1 .. Sectors |-> Bit(st.fm[i - 1])], 0, no_bounce)

free_map_init ==
  bitmap_mark(bitmap_mark(bitmap_create(Sectors), FREE_MAP_SECTOR), ROOT_DIR_SECTOR)

\* Whether the map could be written is not looked at.
allocation_result_unchecked(st, sector, cnt) == [st EXCEPT !.ok = TRUE]

allocation_result(st, sector, cnt) ==
  IF st.ok THEN st
  ELSE [st EXCEPT !.fm = bitmap_set_multiple(@, sector, cnt, FALSE)]

\* Without a free map file (while it is created) the map is only in memory.
free_map_allocate(st, cnt, has_file, no_bounce) ==
  LET sector == bitmap_scan(st.fm, 0, cnt, FALSE)
      flipped == [st EXCEPT !.fm = bitmap_flipped(st.fm, sector, cnt, FALSE),
                            !.sector = sector]
      written == bitmap_write(flipped, no_bounce)
  IN  CASE sector = BITMAP_ERROR -> Failed(st)
        [] has_file -> allocation_result(written, sector, cnt)
        [] OTHER -> flipped

\* A failed write of the map goes unnoticed.
free_map_release(st, sector, cnt, no_bounce) ==
  [bitmap_write([st EXCEPT !.fm = bitmap_set_multiple(@, sector, cnt, FALSE)], no_bounce)
     EXCEPT !.ok = TRUE]

free_map_open(st) ==
  [i \in 0 .. Sectors - 1 |->
     unit_at(st, inode_data(st, FREE_MAP_SECTOR), i) = Bit(TRUE)]

-----------------------------------------------------------------------------
(* inode.c *)

clear_sectors(st, start, sectors) ==
  FoldLeft(LAMBDA s, i : block_write(s, start + i - 1, zeros), st,
           [i \in 1 .. sectors |-> i])

inode_create(st, sector, length, has_file, bad) ==
  LET sectors == bytes_to_sectors(length)
      got == free_map_allocate(st, sectors, has_file, <<"map", 2>> \in bad)
  IN  IF <<"inode", 0>> \in bad THEN Failed(st)
      ELSE IF ~got.ok THEN got
      ELSE clear_sectors(block_write(got, sector, inode_disk(got.sector, length)),
                         got.sector, sectors)

inode_open(st, sector, bad) ==
  IF sector \in DOMAIN st.open
  THEN [st EXCEPT !.open[sector].open_cnt = @ + 1]
  ELSE IF <<"inode", 0>> \in bad THEN Failed(st)
  ELSE LET data == st.disk[sector]
           new == [open_cnt |-> 1, removed |-> FALSE, deny_write_cnt |-> 0,
                   start |-> data.start, length |-> data.length]
       IN  [st EXCEPT !.open = [s \in DOMAIN @ \cup {sector} |->
                                  IF s = sector THEN new ELSE @[s]]]

\* Only the inode's own sector is given back.
deallocate_inode_only(st, sector, inode, bad) ==
  free_map_release(st, sector, 1, <<"map", 1>> \in bad)

deallocate(st, sector, inode, bad) ==
  free_map_release(free_map_release(st, sector, 1, <<"map", 1>> \in bad),
                   inode.start, bytes_to_sectors(inode.length), <<"map", 2>> \in bad)

inode_close(st, sector, bad) ==
  LET inode == st.open[sector]
      closed == [st EXCEPT !.open = [s \in DOMAIN @ \ {sector} |-> @[s]]]
  IN  IF inode.open_cnt > 1 THEN [st EXCEPT !.open[sector].open_cnt = @ - 1]
      ELSE IF inode.removed THEN deallocate(closed, sector, inode, bad)
      ELSE closed

-----------------------------------------------------------------------------
(* directory.c.  Every entry is read with a bounce buffer of its own; a    *)
(* search that gets none stops there as at the end of the directory.       *)

root(st) == inode_data(st, ROOT_DIR_SECTOR)

NoOffset == -1
readable(st, loop, bad) ==
  {ofs \in 0 .. root(st).length - 1 : \A k \in 0 .. ofs : <<loop, k>> \notin bad}
entry(st, ofs) == unit_at(st, root(st), ofs)

lookup(st, name, bad) ==
  LET found == {ofs \in readable(st, "lookup", bad) :
                  InUse(entry(st, ofs)) /\ entry(st, ofs).name = name}
  IN  IF found = {} THEN NoOffset ELSE Min(found)

\* The first slot not in use, or where the reading stopped.
free_slot(st, bad) ==
  LET read == readable(st, "slot", bad)
      free == {ofs \in read : ~InUse(entry(st, ofs))}
  IN  IF free = {} THEN Cardinality(read) ELSE Min(free)

\* The name may be in use already.
dir_add_unchecked(st, name, sector, bad) ==
  inode_write_at(st, root(st), <<Entry(name, sector, TRUE)>>,
                 free_slot(st, bad), <<"entry", 0>> \in bad)

dir_add(st, name, sector, bad) ==
  IF lookup(st, name, bad) # NoOffset THEN Failed(st)
  ELSE inode_write_at(st, root(st), <<Entry(name, sector, TRUE)>>,
                      free_slot(st, bad), <<"entry", 0>> \in bad)

inode_remove(st, sector) == [st EXCEPT !.open[sector].removed = TRUE]

dir_remove(st, name, bad) ==
  LET ofs == lookup(st, name, bad)
      sector == entry(st, ofs).inode_sector
      opened == inode_open(st, sector, bad)
      erased == inode_write_at(opened, root(st), <<Entry(name, sector, FALSE)>>, ofs,
                               <<"entry", 0>> \in bad)
  IN  IF ofs = NoOffset THEN Failed(st)
      ELSE IF ~opened.ok THEN opened
      ELSE IF ~erased.ok THEN Failed(inode_close(erased, sector, bad))
      ELSE inode_close(inode_remove(erased, sector), sector, bad)

-----------------------------------------------------------------------------
(* filesys.c.  <<"dir", 0>> is dir_open_root failing. *)

\* The conditions of filesys_create's && chain, each with the result of the
\* one before it, and the release of the inode's sector when one is false.
release_inode(st, sector, bad) == Failed(free_map_release(st, sector, 1, <<"map", 3>> \in bad))

create_result(added, sector, data, bad) ==
  IF added.ok THEN added
  ELSE [release_inode(added, sector, bad) EXCEPT !.lost = @ \cup data]

create_entry(made, name, sector, bad) ==
  IF ~made.ok THEN release_inode(made, sector, bad)
  ELSE create_result(dir_add(made, name, sector, bad), sector,
                     SectorsOf(made.disk[sector]), bad)

create_inode(got, name, size, bad) ==
  IF ~got.ok THEN got
  ELSE create_entry(inode_create(got, got.sector, size, TRUE, bad), name, got.sector, bad)

filesys_create(st, name, size, bad) ==
  IF <<"dir", 0>> \in bad THEN Failed(st)
  ELSE create_inode(free_map_allocate(st, 1, TRUE, <<"map", 1>> \in bad), name, size, bad)

filesys_open(st, name, bad) ==
  LET ofs == lookup(st, name, bad)
      sector == entry(st, ofs).inode_sector
      opened == inode_open(st, sector, bad)
  IN  IF <<"dir", 0>> \in bad \/ ofs = NoOffset THEN Failed(st)
      ELSE IF ~opened.ok THEN opened
      ELSE IF <<"file", 0>> \in bad THEN Failed(inode_close(opened, sector, bad))
      ELSE [opened EXCEPT !.sector = sector]

filesys_remove(st, name, bad) ==
  IF <<"dir", 0>> \in bad THEN Failed(st) ELSE dir_remove(st, name, bad)

\* The map is written to its file once that is there.
free_map_create(st) ==
  bitmap_write(inode_create(st, FREE_MAP_SECTOR, Sectors, FALSE, {}), FALSE)
dir_create(st, sector) == inode_create(st, sector, DirEntries, TRUE, {})

do_format(st) ==
  dir_create(free_map_create([st EXCEPT !.fm = free_map_init, !.open = <<>>]), ROOT_DIR_SECTOR)

-----------------------------------------------------------------------------
(* fsutil.c *)

\* The file of a header, made by filesys_create, is opened.
extract_file(x, made, name, size, next) ==
  IF ~made.ok THEN [x EXCEPT !.st = made]
  ELSE [x EXCEPT !.st = made, !.size = size, !.pos = 0, !.at = next,
                 !.inode = made.disk[entry(made, lookup(made, name, {})).inode_sector]]

\* One sector of the archive after the other: a header, or file data.
extract_sector(x, sector) ==
  LET got == x.st.scratch[sector]
      chunk == Least(x.size, SectorSize)
  IN  CASE x.done \/ ~x.st.ok \/ sector < x.from -> x
        [] ~x.done /\ x.st.ok /\ sector >= x.from /\ x.size > 0 ->
             [x EXCEPT !.st = inode_write_at(@, x.inode, SubSeq(got.units, 1, chunk), x.pos, FALSE),
                       !.size = @ - chunk, !.pos = @ + chunk, !.at = sector + 1]
        [] OTHER ->
             IF got = zeros THEN [x EXCEPT !.done = TRUE, !.at = sector + 1]
             ELSE IF "name" \notin DOMAIN got THEN [x EXCEPT !.st.ok = FALSE]
             ELSE extract_file(x, filesys_create(x.st, got.name, got.size, {}), got.name,
                               got.size, sector + 1)

\* st.ok is FALSE when it panics; the archive's first two sectors are
\* erased when it does not.
fsutil_extract(st, from) ==
  LET x == FoldLeft(extract_sector,
                    [st |-> st, from |-> from, at |-> from, size |-> 0, pos |-> 0,
                     inode |-> inode_disk(0, 0), done |-> FALSE],
                    [i \in 1 .. ScratchSectors |-> i - 1])
  IN  [st |-> IF x.done THEN scratch_write(scratch_write(x.st, 0, zeros), 1, zeros)
                        ELSE Failed(x.st),
       at |-> x.at]

\* The position moves past the marker.
append_position_past(at, written, cnt) == at + written

append_position(at, written, cnt) == at + Least(written, cnt + 1)

\* The second sector of the marker is written over the first one, from one
\* byte further: it ends in the byte after the buffer, which is of another
\* block.
marker(beyond) == DataSector([Filled(0) EXCEPT ![SectorSize] = Byte(beyond)])

\* A header, the file's sectors padded with zeros, and a marker that the
\* next call overwrites.
archive_of(name, units) ==
  LET chunk(k) == DataSector([i \in 1 .. SectorSize |->
        LET pos == (k - 1) * SectorSize + i IN IF pos <= Len(units) THEN units[pos] ELSE Byte(0)])
  IN  <<header(name, Len(units))>> \o [k \in 1 .. bytes_to_sectors(Len(units)) |-> chunk(k)]
        \o <<zeros>>

\* It panics when the device is full.
append_sectors(st, image, at, beyond) ==
  LET room == Least(Len(image), ScratchSectors - at)
      copied == FoldLeft(LAMBDA s, k : scratch_write(s, at + k - 1, image[k]),
                         st, [k \in 1 .. room |-> k])
  IN  [st |-> IF room < Len(image) THEN Failed(copied)
              ELSE scratch_write(copied, at + room - 1, marker(beyond)),
       at |-> append_position(at, room, Len(image) - 2)]

fsutil_append(st, name, at, beyond) ==
  LET inode == st.disk[entry(st, lookup(st, name, {})).inode_sector]
  IN  IF lookup(st, name, {}) = NoOffset THEN [st |-> Failed(st), at |-> at]
      ELSE append_sectors(st, archive_of(name, inode_read_at(st, inode, inode.length, 0, FALSE)),
                          at, beyond)

-----------------------------------------------------------------------------
NoFile == [inode |-> NoOffset]
File(sector) == [inode |-> sector, pos |-> 0, deny_write |-> FALSE]
IsOpen(f) == files[f] # NoFile

FsInitWith(archive) ==
  /\ disk = [s \in 0 .. Sectors - 1 |-> zeros]
  /\ scratch = archive
  /\ free_map = free_map_init
  /\ open_inodes = <<>>
  /\ files = [f \in Files |-> NoFile]
  /\ w = <<>>
  /\ static_sector = [extract |-> 0, append |-> 0]
  /\ up = FALSE /\ formatted = FALSE /\ calm = TRUE
  /\ lost = {}

FsInit == FsInitWith([s \in 0 .. ScratchSectors - 1 |-> zeros])

\* The state after a call that computed st.
Becomes(st) ==
  /\ free_map' = st.fm
  /\ open_inodes' = st.open
  /\ w' = st.w
  /\ lost' = st.lost
  /\ UNCHANGED <<disk, scratch>>

CanCall == up /\ w = <<>>

\* Where a call may run out of memory, for each part of it.
Places(part) ==
  CASE part \in {"lookup", "slot"} -> {part} \X (0 .. DirEntries - 1)
    [] part = "map" -> {part} \X (1 .. 3)
    [] OTHER -> {<<part, 0>>}
Faults(parts) ==
  {bad \in SUBSET UNION {Places(p) : p \in parts} : Cardinality(bad) <= MaxFaults}
CreateFaults == Faults({"dir", "map", "inode", "lookup", "slot", "entry"})
OpenFaults == Faults({"dir", "lookup", "inode", "file"})
RemoveFaults == Faults({"dir", "lookup", "inode", "entry", "map"})
CloseFaults == Faults({"map"})
TransferFaults == Faults({"entry"})

CreateFile(name, size, bad) ==
  /\ CanCall
  /\ Becomes(filesys_create(Memory, name, size, bad))
  /\ calm' = (calm /\ \A p \in bad : p[1] \notin {"lookup", "slot"})
  /\ UNCHANGED <<files, static_sector, up, formatted>>

OpenFile(f, name, bad) ==
  LET st == filesys_open(Memory, name, bad) IN
  /\ CanCall
  /\ ~IsOpen(f)
  /\ Becomes(st)
  /\ files' = IF st.ok THEN [files EXCEPT ![f] = File(st.sector)] ELSE files
  /\ UNCHANGED <<static_sector, up, formatted, calm>>

RemoveFile(name, bad) ==
  /\ CanCall
  /\ Becomes(filesys_remove(Memory, name, bad))
  /\ UNCHANGED <<files, static_sector, up, formatted, calm>>

\* Without memory for a new file the inode is closed again.
file_reopen(f, g) ==
  /\ CanCall
  /\ IsOpen(f) /\ ~IsOpen(g)
  /\ Becomes(inode_open(Memory, files[f].inode, {}))
  /\ files' = [files EXCEPT ![g] = File(files[f].inode)]
  /\ UNCHANGED <<static_sector, up, formatted, calm>>

file_deny_write(f) ==
  /\ CanCall
  /\ IsOpen(f) /\ ~files[f].deny_write
  /\ files' = [files EXCEPT ![f].deny_write = TRUE]
  /\ open_inodes' = [open_inodes EXCEPT ![files[f].inode].deny_write_cnt = @ + 1]
  /\ UNCHANGED <<disk, scratch, free_map, w, static_sector, up, formatted, calm, lost>>

AllowWrite(st, f) ==
  IF files[f].deny_write
  THEN [st EXCEPT !.open[files[f].inode].deny_write_cnt = @ - 1] ELSE st

file_allow_write(f) ==
  /\ CanCall
  /\ IsOpen(f) /\ files[f].deny_write
  /\ Becomes(AllowWrite(Memory, f))
  /\ files' = [files EXCEPT ![f].deny_write = FALSE]
  /\ UNCHANGED <<static_sector, up, formatted, calm>>

file_close(f, bad) ==
  /\ CanCall
  /\ IsOpen(f)
  /\ Becomes(inode_close(AllowWrite(Memory, f), files[f].inode, bad))
  /\ files' = [files EXCEPT ![f] = NoFile]
  /\ UNCHANGED <<static_sector, up, formatted, calm>>

\* The count of the deniers is not looked at.
may_write_always(inode) == TRUE

may_write(inode) == inode.deny_write_cnt = 0

\* A write that is denied returns 0.
file_write(f, size, bad) ==
  LET inode == inode_data(Memory, files[f].inode)
      ones == [i \in 1 .. size |-> Byte(1)]
      n == transfer(inode, size, files[f].pos, <<"entry", 0>> \in bad)
  IN
  /\ CanCall
  /\ IsOpen(f)
  /\ may_write(open_inodes[files[f].inode])
  /\ Becomes(inode_write_at(Memory, inode, ones, files[f].pos, <<"entry", 0>> \in bad))
  /\ files' = [files EXCEPT ![f].pos = @ + n]
  /\ UNCHANGED <<static_sector, up, formatted, calm>>

\* file_seek; file_read moves the position by what it reads.
file_seek(f, new_pos) ==
  /\ CanCall
  /\ IsOpen(f)
  /\ files' = [files EXCEPT ![f].pos = new_pos]
  /\ UNCHANGED <<disk, scratch, free_map, open_inodes, w, static_sector, up, formatted, calm, lost>>

file_read(f, size, bad) ==
  /\ CanCall
  /\ IsOpen(f)
  /\ files' = [files EXCEPT ![f].pos = @ + Len(inode_read_at(Memory,
       inode_data(Memory, files[f].inode), size, files[f].pos, <<"entry", 0>> \in bad))]
  /\ UNCHANGED <<disk, scratch, free_map, open_inodes, w, static_sector, up, formatted, calm, lost>>

\* fsutil_ls never closes the root directory.
fsutil_ls ==
  /\ CanCall
  /\ ROOT_DIR_SECTOR \in DOMAIN open_inodes => open_inodes[ROOT_DIR_SECTOR].open_cnt < MaxListings
  /\ MaxListings > 0
  /\ Becomes(inode_open(Memory, ROOT_DIR_SECTOR, {}))
  /\ UNCHANGED <<files, static_sector, up, formatted, calm>>

Extract ==
  LET x == fsutil_extract(Memory, static_sector.extract) IN
  /\ CanCall
  /\ Becomes(x.st)
  /\ up' = x.st.ok
  /\ static_sector' = [static_sector EXCEPT !.extract = x.at]
  /\ UNCHANGED <<files, formatted, calm>>

AppendFile(name, beyond) ==
  LET x == fsutil_append(Memory, name, static_sector.append, beyond) IN
  /\ CanCall
  /\ Becomes(x.st)
  /\ up' = x.st.ok
  /\ static_sector' = [static_sector EXCEPT !.append = x.at]
  /\ UNCHANGED <<files, formatted, calm>>

-----------------------------------------------------------------------------
\* The next sector write reaches its device.
WriteSector ==
  /\ w # <<>>
  /\ w' = Tail(w)
  /\ LET sector == Head(w)[2]  content == Head(w)[3] IN
     IF Head(w)[1] = "disk"
     THEN disk' = [disk EXCEPT ![sector] = content] /\ UNCHANGED scratch
     ELSE scratch' = [scratch EXCEPT ![sector] = content] /\ UNCHANGED disk
  /\ formatted' = (formatted \/ w' = <<>>)
  /\ UNCHANGED <<free_map, open_inodes, files, static_sector, up, calm, lost>>

\* filesys_init (true), of a disk of any content.
Format ==
  LET st == do_format(Memory) IN
  /\ ~up /\ w = <<>>
  /\ up' = TRUE
  /\ formatted' = FALSE
  /\ Becomes([st EXCEPT !.lost = {}])
  /\ files' = [f \in Files |-> NoFile]
  /\ static_sector' = [extract |-> 0, append |-> 0]
  /\ UNCHANGED calm

DiskState == [disk |-> disk, open |-> <<>>]
DiskEntries == {ofs \in readable(DiskState, "none", {}) : InUse(entry(DiskState, ofs))}
InodesOnDisk == {FREE_MAP_SECTOR, ROOT_DIR_SECTOR}
                \cup {entry(DiskState, ofs).inode_sector : ofs \in DiskEntries}
Extent(s) == {s} \cup SectorsOf(disk[s])
MarkedOnDisk == LET map == free_map_open(DiskState)
                IN  {s \in 0 .. Sectors - 1 : map[s]}

\* filesys_init (false) after a power-off, or after a panic.
Boot ==
  /\ formatted /\ ~up /\ w = <<>>
  /\ up' = TRUE
  /\ free_map' = free_map_open(DiskState)
  /\ open_inodes' = <<>>
  /\ lost' = MarkedOnDisk \ UNION {Extent(s) : s \in InodesOnDisk}
  /\ files' = [f \in Files |-> NoFile]
  /\ static_sector' = [extract |-> 0, append |-> 0]
  /\ UNCHANGED <<disk, scratch, w, formatted, calm>>

Crash ==
  /\ up
  /\ up' = FALSE
  /\ w' = <<>>
  /\ UNCHANGED <<disk, scratch, free_map, open_inodes, files, static_sector,
                 formatted, calm, lost>>

CreateNext == \E name \in Names, size \in FileSizes, bad \in CreateFaults :
                CreateFile(name, size, bad)

HandleNext ==
  \/ \E name \in Names, f \in Files, bad \in OpenFaults : OpenFile(f, name, bad)
  \/ \E f, g \in Files : file_reopen(f, g)
  \/ \E f \in Files, bad \in CloseFaults : file_close(f, bad)
  \/ \E f \in Files, n \in WriteSizes, bad \in TransferFaults :
       file_write(f, n, bad) \/ file_read(f, n, bad)
  \/ \E f \in Files : file_deny_write(f) \/ file_allow_write(f) \/ file_seek(f, 0)

ArchiveNext == Extract \/ \E name \in Names, beyond \in {0, 1} : AppendFile(name, beyond)

FsNext ==
  \/ CreateNext \/ HandleNext \/ ArchiveNext \/ fsutil_ls
  \/ \E name \in Names, bad \in RemoveFaults : RemoveFile(name, bad)
  \/ WriteSector \/ Format \/ Boot \/ Crash

FsSpec == FsInit /\ [][FsNext]_fsVars

-----------------------------------------------------------------------------
(* Properties *)

(* Whatever write a crash comes after, the file system on the disk is      *)
(* sound: an inode that the directory refers to, and its data, are marked  *)
(* in the free map on the disk and belong to it alone, so the next boot    *)
(* cannot hand out a sector that is in use.                                *)
CrashSafe ==
  formatted =>
    /\ \A s \in InodesOnDisk : Extent(s) \subseteq MarkedOnDisk
    /\ \A s, t \in InodesOnDisk : s # t => Extent(s) \cap Extent(t) = {}

(* Between calls the free map in memory marks exactly the sectors that the *)
(* directory refers to, those of removed files that are still open, and    *)
(* the ones lost to a create that failed in dir_add or to a crash: no      *)
(* other path through open, remove and close loses or frees a sector.      *)
SectorsAccounted ==
  CanCall /\ formatted /\ calm =>
    LET removed == {s \in DOMAIN open_inodes : open_inodes[s].removed}
    IN  {s \in 0 .. Sectors - 1 : free_map[s]}
          = lost \cup UNION {Extent(s) : s \in InodesOnDisk \cup removed}

\* The files on a disk, slot by slot.
ViewOf(st) ==
  [ofs \in {ofs \in readable(st, "none", {}) : InUse(entry(st, ofs))} |->
     LET e == entry(st, ofs)
         inode == st.disk[e.inode_sector]
     IN  [name |-> e.name, inode |-> e.inode_sector,
          content |-> inode_read_at(st, inode, inode.length, 0, FALSE)]]
View == ViewOf(DiskState)

OneChange(old, new) ==
  LET kept == DOMAIN old \cap DOMAIN new
      added == DOMAIN new \ DOMAIN old
      changed == {ofs \in kept : old[ofs] # new[ofs]}
  IN
  /\ Cardinality(added \cup changed \cup (DOMAIN old \ DOMAIN new)) <= 1
  /\ \A ofs \in added :
       /\ Range(new[ofs].content) \subseteq {Byte(0)}
       /\ \A other \in kept : old[other].name # new[ofs].name
  /\ \A ofs \in changed :
       /\ old[ofs].inode = new[ofs].inode
       /\ Cardinality({(i - 1) \div SectorSize : i \in {i \in DOMAIN old[ofs].content :
             old[ofs].content[i] # new[ofs].content[i]}}) <= 1

(* A step, a crash included, gives the disk one more file, all zero and    *)
(* with a name of its own; or takes one away; or changes one sector of one *)
(* file; or nothing.  So create and remove are atomic across crashes, and  *)
(* a new file never shows what an old one left in its sectors.             *)
ChangesAreAtomic ==
  [][formatted /\ formatted' /\ calm' => OneChange(View, View')]_fsVars

(* While a handle denies writes, no write through any handle changes the   *)
(* file: reopening, allowing and closing handles keep the inode's count.   *)
DeniedFileUnchanged ==
  [][\A f \in Files :
       CanCall /\ IsOpen(f) /\ files[f].deny_write =>
         \A k \in DOMAIN w' :
           w'[k][2] \notin SectorsOf(inode_data(Memory, files[f].inode))]_fsVars

\* The files, wherever they are in the directory and on the disk.
FilesOf(view) == {<<f.name, f.content>> : f \in view}

\* After a second append, if the first one has not run out of space.
AppendedTo(one, name, beyond) ==
  IF one.st.ok THEN fsutil_append(one.st, name, one.at, beyond) ELSE one

ComeBack(copy, files_, beyond) ==
  LET new == fsutil_extract(do_format(copy.st), 0).st
  IN  copy.st.ok => new.ok = (beyond = 0) /\ FilesOf(Range(ViewOf(new))) = files_

(* Files that fsutil_append writes to the scratch device one after the     *)
(* other come back from it: fsutil_extract into a new file system finds    *)
(* them all, with their names and contents.  It then stops at the marker   *)
(* that the last append left, or panics there if the byte behind the       *)
(* append's buffer made that marker something else than zeros.             *)
ArchiveRoundTrip ==
  CanCall /\ formatted /\ calm =>
    \A first, second \in Range(View), beyond \in {0, 1} :
      LET one == fsutil_append(Memory, first.name, 0, beyond)
      IN  ComeBack(IF first = second THEN one ELSE AppendedTo(one, second.name, beyond),
                   FilesOf({first, second}), beyond)

(* What reaches the disk is a legal change: atomic, and never of a file    *)
(* for which writes are denied.                                            *)
ChangesAreLegal == ChangesAreAtomic /\ DeniedFileUnchanged
=============================================================================
