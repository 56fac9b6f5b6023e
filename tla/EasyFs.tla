-------------------------------- MODULE EasyFs ---------------------------------
(***************************************************************************)
(* easy-fs: allocation bitmaps, disk inodes with direct, indirect and      *)
(* doubly indirect pointers, one directory, and the open files of the      *)
(* kernel above it.  Every operation holds the file system's lock and runs *)
(* within one trap.                                                        *)
(*                                                                         *)
(* A block is BlockSize cells; a cell is a byte of a file, a half of a     *)
(* directory entry or a block id.  The bitmaps and the inode area are kept *)
(* as what they encode; the superblock and the data area as blocks.  The   *)
(* device is seen through the block cache (module BlockCache): `img` is    *)
(* what get_block_cache shows, `disk` what a power cut leaves.             *)
(***************************************************************************)
EXTENDS Integers, Sequences, FiniteSetsExt, SequencesExt

CONSTANTS BlockSize,         \* BLOCK_SZ; an index block has as many ids as cells
          DirectCount,       \* INODE_DIRECT_COUNT
          DirentSize,        \* DIRENT_SZ
          BlockBits,         \* BLOCK_BITS, the bits of a bitmap block
          InodesPerBlock,
          DeviceBlocks,      \* total_blocks
          InodeBitmapBlocks,
          Names, Handles,
          Buffers,           \* what is written; buffers to read into have these lengths
          MaxSize            \* bound on the end of a write

ASSUME SizeAssumption ==
  /\ {BlockSize, DirectCount, BlockBits, InodesPerBlock, DeviceBlocks, InodeBitmapBlocks}
       \subseteq Nat \ {0}
  /\ DirentSize = 2 /\ BlockSize % DirentSize = 0 /\ MaxSize \in Nat
ASSUME CellAssumption ==
  Names \subseteq Nat \ {0} /\ IsFiniteSet(Names) /\ Buffers \subseteq Seq(Nat)

VARIABLES img,     \* the image the file system works on
          disk,    \* the image on the device
          handles, \* open file -> its inode and offset
          machine, \* "running", or why the kernel panicked
          view     \* history: what `disk` shows, name -> its inode and contents

vars == <<img, disk, handles, machine, view>>

----------------------------------------------------------------------------
\* The layout that EasyFileSystem::create computes.
CeilDiv(a, b) == (a + b - 1) \div b

InodeAreaBlocks == CeilDiv(InodeBitmapBlocks * BlockBits, InodesPerBlock)
DataTotalBlocks == DeviceBlocks - 1 - InodeBitmapBlocks - InodeAreaBlocks
DataBitmapBlocks == CeilDiv(DataTotalBlocks, BlockBits + 1)
DataAreaStart == 1 + InodeBitmapBlocks + InodeAreaBlocks + DataBitmapBlocks

\* The device has room for the inode area: DataTotalBlocks is computed in a u32.
ASSUME LayoutAssumption == DataTotalBlocks >= 0

Inodes == 0 .. InodeBitmapBlocks * BlockBits - 1
DataBits == 0 .. DataBitmapBlocks * BlockBits - 1
DataArea == DataAreaStart .. DeviceBlocks - 1

Root == 0
Magic == DeviceBlocks + BlockBits   \* EFS_MAGIC: no block id
Cells == 0 .. BlockSize - 1
Zeros == [c \in Cells |-> 0]
SuperBlock == [Zeros EXCEPT ![0] = Magic]

EmptyInode ==
  [size |-> 0, direct |-> [k \in 0 .. DirectCount - 1 |-> 0], indirect1 |-> 0, indirect2 |-> 0]

\* `fault` is why an operation on the image panicked.
Formatted ==
  [inode_bitmap |-> {Root}, data_bitmap |-> {}, inode |-> [i \in {Root} |-> EmptyInode],
   block |-> [b \in {0} \cup DataArea |-> IF b = 0 THEN SuperBlock ELSE Zeros],
   fault |-> "none"]

Init ==
  /\ img = Formatted
  /\ disk = Formatted
  /\ handles = <<>>
  /\ machine = "running"
  /\ view = <<>>

Fault(im, why) == IF im.fault = "none" THEN [im EXCEPT !.fault = why] ELSE im

\* Reading and writing a cell of a cached block; a block the device does not have
\* makes it panic.
Bad == -1
Cell(im, b, c) == IF b \in DOMAIN im.block /\ c \in Cells THEN im.block[b][c] ELSE Bad

Poke(im, b, c, v) ==
  IF b \notin DOMAIN im.block THEN Fault(im, "device")
  ELSE IF c \notin Cells THEN Fault(im, "index")
  ELSE [im EXCEPT !.block[b][c] = v]

----------------------------------------------------------------------------
\* DiskInode: sizes, and where the id of each block is kept.
Indirect1Bound == DirectCount + BlockSize

DataBlocks(size) == CeilDiv(size, BlockSize)

\* Mistaken: the last second-level index block is counted only when it is full.
TotalBlocksShort(size) ==
  LET n == DataBlocks(size)
  IN n + (IF n > DirectCount THEN 1 ELSE 0)
       + (IF n > Indirect1Bound THEN 1 + (n - Indirect1Bound) \div BlockSize ELSE 0)

\* total_blocks: with the index blocks.
TotalBlocks(size) ==
  LET n == DataBlocks(size)
  IN n + (IF n > DirectCount THEN 1 ELSE 0)
       + (IF n > Indirect1Bound THEN 1 + CeilDiv(n - Indirect1Bound, BlockSize) ELSE 0)

\* Mistaken: the second-level index is not split into block and position.
GetBlockIdFlat(im, inode, inner) ==
  IF inner < DirectCount THEN inode.direct[inner]
  ELSE IF inner < Indirect1Bound THEN Cell(im, inode.indirect1, inner - DirectCount)
  ELSE LET last == inner - Indirect1Bound
       IN Cell(im, Cell(im, inode.indirect2, 0), last % BlockSize)

GetBlockId(im, inode, inner) ==
  IF inner < DirectCount THEN inode.direct[inner]
  ELSE IF inner < Indirect1Bound THEN Cell(im, inode.indirect1, inner - DirectCount)
  ELSE LET last == inner - Indirect1Bound
       IN Cell(im, Cell(im, inode.indirect2, last \div BlockSize), last % BlockSize)

\* The pointers that come with data block k, in the order increase_size fills and
\* clear_size gives back the blocks they name.
PlacesOf(k) ==
  LET last == k - Indirect1Bound
  IN (IF k = DirectCount THEN <<[of |-> "indirect1", at |-> 0]>> ELSE <<>>)
       \o (IF last = 0 THEN <<[of |-> "indirect2", at |-> 0]>> ELSE <<>>)
       \o (IF last >= 0 /\ last % BlockSize = 0
           THEN <<[of |-> "index", at |-> last \div BlockSize]>> ELSE <<>>)
       \o <<[of |-> "data", at |-> k]>>

Places(from, to) ==
  LET places[k \in from .. to] ==
        IF k = from THEN <<>> ELSE places[k - 1] \o PlacesOf(k - 1)
  IN places[to]

PointerAt(im, inode, place) ==
  CASE place.of = "indirect1" -> inode.indirect1
    [] place.of = "indirect2" -> inode.indirect2
    [] place.of = "index" -> Cell(im, inode.indirect2, place.at)
    [] OTHER -> GetBlockId(im, inode, place.at)

WithInode(im, ino, inode) == [im EXCEPT !.inode[ino] = inode]

SetPointer(im, ino, place, id) ==
  LET inode == im.inode[ino]
      last == place.at - Indirect1Bound
  IN IF place.of = "indirect1" THEN WithInode(im, ino, [inode EXCEPT !.indirect1 = id])
     ELSE IF place.of = "indirect2" THEN WithInode(im, ino, [inode EXCEPT !.indirect2 = id])
     ELSE IF place.of = "index" THEN Poke(im, inode.indirect2, place.at, id)
     ELSE IF place.at < DirectCount
     THEN WithInode(im, ino, [inode EXCEPT !.direct[place.at] = id])
     ELSE IF place.at < Indirect1Bound THEN Poke(im, inode.indirect1, place.at - DirectCount, id)
     ELSE Poke(im, Cell(im, inode.indirect2, last \div BlockSize), last % BlockSize, id)

----------------------------------------------------------------------------
\* Allocation, and the size of a file.

\* alloc_data takes the lowest free bit; the bits taken after each of `needed` calls.
LowestFree(bits) == Min(DataBits \ bits)

Taken(bits, needed) ==
  LET taken[i \in 0 .. needed] ==
        IF i = 0 THEN bits
        ELSE IF taken[i - 1] = DataBits THEN DataBits
        ELSE taken[i - 1] \cup {LowestFree(taken[i - 1])}
  IN taken

\* increase_size of layout.rs: the pointers, in order.
FillPointers(im, ino, places, taken) ==
  LET filled[i \in 0 .. Len(places)] ==
        IF i = 0 THEN im
        ELSE SetPointer(filled[i - 1], ino, places[i], DataAreaStart + LowestFree(taken[i - 1]))
  IN filled[Len(places)]

\* A vector of new blocks that is too short is an unwrap of None.
IncreaseSize(im, ino, new_size) ==
  LET inode == im.inode[ino]
      needed == TotalBlocks(new_size) - TotalBlocks(inode.size)
      taken == Taken(im.data_bitmap, needed)
      places == Places(DataBlocks(inode.size), DataBlocks(new_size))
      allocated == [WithInode(im, ino, [inode EXCEPT !.size = new_size]) EXCEPT
                      !.data_bitmap = taken[needed]]
  IN IF new_size < inode.size THEN im
     ELSE IF \E i \in 0 .. needed - 1 : taken[i] = DataBits
     THEN Fault([im EXCEPT !.data_bitmap = DataBits], "alloc")
     ELSE IF Len(places) > needed THEN Fault(im, "assert")
     ELSE FillPointers(allocated, ino, places, taken)

\* Mistaken: the bit stays set.
DeallocDataKept(im, id) == [im EXCEPT !.block[id] = Zeros]

DeallocData(im, id) ==
  IF id \notin DOMAIN im.block THEN Fault(im, "device")
  ELSE IF id - DataAreaStart \notin im.data_bitmap THEN Fault(im, "assert")
  ELSE [im EXCEPT !.block[id] = Zeros, !.data_bitmap = @ \ {id - DataAreaStart}]

\* clear_size and the deallocations after it.
Clear(im, ino) ==
  LET inode == im.inode[ino]
      places == Places(0, DataBlocks(inode.size))
      ids == [i \in DOMAIN places |-> PointerAt(im, inode, places[i])]
  IN IF Len(ids) # TotalBlocks(inode.size) THEN Fault(im, "assert")
     ELSE LET freed[i \in 0 .. Len(ids)] ==
                IF i = 0 THEN WithInode(im, ino, EmptyInode) ELSE DeallocData(freed[i - 1], ids[i])
          IN freed[Len(ids)]

----------------------------------------------------------------------------
\* Contents.
ReadAt(im, inode, offset, len) ==
  LET end == Min({offset + len, inode.size})
  IN [i \in 1 .. end - offset |->
        Cell(im, GetBlockId(im, inode, (offset + i - 1) \div BlockSize),
             (offset + i - 1) % BlockSize)]

\* A write of nothing still looks up the block of its offset.
WriteAt(im, ino, offset, buf) ==
  LET Id(o) == GetBlockId(im, im.inode[ino], o \div BlockSize)
      allocated == Id(offset) - DataAreaStart \in im.data_bitmap
      written[i \in 0 .. Len(buf)] ==
        IF i = 0 THEN im
        ELSE Poke(written[i - 1], Id(offset + i - 1), (offset + i - 1) % BlockSize, buf[i])
  IN IF Len(buf) > 0 THEN written[Len(buf)]
     ELSE IF Id(offset) \in DOMAIN im.block THEN im
     ELSE Fault(im, IF allocated THEN "device" ELSE "dangling")

\* Inode::write_at
WriteFile(im, ino, offset, buf) ==
  LET grown == IncreaseSize(im, ino, offset + Len(buf))
  IN IF grown.fault = "none" THEN WriteAt(grown, ino, offset, buf) ELSE grown

\* read_all, and what a program reads from the start.
Contents(im, ino) == ReadAt(im, im.inode[ino], 0, im.inode[ino].size)

----------------------------------------------------------------------------
\* The directory: entries <<name, inode number>> in the root's file.
FileCount(im) == im.inode[Root].size \div DirentSize

Entry(im, i) == ReadAt(im, im.inode[Root], i * DirentSize, DirentSize)

Named(im, n) == {i \in 0 .. FileCount(im) - 1 : Entry(im, i)[1] = n}

Exists(im, n) == Named(im, n) # {}

\* find_inode_id
Find(im, n) == Entry(im, Min(Named(im, n)))[2]

\* Mistaken: the entry goes where the last one is.
CreateOver(im, n) ==
  LET new == Min(Inodes \ im.inode_bitmap)
      made == [im EXCEPT !.inode_bitmap = @ \cup {new},
                         !.inode = [i \in DOMAIN @ \cup {new} |->
                                      IF i = new THEN EmptyInode ELSE @[i]]]
  IN IF FileCount(im) = 0 THEN WriteFile(made, Root, 0, <<n, new>>)
     ELSE WriteFile(made, Root, (FileCount(im) - 1) * DirentSize, <<n, new>>)

\* Inode::create
Create(im, n) ==
  LET new == Min(Inodes \ im.inode_bitmap)
      made == [im EXCEPT !.inode_bitmap = @ \cup {new},
                         !.inode = [i \in DOMAIN @ \cup {new} |->
                                      IF i = new THEN EmptyInode ELSE @[i]]]
  IN IF im.inode_bitmap = Inodes THEN Fault(im, "alloc")
     ELSE WriteFile(made, Root, FileCount(im) * DirentSize, <<n, new>>)

----------------------------------------------------------------------------
\* The kernel's operations on files.

\* What finding and reading every name shows.
View(im) ==
  [n \in {m \in Names : Exists(im, m)} |->
     [inode |-> Find(im, n), contents |-> Contents(im, Find(im, n))]]

\* block_cache_sync_all: every dirty block is written.
SyncAll(im) == im

\* An operation leaves the image `im`, or panics before it is written.
Complete(im, hs) ==
  /\ img' = im
  /\ \/ im.fault = "none" /\ disk' = SyncAll(im) /\ handles' = hs /\ UNCHANGED machine
     \/ im.fault # "none" /\ machine' = im.fault /\ UNCHANGED <<disk, handles>>
  /\ view' = View(disk')

FileHandle(ino) == [inode |-> ino, offset |-> 0]

WithHandle(h, f) == [g \in DOMAIN handles \cup {h} |-> IF g = h THEN f ELSE handles[g]]

Running == machine = "running"

\* open with CREATE: an existing file is emptied, whatever TRUNC says.
OpenCreate(h, n) ==
  /\ Running /\ h \notin DOMAIN handles
  /\ IF Exists(img, n)
     THEN Complete(Clear(img, Find(img, n)), WithHandle(h, FileHandle(Find(img, n))))
     ELSE LET made == Create(img, n)
          IN Complete(made, IF made.fault = "none"
                            THEN WithHandle(h, FileHandle(Find(made, n))) ELSE handles)

\* open without CREATE; for a missing file it answers -1.
Open(h, n, trunc) ==
  /\ Running /\ h \notin DOMAIN handles
  /\ Exists(img, n)
  /\ Complete(IF trunc THEN Clear(img, Find(img, n)) ELSE img,
              WithHandle(h, FileHandle(Find(img, n))))

\* A handle opened for writing only answers -1, as one for reading only does
\* below.  A block that the device does not have cannot be read.
Read(h, len) ==
  LET cells == ReadAt(img, img.inode[handles[h].inode], handles[h].offset, len)
  IN /\ Running /\ h \in DOMAIN handles
     /\ IF Bad \in ToSet(cells) THEN machine' = "device" /\ UNCHANGED handles
        ELSE handles' = [handles EXCEPT ![h].offset = @ + Len(cells)] /\ UNCHANGED machine
     /\ UNCHANGED <<img, disk, view>>

Write(h, buf) ==
  /\ Running /\ h \in DOMAIN handles
  /\ handles[h].offset + Len(buf) <= MaxSize
  /\ Complete(WriteFile(img, handles[h].inode, handles[h].offset, buf),
              [handles EXCEPT ![h].offset = @ + Len(buf)])

Close(h) ==
  /\ Running /\ h \in DOMAIN handles
  /\ handles' = [g \in DOMAIN handles \ {h} |-> handles[g]]
  /\ UNCHANGED <<img, disk, machine, view>>

\* fork: the child's copy of a handle has an offset of its own.
Fork(h, copy) ==
  /\ Running /\ h \in DOMAIN handles /\ copy \notin DOMAIN handles
  /\ handles' = WithHandle(copy, handles[h])
  /\ UNCHANGED <<img, disk, machine, view>>

\* The machine goes off between two traps and boots again: EasyFileSystem::open.
Restart ==
  /\ Running
  /\ img' = disk
  /\ handles' = <<>>
  /\ view' = View(disk)
  /\ UNCHANGED <<disk, machine>>

Halted == ~Running /\ UNCHANGED vars

Next ==
  \/ \E h \in Handles :
       \/ \E n \in Names : OpenCreate(h, n) \/ \E trunc \in BOOLEAN : Open(h, n, trunc)
       \/ \E buf \in Buffers : Read(h, Len(buf)) \/ Write(h, buf)
       \/ \E copy \in Handles : Fork(h, copy)
       \/ Close(h)
  \/ Restart \/ Halted

Spec == Init /\ [][Next]_vars

----------------------------------------------------------------------------
\* Properties.

BlockIds == {0} \cup {DataAreaStart + d : d \in DataBits}
MaxInodeSize == Max({MaxSize, DirentSize * Cardinality(Names)})

DiskInodes ==
  [size : 0 .. MaxInodeSize, direct : [0 .. DirectCount - 1 -> BlockIds],
   indirect1 : BlockIds, indirect2 : BlockIds]

TypeOK ==
  /\ img.inode_bitmap \subseteq Inodes /\ img.data_bitmap \subseteq DataBits
  /\ DOMAIN img.inode = img.inode_bitmap
  /\ \A i \in DOMAIN img.inode : img.inode[i] \in DiskInodes
  /\ \A b \in DOMAIN img.block : img.block[b] \in [Cells -> Nat]
  /\ DOMAIN handles \subseteq Handles
  /\ \A h \in DOMAIN handles : handles[h].inode \in DOMAIN img.inode /\ handles[h].offset \in 0 .. MaxSize
  /\ machine \in {"running", "alloc", "device", "dangling", "index", "assert"}

\* The data bitmap marks exactly the blocks that inodes point to, and no block is
\* pointed to twice: increase_size and clear_size agree on the pointers.
BlocksAccounted ==
  LET PlacesIn(ino) == ToSet(Places(0, DataBlocks(img.inode[ino].size)))
      Held(ino, place) == PointerAt(img, img.inode[ino], place)
  IN /\ TypeOK
     /\ Running =>
       /\ UNION {{Held(ino, place) : place \in PlacesIn(ino)} : ino \in DOMAIN img.inode}
            = {DataAreaStart + d : d \in img.data_bitmap}
       /\ \A i, j \in DOMAIN img.inode : \A a \in PlacesIn(i), b \in PlacesIn(j) :
            Held(i, a) = Held(j, b) => i = j /\ a = b

\* Every inode in use but the root has one name, and only those.
InodesNamed ==
  LET entries == [i \in 0 .. FileCount(img) - 1 |-> Entry(img, i)]
  IN Running =>
     /\ {entries[i][2] : i \in DOMAIN entries} = img.inode_bitmap \ {Root}
     /\ \A i, j \in DOMAIN entries :
          i # j => entries[i][1] # entries[j][1] /\ entries[i][2] # entries[j][2]

\* The kernel panics in a file operation only when no block or inode is left, a
\* block beyond the device was handed out, a file outgrows its pointers, or a write
\* of nothing at the end of full blocks looks up a block that is not there; the
\* assertions and unwraps of layout.rs, vfs.rs and bitmap.rs hold.
PanicsExplained ==
  LET sizes == {img.inode[ino].size : ino \in DOMAIN img.inode}
  IN /\ machine # "assert"
     /\ machine = "alloc" => img.data_bitmap = DataBits \/ img.inode_bitmap = Inodes
     /\ machine = "device" => \E d \in img.data_bitmap : DataAreaStart + d \notin DataArea
     /\ machine = "index" =>
          \E size \in sizes : DataBlocks(size) > Indirect1Bound + BlockSize * BlockSize
     /\ machine = "dangling" => \E h \in DOMAIN handles :
          LET size == img.inode[handles[h].inode].size
          IN handles[h].offset = size /\ size % BlockSize = 0 /\ DataBlocks(size) >= DirectCount

\* A cell that the device does not have is in no answer to a program, since reading
\* it panics; the map below has a zero there.
Readable(contents) == [j \in DOMAIN contents |-> IF contents[j] = Bad THEN 0 ELSE contents[j]]

\* Seen from a program, easy-fs is a map from names to contents.
Store == INSTANCE FileStore WITH
  files <- [n \in DOMAIN view |-> Readable(view[n].contents)],
  handles <- [h \in DOMAIN handles |->
                [name |-> CHOOSE n \in DOMAIN view : view[n].inode = handles[h].inode,
                 offset |-> handles[h].offset]]

StoreImplemented == Store!Spec
=============================================================================
