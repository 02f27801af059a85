-------------------------------- MODULE Sfs --------------------------------
(***************************************************************************)
(* The simple file system of "file system/filesystem/sfs_api.c": root      *)
(* directory, inode table, free bitmap and file descriptors in memory,     *)
(* their copies on the emulated disk, the data blocks and the indirect     *)
(* blocks.  It is one sequential program; every call of its interface is   *)
(* an action.                                                              *)
(*                                                                         *)
(* A block is an array of BlockSize cells.  A cell is a unit of data and   *)
(* also what one block number takes: an indirect block is an array of      *)
(* block numbers.                                                          *)
(***************************************************************************)
EXTENDS Integers, FiniteSets, FiniteSetsExt, Functions, TLC

CONSTANTS
  BlockSize,     \* BLOCK_SZ, 1024 bytes
  NumBlocks,     \* NUM_BLOCKS, 512
  BitmapBits,    \* the bits of free_bit_map, 1024
  NumInodes,     \* NUM_INODES, 10: inodes, directory entries, descriptors
  Direct,        \* the length of data_ptrs[], 12
  Names,         \* the file names a caller uses
  Residue,       \* the block numbers that an array on the stack may hold
                 \* before it is set, or Left; not those of the saved tables
  Lengths,       \* the lengths of its reads and writes
  Positions,     \* where it seeks to
  MaxCalls       \* bound: how many calls are made

Free      == NumInodes + 1      \* the inode of a descriptor never used
Cut       == NumBlocks + 1      \* indirectptr of a removed file
NoName    == "\\0"
Reserved  == 0 .. 3             \* superblock, inode table, bitmap, root
Inodes    == 0 .. NumInodes - 1
Cells     == 0 .. BlockSize - 1
Pointers  == 0 .. Direct - 1
Slots     == 0 .. Direct + BlockSize - 1  \* the blocks a file may have
Blocks    == 0 .. NumBlocks - 1
MaxSize   == (Direct + BlockSize) * BlockSize
Magic     == 1000000            \* 0xACBD0005, no index of the bitmap
Left      == -1                 \* what the last array there was
Overread  == 1000001            \* what lies behind the caller's buffer

ASSUME SfsAssumption ==
  /\ {BlockSize, NumBlocks, BitmapBits, NumInodes, Direct}
       \subseteq Nat \ {0}
  /\ 3 < NumBlocks /\ NumBlocks <= BitmapBits /\ BitmapBits < Magic
  /\ 1 < BlockSize /\ Direct <= BlockSize
  /\ Residue \subseteq {Left, 0} \union (4 .. BitmapBits - 1)
  /\ Lengths \subseteq Nat \ {0} /\ Positions \subseteq Nat
  /\ MaxCalls \in Nat /\ NoName \notin Names

VARIABLES
  table, root, fdt, nextfile, free_bit_map,  \* globals of sfs_api.c
  disk,                                      \* the superblock and data blocks
  savedtable, savedmap, savedroot,           \* blocks 1, 2 and 3 of the disk
  undefined,   \* undefined behaviour was executed: followed no further
  readbuf,     \* what the last call, if sfs_fread(), has read
  onstack,     \* the last array of block numbers on the stack
  content, wiped,  \* observed: what was written to each inode, and where
                   \* a write that ended before it has zeroed its block
  stray,       \* observed: an array of block numbers that nobody had read
               \* or set was used
  calls

memory   == <<table, root, fdt, free_bit_map>>
ondisk   == <<disk, savedtable, savedmap, savedroot>>
observed == <<content, wiped, stray>>
vars     == <<memory, nextfile, ondisk, undefined, readbuf, onstack, observed,
              calls>>

Empty   == [c \in {} |-> 0]
Overwritten == Empty            \* savedroot, when data was written over it
Zeros   == [c \in Cells |-> 0]
Clean   == [c \in Slots |-> 0]
NoRead  == [inode |-> 0, from |-> 0, cells |-> Empty]
NoInode == [used |-> 0, size |-> 0, data_ptrs |-> [p \in Pointers |-> 0],
            indirectptr |-> 0]
NoFile  == [filename |-> NoName, inoteindex |-> Free]
NoDescriptor == [inode |-> Free, rwptr |-> 0, wptr |-> 0, open |-> 0]

Superblock == [c \in Cells |-> IF c = 0 THEN Magic ELSE 0]
Formatted  == [i \in Inodes |-> IF i = 0 THEN [NoInode EXCEPT !.used = 1,
                                                   !.data_ptrs[0] = 3]
                                         ELSE NoInode]

(* mksfs(1).                                                               *)
Init ==
  /\ table = Formatted /\ savedtable = table
  /\ root = [i \in Inodes |-> NoFile] /\ savedroot = root
  /\ fdt = [k \in Inodes |-> NoDescriptor]
  /\ nextfile = 0
  /\ free_bit_map = (0 .. BitmapBits - 1) \ Reserved
  /\ savedmap = free_bit_map
  /\ disk = [b \in Blocks |-> IF b = 0 THEN Superblock ELSE Zeros]
  /\ undefined = FALSE /\ readbuf = NoRead
  /\ content = [i \in Inodes |-> Empty] /\ wiped = [i \in Inodes |-> {}]
  /\ onstack = Clean /\ stray = FALSE /\ calls = 0

Call == /\ ~undefined /\ calls < MaxCalls
        /\ calls' = calls + 1

(* Nothing that is modelled after this call means anything.                *)
GiveUp == /\ undefined' = TRUE /\ readbuf' = NoRead
          /\ UNCHANGED <<memory, nextfile, ondisk, onstack, observed>>

-----------------------------------------------------------------------------
(* mksfs() once more, in the same process: sizes and nextfile are kept by  *)
(* mksfs(1), the descriptors by mksfs(0).                                  *)

Format ==
  /\ Call
  /\ table' = [i \in Inodes |-> [Formatted[i] EXCEPT !.size = table[i].size]]
  /\ savedtable' = table'
  /\ root' = [i \in Inodes |-> NoFile] /\ savedroot' = root'
  /\ fdt' = [k \in Inodes |-> NoDescriptor]
  /\ free_bit_map' = (0 .. BitmapBits - 1) \ Reserved
  /\ savedmap' = free_bit_map'
  /\ disk' = [b \in Blocks |-> IF b = 0 THEN Superblock ELSE Zeros]
  /\ content' = [i \in Inodes |-> Empty] /\ wiped' = [i \in Inodes |-> {}]
  /\ readbuf' = NoRead
  /\ UNCHANGED <<nextfile, undefined, onstack, stray>>

(* A whole block is read into sb, over the variables behind it: what lies  *)
(* there was written to the superblock by mksfs(1), and is overwritten with *)
(* something else when the superblock was.  What is read from a directory  *)
(* that was written over are no pointers to names.                         *)
Reopen ==
  /\ Call
  /\ IF disk[0] # Superblock \/ savedroot = Overwritten
     THEN GiveUp
     ELSE /\ table' = savedtable /\ free_bit_map' = savedmap
          /\ root' = savedroot
          /\ readbuf' = NoRead
          /\ UNCHANGED <<fdt, nextfile, ondisk, undefined, onstack,
                         observed>>

-----------------------------------------------------------------------------
(* The directory and the descriptors.                                      *)

Entries(name)  == {i \in Inodes : root[i].filename = name}
\* An inode counts as unused as long as nothing is written to it.
UnusedWhenEmpty == {j \in Inodes : j > 0 /\ table[j].size = 0}
Unused         == {j \in Inodes : table[j].used = 0}
Descriptors(j) == {k \in Inodes : fdt[k].inode = j}

(* sfs_fopen() of a name in the directory: the first entry of that name    *)
(* with a descriptor; without one, -1 is returned.                         *)
FopenExisting(name) ==
  /\ Call
  /\ Entries(name) # {}
  /\ LET found == {i \in Entries(name) : Descriptors(root[i].inoteindex) # {}}
     IN IF found = {} THEN UNCHANGED fdt
        ELSE LET j == root[Min(found)].inoteindex
                 k == Min(Descriptors(j))
             IN fdt' = IF fdt[k].open = 1 THEN fdt
                       ELSE [fdt EXCEPT ![k].open = 1, ![k].rwptr = 0,
                                        ![k].wptr = table[j].size]
  /\ readbuf' = NoRead
  /\ UNCHANGED <<table, root, free_bit_map, nextfile, ondisk, undefined,
                 onstack, observed>>

(* sfs_fopen() of a new name.  It takes the first empty entry and the      *)
(* first unused inode, and goes on with the next entry as long as it finds *)
(* no free descriptor.  The inode table is not saved.                      *)
Rank(i, S) == Cardinality({k \in S : k < i})
Created(name) ==
  LET empty == Entries(NoName)
      tries == IF Descriptors(Free) = {} THEN empty ELSE {Min(empty)}
      inode == [i \in tries |->
                  IF Rank(i, empty) < Cardinality(Unused)
                    THEN CHOOSE j \in Unused : Rank(j, Unused) = Rank(i, empty)
                    ELSE NumInodes]
  IN Restrict(inode, {i \in tries : inode[i] < NumInodes})

FopenNew(name) ==
  /\ Call
  /\ Entries(name) = {} /\ Entries(NoName) # {}
  /\ LET created == Created(name)
     IN /\ table' = [j \in Inodes |->
                       IF j \in Range(created)
                         THEN [table[j] EXCEPT !.used = 1, !.size = 0]
                         ELSE table[j]]
        /\ root' = [i \in Inodes |->
                      IF i \in DOMAIN created
                        THEN [filename |-> name, inoteindex |-> created[i]]
                        ELSE root[i]]
        /\ savedroot' = IF created = Empty THEN savedroot ELSE root'
        /\ fdt' = IF Descriptors(Free) = {} THEN fdt
                  ELSE [fdt EXCEPT ![Min(Descriptors(Free))] =
                          [inode |-> IF created = Empty THEN NumInodes
                                     ELSE created[Min(DOMAIN created)],
                           rwptr |-> 0, wptr |-> 0, open |-> 1]]
        /\ content' = [j \in Inodes |->
                         IF j \in Range(created) THEN Empty ELSE content[j]]
        /\ wiped' = [j \in Inodes |->
                       IF j \in Range(created) THEN {} ELSE wiped[j]]
  /\ readbuf' = NoRead
  /\ UNCHANGED <<free_bit_map, nextfile, disk, savedtable, savedmap, undefined,
                 onstack, stray>>

\* The descriptor is given back.
FcloseReleases(k) ==
  /\ Call
  /\ fdt' = [fdt EXCEPT ![k] = [NoDescriptor EXCEPT !.inode = -1]]
  /\ readbuf' = NoRead
  /\ UNCHANGED <<table, root, free_bit_map, nextfile, ondisk, undefined,
                 onstack, observed>>

Fclose(k) ==
  /\ Call
  /\ fdt' = [fdt EXCEPT ![k].open = 0]
  /\ readbuf' = NoRead
  /\ UNCHANGED <<table, root, free_bit_map, nextfile, ondisk, undefined,
                 onstack, observed>>

Getnextfilename ==
  /\ Call
  /\ \E i \in nextfile .. NumInodes - 1 : root[i].filename # NoName
  /\ nextfile' = nextfile + 1
  /\ readbuf' = NoRead
  /\ UNCHANGED <<memory, ondisk, undefined, onstack, observed>>

-----------------------------------------------------------------------------
(* Reading, writing and seeking, by a caller that keeps to descriptors     *)
(* sfs_fopen() has given it, also after it has closed them or removed the  *)
(* file: only sfs_fread() looks whether a descriptor is open.  After the   *)
(* removal it is one of inode 0, that of the directory.  The last          *)
(* descriptor of a full table may have no inode.                           *)

HasInode(k) == fdt[k].inode < NumInodes

UseWithoutInode(k) == /\ Call
                      /\ fdt[k].inode = NumInodes
                      /\ GiveUp

FreadClosed(k) ==
  /\ Call
  /\ fdt[k].open = 0
  /\ readbuf' = NoRead
  /\ UNCHANGED <<memory, nextfile, ondisk, undefined, onstack, observed>>

(* What read_blocks() puts into a temporary block that was set to 0, and    *)
(* into an array that was not: a block outside the disk is refused.        *)
BlockOn(d, b)        == IF b < NumBlocks THEN d[b] ELSE Zeros
ArrayOn(d, b, unset) == IF b < NumBlocks THEN d[b] ELSE unset

(* An array on the stack starts as what is there, in the repository's own  *)
(* build the array of the call before that had one.                        *)
OnStack(used) ==
  IF used THEN {IF r = Left THEN onstack ELSE [c \in Slots |-> r] : r \in Residue}
          ELSE {Clean}

(* The blocks of a file in their order: those of data_ptrs[], then those of *)
(* the array of indirect pointers.                                         *)
Numbers(ptrs, array) ==
  [j \in Slots |-> IF j < Direct THEN ptrs[j] ELSE array[j - Direct]]
ArrayOf(slots) == [c \in Slots |-> IF c \in Cells THEN slots[Direct + c] ELSE 0]

\* The offset of the pointer in its block is left out.
OffsetFromBlock(from, x) == x % BlockSize
Offset(from, x)          == (from + x) % BlockSize

Fread(k, length) ==
  /\ Call
  /\ fdt[k].open = 1 /\ HasInode(k)
  /\ LET inode == fdt[k].inode
         file  == table[inode]
         from  == fdt[k].rwptr
         read  == IF from + length > file.size THEN file.size - from ELSE length
         behind == (from + read) \div BlockSize >= Direct
     IN IF read < 0 \/ (from + read) \div BlockSize \notin Slots
        THEN GiveUp
        ELSE \E unset \in OnStack(behind) :
             LET slots == Numbers(file.data_ptrs,
                                  ArrayOn(disk, file.indirectptr, unset))
             IN /\ fdt' = [fdt EXCEPT ![k].rwptr = from + read]
                /\ readbuf' =
                     [inode |-> inode, from |-> from,
                      cells |-> [x \in 0 .. read - 1 |->
                        BlockOn(disk, slots[(from + x) \div BlockSize])
                          [Offset(from, x)]]]
                /\ onstack' = IF behind THEN ArrayOf(slots) ELSE onstack
                /\ UNCHANGED <<table, root, free_bit_map, nextfile, ondisk,
                               undefined, observed>>

(* get_index().  When no bit is left it runs over the end of the bitmap.   *)
Lowest(free) == IF free = {} THEN BitmapBits ELSE Min(free)

\* No block is allocated for an end on a boundary.
LastOfFirstExact(pointer, length) ==
  ((pointer % BlockSize) + length - 1) \div BlockSize
LastOfFirst(pointer, length) == ((pointer % BlockSize) + length) \div BlockSize

(* A write asks for length cells at the pointer.  The first one of a file  *)
(* goes to its start, and takes a whole block from the buffer for each but *)
(* the last: more than asked for when the pointer is inside a block.       *)
WriteOf(inode, pointer, length) ==
  LET isfirst == table[inode].data_ptrs[0] = 0
      last    == IF isfirst THEN LastOfFirst(pointer, length)
                            ELSE (pointer + length) \div BlockSize
  IN [isfirst |-> isfirst, pointer |-> pointer, length |-> length,
      from  |-> IF isfirst THEN 0 ELSE pointer,
      taken |-> IF isfirst THEN (last * BlockSize) + (length % BlockSize)
                           ELSE length,
      first |-> IF isfirst THEN 0 ELSE pointer \div BlockSize,
      last  |-> last]

Asked(w)        == w.pointer .. w.pointer + w.length - 1
Within(w, j, c) == j * BlockSize + c \in w.from .. w.from + w.taken - 1

(* What a caller writes, by its place in the buffer, and what lies behind. *)
Buffer(q, length) == IF q < length THEN 1000 * (calls + 1) + q ELSE Overread

\* The block of the pointer is not read before it is written.
OldCellUnread(w, s, j, c) == 0
OldCell(w, s, j, c) ==
  IF j = w.first /\ ~w.isfirst THEN BlockOn(s.disk, s.slots[j])[c] ELSE 0

(* One round of the loops of sfs_fwrite(): block j of the file, which may  *)
(* first get the lowest free block.  A first write allocates all of its    *)
(* blocks, the last one also when no cell is left for it; otherwise the    *)
(* block of the pointer is read first and the others are written over, and *)
(* allocated when they are new.  Cells count when write_blocks() accepts   *)
(* the block.                                                              *)
Allocates(w, s, j) == w.isfirst \/ (j # w.first /\ s.slots[j] = 0)
BlockFor(w, s, j)  == IF Allocates(w, s, j) THEN Lowest(s.free) ELSE s.slots[j]
CellsFor(w, s, j)  ==
  [c \in Cells |-> IF Within(w, j, c)
                     THEN Buffer((j * BlockSize + c) - w.from, w.length)
                     ELSE OldCell(w, s, j, c)]
CountFor(w, j)     == Cardinality({c \in Cells : Within(w, j, c)})

PutBlock(w, s, j) ==
  LET b == BlockFor(w, s, j)
  IN [s EXCEPT !.slots[j] = b,
               !.free  = IF Allocates(w, s, j) THEN @ \ {b} ELSE @,
               !.disk  = IF b < NumBlocks
                           THEN [@ EXCEPT ![b] = CellsFor(w, s, j)] ELSE @,
               !.count = IF b < NumBlocks THEN @ + CountFor(w, j) ELSE @]

(* The loops, from block first on: what there is after block j.            *)
Loop(w, s, first) ==
  LET after[j \in -1 .. Direct + BlockSize - 1] ==
        IF j < first THEN s ELSE PutBlock(w, after[j - 1], j)
  IN after

Before(inode) ==
  [slots |-> Numbers(table[inode].data_ptrs, Zeros), free |-> free_bit_map,
   indirect |-> table[inode].indirectptr, disk |-> disk, count |-> 0,
   unread |-> FALSE]

(* The array that the rounds behind the direct blocks use: read from the   *)
(* indirect block, or as the stack has it.                                 *)
ArrayRead(s, unset) ==
  [s EXCEPT !.slots  = Numbers(@, ArrayOn(s.disk, s.indirect, unset)),
            !.unread = s.indirect >= NumBlocks]
ArrayUnread(s, unset) == [s EXCEPT !.slots = Numbers(@, unset),
                                     !.unread = TRUE]
NewIndirect(s) == [s EXCEPT !.indirect = Lowest(s.free),
                            !.free = @ \ {Lowest(s.free)}]

(* A first write allocates an indirect block; of the array only the numbers *)
(* of its blocks are set.  A write that begins behind the direct blocks     *)
(* reads the array.  One that goes there from the direct blocks reads it    *)
(* only from a new indirect block, which a file gets only when two of its   *)
(* numbers are needed.                                                      *)
GetsIndirect(w, s) == s.indirect = 0 /\ Direct < w.last

\* The array is never read.
OpenedUnread(w, s, unset) ==
  ArrayUnread(IF w.isfirst \/ GetsIndirect(w, s) THEN NewIndirect(s) ELSE s, unset)

Opened(w, s, unset) ==
  CASE w.isfirst -> ArrayUnread(NewIndirect(s), unset)
    [] ~w.isfirst /\ w.first >= Direct -> ArrayRead(s, unset)
    [] ~w.isfirst /\ w.first < Direct /\ GetsIndirect(w, s) ->
         ArrayRead(NewIndirect(s), unset)
    [] OTHER -> ArrayUnread(s, unset)

Written(w, s, unset) ==
  LET direct == Loop(w, s, w.first)[Min({w.last, Direct - 1})]
  IN IF w.last < Direct THEN direct
     ELSE Loop(w, Opened(w, direct, unset), Max({w.first, Direct}))[w.last]

(* The array goes to the indirect block, or to block 0 without one.        *)
StoredArray(s) ==
  IF s.indirect < NumBlocks
    THEN [s.disk EXCEPT ![s.indirect] = Restrict(ArrayOf(s.slots), Cells)]
    ELSE s.disk

\* Only when a block was written over does the disk get the inode table.
TableSavedByBlocks(oneblock, longer) == ~oneblock

TableSaved(oneblock, longer) == ~oneblock \/ longer

(* The size is that of the cells written, after the first write, and then  *)
(* of those that should have been.  Only a write into one direct block     *)
(* that does not make the file longer leaves the disk's inode table as it  *)
(* was.  The first block of inode 0 is that of the saved directory.        *)
StoreWrite(k, w, s) ==
  LET inode    == fdt[k].inode
      pointer  == fdt[k].wptr
      size     == table[inode].size
      behind   == w.last >= Direct
      oneblock == ~w.isfirst /\ w.last = w.first
      newsize  == IF w.isfirst THEN size + s.count
                               ELSE Max({size, pointer + w.length})
      accepted == {x \in Asked(w) :
                     /\ x \div BlockSize \in Slots
                     /\ s.slots[x \div BlockSize] < NumBlocks}
  IN /\ table' = [table EXCEPT
                    ![inode].data_ptrs = [p \in Pointers |-> s.slots[p]],
                    ![inode].indirectptr = s.indirect,
                    ![inode].size = newsize]
     /\ fdt' = [fdt EXCEPT ![k].wptr = pointer + s.count]
     /\ free_bit_map' = s.free
     /\ disk' = IF behind THEN StoredArray(s) ELSE s.disk
     /\ onstack' = IF behind THEN ArrayOf(s.slots) ELSE onstack
     /\ savedtable' =
          IF TableSaved(oneblock /\ ~behind, newsize > size) THEN table'
                                                             ELSE savedtable
     /\ savedmap' = IF oneblock /\ ~behind THEN savedmap ELSE free_bit_map'
     /\ content' = [content EXCEPT ![inode] =
          [x \in accepted \union DOMAIN @ |->
             IF x \in accepted THEN Buffer(x - pointer, w.length) ELSE @[x]]]
     /\ wiped' = [wiped EXCEPT ![inode] =
          (@ \ Asked(w)) \union
            (IF oneblock THEN {}
             ELSE (pointer + w.length .. (w.last + 1) * BlockSize - 1)
                    \cap (0 .. size - 1))]
     /\ savedroot' = IF inode = 0 /\ w.first = 0 THEN Overwritten ELSE savedroot
     /\ readbuf' = NoRead
     /\ UNCHANGED <<root, nextfile, undefined>>

(* Nothing stops a file that does not fit the array or a bitmap without a  *)
(* bit: the program goes on behind them.                                   *)
Fwrite(k, length) ==
  /\ Call
  /\ HasInode(k)
  /\ LET inode == fdt[k].inode
         w     == WriteOf(inode, fdt[k].wptr, length)
     IN IF w.last \notin Slots
        THEN GiveUp
        ELSE \E unset \in OnStack(w.last >= Direct) :
             LET s == Written(w, Before(inode), unset)
             IN IF BitmapBits \in Range(s.slots) \union {s.indirect}
                THEN GiveUp
                ELSE /\ StoreWrite(k, w, s)
                     /\ stray' = (\/ stray
                                  \/ s.unread /\ ~(w.isfirst /\ unset = Clean))

Fseek(k, loc) ==
  /\ Call
  /\ HasInode(k)
  /\ LET to == Min({loc, table[fdt[k].inode].size})
     IN fdt' = [fdt EXCEPT ![k].wptr = to, ![k].rwptr = to]
  /\ readbuf' = NoRead
  /\ UNCHANGED <<table, root, free_bit_map, nextfile, ondisk, undefined,
                 onstack, observed>>

-----------------------------------------------------------------------------
(* sfs_remove().  The used flag of the inode stays set, and neither the    *)
(* table nor the directory is saved.  From the array of indirect pointers  *)
(* as many numbers are taken as the whole file has blocks, and from the    *)
(* superblock when indirectptr was never set and is 0: their blocks are    *)
(* given back, block 0 too.                                                *)

RemovedEntry(name) == Max(Entries(name))

\* The descriptors of the file stay open.
DescriptorsKept(inode)    == fdt
DescriptorsWithout(inode) ==
  [k \in Inodes |-> IF fdt[k].inode = inode THEN [NoDescriptor EXCEPT !.inode = 0]
                                            ELSE fdt[k]]

\* Only numbers behind the direct ones are taken.
RemovedBehind(size) == (size + BlockSize - 1) \div BlockSize - Direct
Removed(size)       == (size + BlockSize - 1) \div BlockSize

SfsRemove(name) ==
  /\ Call
  /\ Entries(name) # {}
  /\ \E unset \in OnStack(TRUE) :
     LET inode  == root[RemovedEntry(name)].inoteindex
         file   == table[inode]
         array  == ArrayOn(disk, file.indirectptr, unset) @@ unset
         indirect == IF file.indirectptr = Cut THEN {}
                     ELSE {array[c] : c \in 0 .. Removed(file.size) - 1}
                            \union {file.indirectptr}
         freed  == (Range(file.data_ptrs) \ {0}) \union indirect
     IN IF file.size >= MaxSize \/ \E b \in indirect : b >= BitmapBits
        THEN GiveUp
        ELSE /\ root' = [root EXCEPT ![RemovedEntry(name)].filename = NoName]
             /\ fdt' = DescriptorsWithout(inode)
             /\ disk' = [b \in Blocks |-> IF b \in freed THEN Zeros
                                          ELSE disk[b]]
             /\ free_bit_map' = free_bit_map \union freed
             /\ savedmap' = free_bit_map'
             /\ table' = [table EXCEPT
                            ![inode].data_ptrs = [p \in Pointers |-> 0],
                            ![inode].indirectptr = Cut]
             /\ content' = [content EXCEPT ![inode] = Empty]
             /\ wiped' = [wiped EXCEPT ![inode] = {}]
             /\ readbuf' = NoRead
             /\ UNCHANGED <<nextfile, savedtable, savedroot, undefined, onstack,
                            stray>>

-----------------------------------------------------------------------------
FileCall == \/ \E name \in Names : FopenExisting(name) \/ FopenNew(name)
            \/ \E k \in Inodes :
                 \/ Fclose(k) \/ FreadClosed(k) \/ UseWithoutInode(k)
                 \/ \E length \in Lengths :
                      Fread(k, length) \/ Fwrite(k, length)
                 \/ \E loc \in Positions : Fseek(k, loc)

DataSpec   == Init /\ [][FileCall]_vars
RemoveNext == FileCall \/ Getnextfilename \/ \E name \in Names : SfsRemove(name)
RemoveSpec == Init /\ [][RemoveNext]_vars
ReopenNext == FileCall \/ Reopen \/ Format
ReopenSpec == Init /\ [][ReopenNext]_vars
Next       == RemoveNext \/ ReopenNext
Spec       == Init /\ [][Next]_vars

-----------------------------------------------------------------------------
(* Properties.                                                             *)

Listed == {i \in Inodes : root[i].filename # NoName}
Files  == {root[i].inoteindex : i \in Listed}
(* The blocks of a file by their place: -1 is the indirect block.  Numbers  *)
(* that a full disk has not kept count as outside it.                      *)
Places == {-1} \union Slots
Lost   == [c \in Cells |-> BitmapBits]
BlocksOf(i) ==
  LET file  == table[i]
      slots == Numbers(file.data_ptrs,
                       IF file.indirectptr = 0 THEN Zeros
                       ELSE ArrayOn(disk, file.indirectptr, Lost))
  IN [j \in Places |-> IF j = -1 THEN file.indirectptr ELSE slots[j]]
Owned(i)     == {j \in Places : BlocksOf(i)[j] # 0}
Refused(i)   == \E j \in Places : BlocksOf(i)[j] >= NumBlocks
OnDisk(i, x) == BlocksOf(i)[x \div BlockSize] < NumBlocks
\* Not in a block whose number was to be in an indirect block that is refused.
NumberKept(i, x) == x \div BlockSize < Direct \/ table[i].indirectptr < NumBlocks
CellOf(i, x) == disk[BlocksOf(i)[x \div BlockSize]][x % BlockSize]

(* Every index stays inside its array: descriptors refer to an inode, to   *)
(* none or were never used, the pointers of a descriptor lie within the    *)
(* blocks of a file and block numbers within the bitmap.                   *)
TypeOK ==
  /\ \A i \in Inodes : /\ table[i].used \in {0, 1}
                       /\ table[i].size \in 0 .. MaxSize - 1
                       /\ table[i].indirectptr \in 0 .. BitmapBits - 1
                       /\ Range(table[i].data_ptrs) \subseteq 0 .. BitmapBits - 1
  /\ \A i \in Listed : root[i].inoteindex \in 1 .. NumInodes - 1
  /\ \A k \in Inodes : /\ fdt[k].inode \in 0 .. Free
                       /\ fdt[k].open \in {0, 1}
                       /\ {fdt[k].rwptr, fdt[k].wptr}
                            \subseteq 0 .. MaxSize - 1
  /\ nextfile \in 0 .. NumInodes
  /\ {free_bit_map, savedmap} \subseteq SUBSET (0 .. BitmapBits - 1)

(* Whatever is written, read, sought and opened, in whatever order and on  *)
(* whichever files, direct and indirect blocks hold what was last written  *)
(* at each position, and 0 in the rest of the last block of a longer       *)
(* write: that is all that sfs_fwrite() destroys.  When the disk is full   *)
(* files still grow, by cells that are on no block of it; the others stay  *)
(* right.  This ends with a write that uses an array nobody has read.      *)
DataKept ==
  ~stray => \A i \in Files : \A x \in 0 .. table[i].size - 1 :
    OnDisk(i, x) =>
      /\ x \in DOMAIN content[i]
      /\ CellOf(i, x) = IF x \in wiped[i] THEN 0 ELSE content[i][x]

(* sfs_fread() returns at every position what was last written there, and  *)
(* 0 where a write has zeroed the rest of its block or a full disk has     *)
(* refused the block.  Nothing is said of the blocks behind the direct     *)
(* ones when the indirect block was refused, nor after a write that uses   *)
(* an array nobody has read.                                               *)
FreadReturns ==
  LET i == readbuf.inode
  IN ~stray => \A x \in DOMAIN readbuf.cells :
       LET at == readbuf.from + x
       IN NumberKept(i, at) =>
            readbuf.cells[x] = IF OnDisk(i, at) /\ at \notin wiped[i]
                                 THEN content[i][at] ELSE 0

(* The block of the end of a file is always allocated, and with it those   *)
(* before, the indirect block if one of them needs it, and, as long as the *)
(* disk is not full, none behind; no block belongs to two files or twice   *)
(* to one, is marked free or is one of the first four: sfs_fwrite() relies *)
(* on the block of its pointer without looking.  This too ends with a      *)
(* write that uses an array nobody has read.                               *)
BlocksOwned ==
  ~stray =>
  /\ \A i \in Files :
       LET end    == table[i].size \div BlockSize
           needed == IF table[i].size = 0 THEN {}
                     ELSE 0 .. end \union IF end < Direct THEN {} ELSE {-1}
       IN /\ needed \subseteq Owned(i)
          /\ needed = Owned(i) \/ Refused(i)
  /\ \A i \in Files : \A p \in Owned(i) :
       LET b == BlocksOf(i)[p]
       IN b < NumBlocks =>
            /\ b \notin Reserved /\ b \notin free_bit_map
            /\ \A j \in Files : \A q \in Owned(j) :
                 BlocksOf(j)[q] = b => j = i /\ q = p

(* An array that nobody has read or set is used by two kinds of writes     *)
(* only: one that begins in the direct blocks and ends behind them, and one *)
(* to a file whose indirect block a full disk has refused.  Where DataKept, *)
(* FreadReturns and BlocksOwned end, one of these was made.                *)
Crosses(k, length) ==
  /\ fdt[k].wptr \div BlockSize < Direct
  /\ (fdt[k].wptr + length) \div BlockSize >= Direct
StrayByCrossing ==
  [][~stray /\ stray' =>
       \E k \in Inodes : \E length \in Lengths :
         /\ Fwrite(k, length)
         /\ \/ Crosses(k, length)
            \/ table[fdt[k].inode].indirectptr >= NumBlocks]_vars

(* "write data to middle blocks by indirect pointer": what is written to a *)
(* file is what is read from it, also when a write goes on from the direct *)
(* blocks to indirect ones.                                                *)
ReadsBack ==
  LET i == readbuf.inode
  IN \A x \in DOMAIN readbuf.cells :
       readbuf.from + x \notin wiped[i] =>
         readbuf.cells[x] = content[i][readbuf.from + x]

(* What mksfs(0) finds on the disk of the directory, of the bitmap and of  *)
(* every file that was written to is what the memory says: sfs_fwrite()    *)
(* saves the inodes in each of its branches that changes one.              *)
SavedFiles ==
  /\ savedroot = root /\ savedmap = free_bit_map
  /\ \A i \in 1 .. NumInodes - 1 :
       (table[i].used = 1 /\ table[i].size > 0) => savedtable[i] = table[i]

(* No name is listed twice, no two names share an inode, and a name has    *)
(* one descriptor: opening, creating and removing in any order never makes *)
(* one descriptor that writes to another file.                             *)
DirectoryConsistent ==
  /\ \A i, j \in Listed :
       i # j => /\ root[i].filename # root[j].filename
                /\ root[i].inoteindex # root[j].inoteindex
  /\ \A i \in Files : table[i].used = 1 /\ Cardinality(Descriptors(i)) = 1

(* A descriptor, open or closed, never refers to a file that is removed:   *)
(* sfs_remove() turns it to inode 0 and closes it.  sfs_fwrite() and       *)
(* sfs_fseek() do not look whether it is open, and a later file may get    *)
(* the same inode or its blocks.                                           *)
DescriptorsListed ==
  \A k \in Inodes :
    HasInode(k) => \/ fdt[k].inode \in Files
                   \/ fdt[k].inode = 0 /\ fdt[k].open = 0

(* "delete all stored data in disk": no block of a removed file, direct,   *)
(* indirect or the one with the numbers of these, is lost to the bitmap,   *)
(* whatever was opened, written and removed before, as long as no write    *)
(* uses an array nobody has read.                                          *)
RemoveFrees ==
  [][~stray => \A i \in Files \ Files' : \A p \in Owned(i) :
       BlocksOf(i)[p] < NumBlocks => BlocksOf(i)[p] \in free_bit_map']_vars

(* sfs_remove() says what it does: "delete infor in inode and delete all   *)
(* stored data in disk" -- and does no more.                               *)
RemoveDefined == (\A k \in Inodes : fdt[k].inode # NumInodes) => ~undefined
=============================================================================
