-------------------------------- MODULE Ext2 --------------------------------
(***************************************************************************)
(* The EXT2 driver, src/src/filesystem/ext2.c, at the granularity of its   *)
(* disk writes: write_blocks flushes the disk cache after every block, so  *)
(* block writes become durable one at a time and in program order, and a   *)
(* crash falls between two of them.  Every action below does the work up   *)
(* to and including one block write (or none).                             *)
(*                                                                         *)
(* Only one call is ever in progress: the shell is the only process and a  *)
(* system call runs to its end before the next.  pc is the place the call  *)
(* has reached and fr its local variables.                                 *)
(***************************************************************************)
EXTENDS Ext2Layout

CONSTANTS
  Contents,       \* what a write may carry: sequences of chunks
  Kinds,          \* what a write may create: subset of {"file", "dir"}
  DeleteNames,    \* names a delete may be given
  MaxCrashes,     \* bound on power failures
  FormatByKernel  \* TRUE: the first boot meets a blank disk;
                  \* FALSE: the host inserter has already formatted it

ASSUME Ext2Assumption ==
  /\ Contents \subseteq Seq(Chunks)
  /\ Kinds \subseteq {"file", "dir"}
  /\ DeleteNames \subseteq Names \cup Dots
  /\ MaxCrashes \in Nat
  /\ FormatByKernel \in BOOLEAN

VARIABLES
  signature,      \* the boot sector holds fs_signature
  superblock,     \* block 1
  bgdt,           \* block 2: the descriptor of group 0
  block_bitmap,   \* block 3, as the set of blocks marked used
  inode_bitmap,   \* block 4, as the set of inodes marked used
  inode_table,    \* blocks 5 ..
  blk,            \* the data area, by block number
  initialized,    \* g_filesystem_initialized
  sb,             \* _ext2_superblock_state
  bgd,            \* _ext2_bgdt_state.table[0]
  pc, fr,         \* place and locals of the call in progress
  ret,            \* code the last call returned
  crashes

disk == <<signature, superblock, bgdt, block_bitmap, inode_bitmap,
          inode_table, blk>>
mem  == <<initialized, sb, bgd>>
vars == <<disk, mem, pc, fr, ret, crashes>>

Codes == {-1, 0, 1, 2, 3}
NoCode == 99
Labels == {"off", "mkfs_superblock", "mkfs_bgdt", "mkfs_block_bitmap",
           "mkfs_inode_bitmap", "mkfs_table", "mkfs_root", "mkfs_root_dir",
           "idle", "superblock", "bgdt", "write", "direct", "store_direct",
           "indirect", "table", "pointer", "store_pointer", "write_table",
           "dir", "dots", "inode", "add_entry", "grow", "grow_block",
           "no_entry", "delete", "free", "clear_node", "done"}

(* Superblock and group descriptor; only the counters ever change.          *)
Super == [magic : BOOLEAN, free_blocks : Int, free_inodes : Int]
Group == [free_blocks : Int, free_inodes : Int]
BlankSuper == [magic |-> FALSE, free_blocks |-> 0, free_inodes |-> 0]
BlankGroup == [free_blocks |-> 0, free_inodes |-> 0]
FreshSuper == [magic |-> TRUE,
               free_blocks |-> TOTAL_BLOCKS - INITIAL_USED_BLOCKS,
               free_inodes |-> TOTAL_INODES - INITIAL_USED_INODES]
FreshGroup == [free_blocks |-> BLOCKS_PER_GROUP - INITIAL_USED_BLOCKS,
               free_inodes |-> INODES_PER_GROUP - INITIAL_USED_INODES]
FreshBlockBitmap == 0 .. ROOT_DIR_BLOCK_LBA
FreshInodeBitmap == 1 .. INITIAL_USED_INODES
RootInode == [mode |-> "dir", size |-> 1,
              block |-> [ZeroInode.block EXCEPT ![0] = ROOT_DIR_BLOCK_LBA]]
BlankTable == [i \in Inodes |-> ZeroInode]

(* The locals: the request, the inode being made or removed, the loop index,
   the indirect table, the block just allocated, where to go on after the
   counters are written, and the blocks still to be freed.                  *)
NoFrame == [op |-> "none", parent |-> 0, name |-> ".", dir |-> FALSE,
            content |-> <<>>, inum |-> 0, node |-> ZeroInode, n |-> 0,
            ptr |-> NoPointers, got |-> 0, back |-> "idle", todo |-> <<>>]

Frame == [op : {"none", "write", "delete"}, parent : Inodes \cup {0},
          name : Names \cup Dots, dir : BOOLEAN, content : Seq(Chunks),
          inum : Inodes \cup {0}, node : Inode, n : Nat,
          ptr : [0 .. NIndirect - 1 -> Blocks], got : Blocks,
          back : Labels, todo : Seq(Blocks)]

Init ==
  /\ signature = ~FormatByKernel
  /\ superblock = IF FormatByKernel THEN BlankSuper ELSE FreshSuper
  /\ bgdt = IF FormatByKernel THEN BlankGroup ELSE FreshGroup
  /\ block_bitmap = IF FormatByKernel THEN {} ELSE FreshBlockBitmap
  /\ inode_bitmap = IF FormatByKernel THEN {} ELSE FreshInodeBitmap
  /\ inode_table = IF FormatByKernel THEN BlankTable
                   ELSE [BlankTable EXCEPT ![ROOT_INODE_NO] = RootInode]
  /\ blk = IF FormatByKernel THEN [b \in Blocks |-> Stale]
           ELSE [[b \in Blocks |-> Stale] EXCEPT ![ROOT_DIR_BLOCK_LBA] =
                   DirBlock(DotEntries(ROOT_INODE_NO, ROOT_INODE_NO))]
  /\ initialized = FALSE /\ sb = BlankSuper /\ bgd = BlankGroup
  /\ pc = "off" /\ fr = NoFrame /\ ret = NoCode /\ crashes = 0

-----------------------------------------------------------------------------
(* Reading the disk.                                                        *)

(* The direct blocks a directory scan visits: it stops at the first 0.      *)
DirBlocks(d) == {i \in 0 .. NDirect - 1 :
                   \A j \in 0 .. i : inode_table[d].block[j] # 0}

(* The records of a block read as a directory.  A block that was never
   written as one is taken to be zero-filled, where rec_len = 0 ends the scan;
   MappedBlocksWritten shows when that case cannot arise.                   *)
Ents(b) == IF blk[b].kind = "dir" THEN blk[b].ents ELSE <<>>

DirEnts(d, i) == Ents(inode_table[d].block[i])

(* Positions <<block, record>> of a directory, in the order of a scan.      *)
Slots(d) == UNION {{<<i, k>> : k \in DOMAIN DirEnts(d, i)} : i \in DirBlocks(d)}
At(d, s) == DirEnts(d, s[1])[s[2]]

(* The position of S a scan meets first, as a set of at most one.           *)
First(S) == {s \in S : \A t \in S : s[1] < t[1] \/ (s[1] = t[1] /\ s[2] <= t[2])}

(* find_entry_in_dir, as the positions it compares equal; it returns the inode
   of the first, or 0 when there is none.                                   *)
find_entry_in_dir(d, name) ==
  {s \in Slots(d) : /\ inode_table[d].mode = "dir"
                    /\ At(d, s).inode # 0 /\ At(d, s).name = name}

(* get_dir_first_child_offset skips the first two records of block 0.  When
   the first record spans the block, the second one is read beyond the buffer:
   the scan may start at the beginning or not at all.                       *)
FirstChild(d) == LET ents == DirEnts(d, 0) IN
                 IF Len(ents) = 1 THEN {1, 2}
                 ELSE IF ents = <<>> THEN {1} ELSE {3}

(* Fault: the check looks at the first block of the directory only.         *)
is_first_block_empty(d, from) ==
  \A s \in Slots(d) : s[1] # 0 \/ s[2] < from \/ At(d, s).inode = 0

is_directory_empty(d, from) ==
  \A s \in Slots(d) : (s[1] = 0 /\ s[2] < from) \/ At(d, s).inode = 0

(* The data a read returns: direct blocks up to the first hole, then the
   indirect ones, and never more than i_size blocks.                        *)
read(i) ==
  LET node  == inode_table[i]
      table == IF node.block[NDirect] = 0 \/ blk[node.block[NDirect]].kind # "table"
               THEN NoPointers ELSE blk[node.block[NDirect]].ptr
      direct == {j \in 0 .. NDirect - 1 : \A k \in 0 .. j : node.block[k] # 0}
      indirect == {j \in 0 .. NIndirect - 1 : \A k \in 0 .. j : table[k] # 0}
      nd == Cardinality(direct)
      total == nd + Cardinality(indirect)
      len == IF total < node.size THEN total ELSE node.size
  IN  [j \in 1 .. len |->
         blk[IF j <= nd THEN node.block[j - 1] ELSE table[j - nd - 1]].chunk]

-----------------------------------------------------------------------------
(* Control.                                                                 *)

Return(code) == pc' = "idle" /\ fr' = NoFrame /\ ret' = code

Goto(label) == pc' = label /\ UNCHANGED ret

(* Fault: the group descriptor is not counted along.                        *)
CountBlocksOnce(by) == /\ sb' = [sb EXCEPT !.free_blocks = @ + by]
                       /\ UNCHANGED <<bgd, initialized>>

(* The two counters change together in memory; they reach the disk in the
   two block writes that follow, the superblock first.                      *)
CountBlocks(by) == /\ sb' = [sb EXCEPT !.free_blocks = @ + by]
                   /\ bgd' = [bgd EXCEPT !.free_blocks = @ + by]
                   /\ UNCHANGED initialized
CountInodes(by) == /\ sb' = [sb EXCEPT !.free_inodes = @ + by]
                   /\ bgd' = [bgd EXCEPT !.free_inodes = @ + by]
                   /\ UNCHANGED initialized

WriteSuperblock ==
  /\ pc = "superblock"
  /\ superblock' = sb
  /\ Goto("bgdt")
  /\ UNCHANGED <<signature, bgdt, block_bitmap, inode_bitmap, inode_table, blk,
                 mem, fr, crashes>>

WriteBgdt ==
  /\ pc = "bgdt"
  /\ bgdt' = bgd
  /\ Goto(fr.back)
  /\ UNCHANGED <<signature, superblock, block_bitmap, inode_bitmap, inode_table,
                 blk, mem, fr, crashes>>

(* allocate_block: the first clear bit, if the counter is not 0.            *)
FreeBlocks == Blocks \ block_bitmap
NoBlock == bgd.free_blocks = 0 \/ FreeBlocks = {}

(* Take a block and go on at ok once the counters are written, or at full.
   The callers treat block 0 as failure, like the 0 returned for none.      *)
allocate_block(ok, full) ==
  \/ /\ NoBlock
     /\ Goto(full)
     /\ UNCHANGED <<disk, mem, fr>>
  \/ /\ ~NoBlock
     /\ \E b \in FreeBlocks :
          /\ \A c \in FreeBlocks : b <= c
          /\ block_bitmap' = block_bitmap \cup {b}
          /\ CountBlocks(-1)
          /\ fr' = [fr EXCEPT !.got = b, !.back = IF b = 0 THEN full ELSE ok]
          /\ Goto("superblock")
          /\ UNCHANGED <<signature, superblock, bgdt, inode_bitmap,
                         inode_table, blk>>

-----------------------------------------------------------------------------
(* Boot: initialize_filesystem_ext2 and create_ext2.                        *)

(* Fault: the counters are not read back from the disk.                     *)
BootFresh ==
  /\ pc = "off" /\ signature
  /\ sb' = FreshSuper /\ bgd' = FreshGroup
  /\ initialized' = superblock.magic
  /\ Goto("idle")
  /\ UNCHANGED <<disk, fr, crashes>>

Boot ==
  /\ pc = "off"
  /\ IF signature
     THEN /\ sb' = superblock /\ bgd' = bgdt
          /\ initialized' = superblock.magic
          /\ Goto("idle")
          /\ UNCHANGED signature
     ELSE /\ signature' = TRUE
          /\ Goto("mkfs_superblock")
          /\ UNCHANGED mem
  /\ UNCHANGED <<superblock, bgdt, block_bitmap, inode_bitmap, inode_table, blk,
                 fr, crashes>>

MkfsSuperblock ==
  /\ pc = "mkfs_superblock"
  /\ sb' = FreshSuper /\ superblock' = FreshSuper
  /\ Goto("mkfs_bgdt")
  /\ UNCHANGED <<signature, bgdt, block_bitmap, inode_bitmap, inode_table, blk,
                 initialized, bgd, fr, crashes>>

MkfsBgdt ==
  /\ pc = "mkfs_bgdt"
  /\ bgd' = FreshGroup /\ bgdt' = FreshGroup
  /\ Goto("mkfs_block_bitmap")
  /\ UNCHANGED <<signature, superblock, block_bitmap, inode_bitmap, inode_table,
                 blk, initialized, sb, fr, crashes>>

MkfsBlockBitmap ==
  /\ pc = "mkfs_block_bitmap"
  /\ block_bitmap' = FreshBlockBitmap
  /\ Goto("mkfs_inode_bitmap")
  /\ UNCHANGED <<signature, superblock, bgdt, inode_bitmap, inode_table, blk,
                 mem, fr, crashes>>

MkfsInodeBitmap ==
  /\ pc = "mkfs_inode_bitmap"
  /\ inode_bitmap' = FreshInodeBitmap
  /\ Goto("mkfs_table")
  /\ UNCHANGED <<signature, superblock, bgdt, block_bitmap, inode_table, blk,
                 mem, fr, crashes>>

(* The table is zeroed block by block; on a disk that was never formatted
   nothing can tell those writes apart.                                     *)
MkfsTable ==
  /\ pc = "mkfs_table"
  /\ inode_table' = BlankTable
  /\ Goto("mkfs_root")
  /\ UNCHANGED <<signature, superblock, bgdt, block_bitmap, inode_bitmap, blk,
                 mem, fr, crashes>>

MkfsRoot ==
  /\ pc = "mkfs_root"
  /\ inode_table' = [inode_table EXCEPT ![ROOT_INODE_NO] = RootInode]
  /\ Goto("mkfs_root_dir")
  /\ UNCHANGED <<signature, superblock, bgdt, block_bitmap, inode_bitmap, blk,
                 mem, fr, crashes>>

MkfsRootDir ==
  /\ pc = "mkfs_root_dir"
  /\ blk' = [blk EXCEPT ![ROOT_DIR_BLOCK_LBA] =
               DirBlock(DotEntries(ROOT_INODE_NO, ROOT_INODE_NO))]
  /\ initialized' = TRUE
  /\ Goto("idle")
  /\ UNCHANGED <<signature, superblock, bgdt, block_bitmap, inode_bitmap,
                 inode_table, sb, bgd, fr, crashes>>

Mkfs == \/ MkfsSuperblock \/ MkfsBgdt \/ MkfsBlockBitmap \/ MkfsInodeBitmap
        \/ MkfsTable \/ MkfsRoot \/ MkfsRootDir

-----------------------------------------------------------------------------
(* The callers.  A program names a parent directory it has reached by cd from
   the root, or passes the invalid parent 0.                                *)
NamedIn(d) == {s \in Slots(d) : At(d, s).inode # 0 /\ At(d, s).name \notin Dots}

SubDirs(D) == {i \in UNION {{At(d, s).inode : s \in NamedIn(d)} : d \in D} :
                 inode_table[i].mode = "dir"}

(* What cd reaches from the root, in at most as many rounds as there are inodes.
   The union over one set has TLC compute each round once.                  *)
LinkedDirs ==
  LET within[k \in Nat] ==
        IF k = 0 THEN {ROOT_INODE_NO}
        ELSE UNION {D \cup SubDirs(D) : D \in {within[k - 1]}}
  IN  Inodes \cap within[INODES_PER_GROUP]

Request(op, parent, name, dir, content) ==
  [NoFrame EXCEPT !.op = op, !.parent = parent, !.name = name,
                  !.dir = dir, !.content = content]

Call(frame) ==
  /\ pc = "idle"
  /\ fr' = frame /\ pc' = frame.op /\ ret' = NoCode
  /\ UNCHANGED <<disk, mem, crashes>>

CallWrite ==
  \E parent \in LinkedDirs \cup {0}, name \in Names :
    \/ "file" \in Kinds /\ \E c \in Contents :
         Call(Request("write", parent, name, FALSE, c))
    \/ "dir" \in Kinds /\ Call(Request("write", parent, name, TRUE, <<>>))

CallDelete ==
  \E parent \in LinkedDirs \cup {0}, name \in DeleteNames, dir \in BOOLEAN :
    Call(Request("delete", parent, name, dir, <<>>))

-----------------------------------------------------------------------------
(* write.                                                                   *)
FreeInodes == Inodes \ inode_bitmap
NoInode == bgd.free_inodes = 0 \/ FreeInodes = {}

WriteRefused ==
  /\ pc = "write"
  /\ \/ ~initialized /\ Return(-1)
     \/ initialized /\ fr.parent = 0 /\ Return(2)
     \/ /\ initialized /\ fr.parent # 0
        /\ find_entry_in_dir(fr.parent, fr.name) # {}
        /\ Return(1)
     \/ /\ initialized /\ fr.parent # 0
        /\ find_entry_in_dir(fr.parent, fr.name) = {}
        /\ NoInode
        /\ Return(-1)
  /\ UNCHANGED <<disk, mem, crashes>>

(* allocate_node, and the new inode as write starts to build it.            *)
AllocateNode ==
  /\ pc = "write"
  /\ initialized /\ fr.parent # 0
  /\ find_entry_in_dir(fr.parent, fr.name) = {}
  /\ ~NoInode
  /\ \E i \in FreeInodes :
       /\ \A j \in FreeInodes : i <= j
       /\ inode_bitmap' = inode_bitmap \cup {i}
       /\ fr' = [fr EXCEPT
                   !.inum = i,
                   !.node.mode = IF fr.dir THEN "dir" ELSE "file",
                   !.node.size = IF fr.dir THEN 0 ELSE Len(fr.content),
                   !.back = IF fr.dir THEN "dir" ELSE "direct"]
  /\ CountInodes(-1)
  /\ Goto("superblock")
  /\ UNCHANGED <<signature, superblock, bgdt, block_bitmap, inode_table, blk,
                 crashes>>

(* Fault: the loop forgets that there are only NDirect pointers.            *)
DirectBlockOverrun ==
  /\ pc = "direct"
  /\ UNCHANGED crashes
  /\ IF fr.n < Len(fr.content)
     THEN allocate_block("store_direct", "indirect")
     ELSE Goto("indirect") /\ UNCHANGED <<disk, mem, fr>>

(* The loop over the direct blocks; it ends early when the disk is full.    *)
DirectBlock ==
  /\ pc = "direct"
  /\ UNCHANGED crashes
  /\ IF fr.n < Len(fr.content) /\ fr.n < NDirect
     THEN allocate_block("store_direct", "indirect")
     ELSE Goto("indirect") /\ UNCHANGED <<disk, mem, fr>>

(* Fault: the pointer into the caller's buffer does not advance.            *)
StoreDirectSame ==
  /\ pc = "store_direct"
  /\ blk' = [blk EXCEPT ![fr.got] = DataBlock(fr.content[1])]
  /\ fr' = [fr EXCEPT !.node.block[fr.n] = fr.got, !.n = @ + 1]
  /\ Goto("direct")
  /\ UNCHANGED <<signature, superblock, bgdt, block_bitmap, inode_bitmap,
                 inode_table, mem, crashes>>

StoreDirect ==
  /\ pc = "store_direct"
  /\ blk' = [blk EXCEPT ![fr.got] = DataBlock(fr.content[fr.n + 1])]
  /\ fr' = [fr EXCEPT !.node.block[fr.n] = fr.got, !.n = @ + 1]
  /\ Goto("direct")
  /\ UNCHANGED <<signature, superblock, bgdt, block_bitmap, inode_bitmap,
                 inode_table, mem, crashes>>

IndirectBlock ==
  /\ pc = "indirect"
  /\ UNCHANGED crashes
  /\ IF Len(fr.content) > NDirect
     THEN allocate_block("table", "inode")
     ELSE Goto("inode") /\ UNCHANGED <<disk, mem, fr>>

IndirectTable ==
  /\ pc = "table"
  /\ fr' = [fr EXCEPT !.node.block[NDirect] = fr.got, !.n = NDirect]
  /\ Goto("pointer")
  /\ UNCHANGED <<disk, mem, crashes>>

(* Fault: a full disk does not end the loop.                                *)
PointerBlockRetries ==
  /\ pc = "pointer"
  /\ UNCHANGED crashes
  /\ IF fr.n < Len(fr.content) /\ fr.n - NDirect < NIndirect
     THEN allocate_block("store_pointer", "pointer")
     ELSE Goto("write_table") /\ UNCHANGED <<disk, mem, fr>>

PointerBlock ==
  /\ pc = "pointer"
  /\ UNCHANGED crashes
  /\ IF fr.n < Len(fr.content) /\ fr.n - NDirect < NIndirect
     THEN allocate_block("store_pointer", "write_table")
     ELSE Goto("write_table") /\ UNCHANGED <<disk, mem, fr>>

StorePointer ==
  /\ pc = "store_pointer"
  /\ blk' = [blk EXCEPT ![fr.got] = DataBlock(fr.content[fr.n + 1])]
  /\ fr' = [fr EXCEPT !.ptr[fr.n - NDirect] = fr.got, !.n = @ + 1]
  /\ Goto("pointer")
  /\ UNCHANGED <<signature, superblock, bgdt, block_bitmap, inode_bitmap,
                 inode_table, mem, crashes>>

(* Fault: the indirect block is never written.                              *)
WriteTableSkipped ==
  /\ pc = "write_table"
  /\ Goto("inode")
  /\ UNCHANGED <<disk, mem, fr, crashes>>

WriteTable ==
  /\ pc = "write_table"
  /\ blk' = [blk EXCEPT ![fr.node.block[NDirect]] = TableBlock(fr.ptr)]
  /\ Goto("inode")
  /\ UNCHANGED <<signature, superblock, bgdt, block_bitmap, inode_bitmap,
                 inode_table, mem, fr, crashes>>

(* The one block of a new directory; without it the directory has none.     *)
DirectoryBlock ==
  /\ pc = "dir"
  /\ UNCHANGED crashes
  /\ allocate_block("dots", "inode")

(* Fault: the block of a new directory is allocated but not written.        *)
WriteDotsSkipped ==
  /\ pc = "dots"
  /\ fr' = [fr EXCEPT !.node.block[0] = fr.got, !.node.size = 1]
  /\ Goto("inode")
  /\ UNCHANGED <<disk, mem, crashes>>

WriteDots ==
  /\ pc = "dots"
  /\ blk' = [blk EXCEPT ![fr.got] = DirBlock(DotEntries(fr.inum, fr.parent))]
  /\ fr' = [fr EXCEPT !.node.block[0] = fr.got, !.node.size = 1]
  /\ Goto("inode")
  /\ UNCHANGED <<signature, superblock, bgdt, block_bitmap, inode_bitmap,
                 inode_table, mem, crashes>>

WriteInode ==
  /\ pc = "inode"
  /\ inode_table' = [inode_table EXCEPT ![fr.inum] = fr.node]
  /\ Goto("add_entry")
  /\ UNCHANGED <<signature, superblock, bgdt, block_bitmap, inode_bitmap, blk,
                 mem, fr, crashes>>

(* add_entry_to_dir: the first record with room, else a new block at the first
   free direct pointer, else failure.                                       *)
Rooms(d, name) == {s \in Slots(d) : HasRoom(DirEnts(d, s[1]), s[2], name)}
FrType == IF fr.dir THEN "dir" ELSE "file"

AddEntry ==
  /\ pc = "add_entry"
  /\ \E s \in First(Rooms(fr.parent, fr.name)) :
       LET b == inode_table[fr.parent].block[s[1]] IN
       blk' = [blk EXCEPT ![b] =
                 DirBlock(InsertEntry(Ents(b), s[2], fr.inum, fr.name, FrType))]
  /\ Return(0)
  /\ UNCHANGED <<signature, superblock, bgdt, block_bitmap, inode_bitmap,
                 inode_table, mem, crashes>>

GrowDirectory ==
  /\ pc = "add_entry"
  /\ Rooms(fr.parent, fr.name) = {}
  /\ DirBlocks(fr.parent) # 0 .. NDirect - 1
  /\ allocate_block("grow", "no_entry")
  /\ UNCHANGED crashes

(* The inode of the parent reaches the disk before the block it now names.  *)
GrowInode ==
  /\ pc = "grow"
  /\ inode_table' = [inode_table EXCEPT
       ![fr.parent].block[Cardinality(DirBlocks(fr.parent))] = fr.got,
       ![fr.parent].size = @ + 1]
  /\ Goto("grow_block")
  /\ UNCHANGED <<signature, superblock, bgdt, block_bitmap, inode_bitmap, blk,
                 mem, fr, crashes>>

GrowBlock ==
  /\ pc = "grow_block"
  /\ blk' = [blk EXCEPT ![fr.got] =
               DirBlock(<<NewEntry(fr.inum, fr.name, FrType, BLOCK_SIZE)>>)]
  /\ Return(0)
  /\ UNCHANGED <<signature, superblock, bgdt, block_bitmap, inode_bitmap,
                 inode_table, mem, crashes>>

(* No room for the entry: the inode and its blocks stay allocated.          *)
NoEntry ==
  /\ \/ pc = "no_entry"
     \/ /\ pc = "add_entry"
        /\ Rooms(fr.parent, fr.name) = {}
        /\ DirBlocks(fr.parent) = 0 .. NDirect - 1
  /\ Return(-1)
  /\ UNCHANGED <<disk, mem, crashes>>

Write == \/ WriteRefused \/ AllocateNode \/ DirectBlock \/ StoreDirect
         \/ IndirectBlock \/ IndirectTable \/ PointerBlock \/ StorePointer
         \/ WriteTable \/ DirectoryBlock \/ WriteDots \/ WriteInode
         \/ AddEntry \/ GrowDirectory \/ GrowInode \/ GrowBlock \/ NoEntry

-----------------------------------------------------------------------------
(* delete.                                                                  *)
Target(s) == At(fr.parent, s).inode
IsDir(i) == inode_table[i].mode = "dir"

DeleteRefused ==
  /\ pc = "delete"
  /\ \/ ~initialized /\ Return(-1)
     \/ initialized /\ fr.parent = 0 /\ Return(3)
     \/ /\ initialized /\ fr.parent # 0
        /\ find_entry_in_dir(fr.parent, fr.name) = {}
        /\ Return(1)
     \/ /\ initialized /\ fr.parent # 0
        /\ \E s \in First(find_entry_in_dir(fr.parent, fr.name)) :
             \/ fr.dir # IsDir(Target(s)) /\ Return(1)
             \/ /\ fr.dir /\ IsDir(Target(s))
                /\ \E from \in FirstChild(Target(s)) :
                     ~is_directory_empty(Target(s), from)
                /\ Return(2)
  /\ UNCHANGED <<disk, mem, crashes>>

(* Fault: the loop over the direct pointers starts at 1.                    *)
BlocksOfFromOne(node) == [i \in 1 .. NDirect - 1 |-> node.block[i]]

(* The blocks deallocate_node frees, in its order: the direct ones, the ones
   the indirect block names, the indirect block itself.                     *)
BlocksOf(node) ==
  LET ind == node.block[NDirect]
      ptr == IF blk[ind].kind = "table" THEN blk[ind].ptr ELSE NoPointers
  IN  [i \in 1 .. NDirect |-> node.block[i - 1]]
        \o (IF ind = 0 THEN <<>>
            ELSE [i \in 1 .. NIndirect |-> ptr[i - 1]] \o <<ind>>)

(* Fault: the blocks are freed while the name still leads to them.          *)
UnlinkKeepsName ==
  /\ pc = "delete"
  /\ initialized /\ fr.parent # 0
  /\ \E s \in First(find_entry_in_dir(fr.parent, fr.name)) :
       /\ fr.dir = IsDir(Target(s))
       /\ fr.dir => \E from \in FirstChild(Target(s)) :
                      is_directory_empty(Target(s), from)
       /\ fr' = [fr EXCEPT !.inum = Target(s),
                           !.todo = BlocksOf(inode_table[Target(s)])]
  /\ Goto("free")
  /\ UNCHANGED <<disk, mem, crashes>>

Unlink ==
  /\ pc = "delete"
  /\ initialized /\ fr.parent # 0
  /\ \E s \in First(find_entry_in_dir(fr.parent, fr.name)) :
       /\ fr.dir = IsDir(Target(s))
       /\ fr.dir => \E from \in FirstChild(Target(s)) :
                      is_directory_empty(Target(s), from)
       /\ LET b == inode_table[fr.parent].block[s[1]] IN
          blk' = [blk EXCEPT ![b] = DirBlock(RemoveEntry(Ents(b), s[2]))]
       /\ fr' = [fr EXCEPT !.inum = Target(s),
                           !.todo = BlocksOf(inode_table[Target(s)])]
  /\ Goto("free")
  /\ UNCHANGED <<signature, superblock, bgdt, block_bitmap, inode_bitmap,
                 inode_table, mem, crashes>>

(* deallocate_single_block for the next pointer.  The content of a free block
   is of no account until somebody writes the block again.                  *)
FreeBlock ==
  /\ pc = "free"
  /\ fr.todo # <<>>
  /\ IF Head(fr.todo) # 0 /\ Head(fr.todo) \in block_bitmap
     THEN /\ block_bitmap' = block_bitmap \ {Head(fr.todo)}
          /\ blk' = [blk EXCEPT ![Head(fr.todo)] = Stale]
          /\ CountBlocks(1)
          /\ fr' = [fr EXCEPT !.todo = Tail(@), !.back = "free"]
          /\ Goto("superblock")
     ELSE /\ fr' = [fr EXCEPT !.todo = Tail(@)]
          /\ UNCHANGED <<block_bitmap, blk, mem, pc, ret>>
  /\ UNCHANGED <<signature, superblock, bgdt, inode_bitmap, inode_table, crashes>>

ClearInode ==
  /\ pc = "free"
  /\ fr.todo = <<>>
  /\ inode_table' = [inode_table EXCEPT ![fr.inum] = ZeroInode]
  /\ Goto("clear_node")
  /\ UNCHANGED <<signature, superblock, bgdt, block_bitmap, inode_bitmap, blk,
                 mem, fr, crashes>>

ClearNode ==
  /\ pc = "clear_node"
  /\ inode_bitmap' = inode_bitmap \ {fr.inum}
  /\ CountInodes(1)
  /\ fr' = [fr EXCEPT !.back = "done"]
  /\ Goto("superblock")
  /\ UNCHANGED <<signature, superblock, bgdt, block_bitmap, inode_table, blk,
                 crashes>>

DeleteDone ==
  /\ pc = "done"
  /\ Return(0)
  /\ UNCHANGED <<disk, mem, crashes>>

Delete == DeleteRefused \/ Unlink \/ FreeBlock \/ ClearInode \/ ClearNode
            \/ DeleteDone

-----------------------------------------------------------------------------
(* Power failure: memory is lost, the disk keeps what was written.          *)
Crash ==
  /\ pc # "off"
  /\ crashes < MaxCrashes
  /\ crashes' = crashes + 1
  /\ initialized' = FALSE /\ sb' = BlankSuper /\ bgd' = BlankGroup
  /\ pc' = "off" /\ fr' = NoFrame /\ ret' = NoCode
  /\ UNCHANGED disk

(* The driver's own steps: once called, it runs on.                         *)
Step == Boot \/ Mkfs \/ Write \/ Delete \/ WriteSuperblock \/ WriteBgdt

Next == Step \/ CallWrite \/ CallDelete \/ Crash

Spec == Init /\ [][Next]_vars

(* The kernel executes the system call without being preempted for good: the
   timer handler returns and the disk is assumed to raise its ready bit.    *)
FairSpec == Spec /\ WF_vars(Step)

-----------------------------------------------------------------------------
(* Properties.                                                              *)

(* Every variable keeps the type the program gives it.                      *)
TypeOK ==
  /\ signature \in BOOLEAN
  /\ superblock \in Super /\ bgdt \in Group
  /\ block_bitmap \subseteq Blocks
  /\ inode_bitmap \subseteq Inodes
  /\ inode_table \in [Inodes -> Inode]
  /\ blk \in [Blocks -> Content]
  /\ initialized \in BOOLEAN
  /\ sb \in Super /\ bgd \in Group
  /\ pc \in Labels
  /\ fr \in Frame
  /\ ret \in Codes \cup {NoCode}
  /\ crashes \in 0 .. MaxCrashes

(* The loops of write stay inside i_block, the indirect table and the buffer
   of the request, whatever its size and whenever the disk fills up.        *)
Reaching(label) == pc = label \/ (pc \in {"superblock", "bgdt"} /\ fr.back = label)

IndicesInBounds ==
  /\ Reaching("store_direct") => fr.n < Len(fr.content) /\ fr.n < NDirect
  /\ Reaching("pointer") => fr.n >= NDirect
  /\ Reaching("store_pointer") => /\ fr.n < Len(fr.content)
                                  /\ fr.n - NDirect \in 0 .. NIndirect - 1

(* The entries of the tree that name something, "." and ".." apart.         *)
NamedSlots == UNION {{d} \X NamedIn(d) : d \in LinkedDirs}
EntryAt(x) == At(x[1], x[2])
LiveInodes == {ROOT_INODE_NO} \cup {EntryAt(x).inode : x \in NamedSlots}

(* Position j of an inode's map: a direct pointer, the indirect one, or a
   pointer of the indirect table.                                           *)
PtrAt(i, j) ==
  LET ind == inode_table[i].block[NDirect] IN
  IF j <= NDirect THEN inode_table[i].block[j]
  ELSE IF ind # 0 /\ blk[ind].kind = "table" THEN blk[ind].ptr[j - NDirect - 1] ELSE 0

Owners == {x \in LiveInodes \X (0 .. NDirect + NIndirect) : PtrAt(x[1], x[2]) # 0}

(* allocate_block, deallocate_single_block and the order of write and delete
   keep a block from belonging to two files: the blocks reachable from the
   directory tree are marked used, lie outside the metadata, and each has one
   owner, also after a power failure at any write.                          *)
BlocksOwnedOnce ==
  /\ \A x, y \in Owners : PtrAt(x[1], x[2]) = PtrAt(y[1], y[2]) => x = y
  /\ \A x \in Owners : /\ PtrAt(x[1], x[2]) \in block_bitmap
                       /\ PtrAt(x[1], x[2]) >= ROOT_DIR_BLOCK_LBA

(* Every name resolves: its inode is marked used and is of the type the entry
   says, no inode has two names, no directory two entries of one name.  The last
   is stricter than ext2.h:356 and :363, by which a file may have the name of a
   folder: the code refuses any name in use.                                *)
NamesResolve ==
  /\ \A x \in NamedSlots :
       /\ EntryAt(x).inode \in inode_bitmap
       /\ inode_table[EntryAt(x).inode].mode = EntryAt(x).type
  /\ \A x, y \in NamedSlots :
       \/ EntryAt(x).inode = EntryAt(y).inode
       \/ x[1] = y[1] /\ EntryAt(x).name = EntryAt(y).name
       => x = y

(* add_entry_to_dir and remove_entry_from_dir keep the records of a directory
   block a list that tiles the block, each record at least as long as its own
   name needs; get_next_directory_entry never leaves the block.             *)
RecordsTile ==
  \A b \in {b \in Blocks : blk[b].kind = "dir"} :
    LET ents == blk[b].ents
        offset[k \in 0 .. Len(ents)] ==
          IF k = 0 THEN 0 ELSE offset[k - 1] + ents[k].rec_len
    IN  /\ offset[Len(ents)] = BLOCK_SIZE
        /\ \A k \in DOMAIN ents : ents[k].rec_len >= RecLen(ents[k].name)

(* A block a live inode points at has been written for that use; the only
   exceptions are the root's block while mkfs is about to write it and the
   block a directory grows into, between the write of the inode and the write
   of the block.                                                            *)
MappedBlocksWritten ==
  \A x \in Owners :
    \/ pc = "grow_block" /\ PtrAt(x[1], x[2]) = fr.got
    \/ pc = "mkfs_root_dir" /\ x = <<ROOT_INODE_NO, 0>>
    \/ blk[PtrAt(x[1], x[2])].kind =
         IF x[2] = NDirect THEN "table"
         ELSE IF inode_table[x[1]].mode = "dir" THEN "dir" ELSE "data"

(* The first two records of a directory are itself and the directory that
   holds its name.                                                          *)
DotsLeadHome ==
  \A x \in NamedSlots :
    LET i == EntryAt(x).inode IN
    EntryAt(x).type = "dir" =>
      /\ Len(DirEnts(i, 0)) >= 2
      /\ DirEnts(i, 0)[1].name = "." /\ DirEnts(i, 0)[1].inode = i
      /\ DirEnts(i, 0)[2].name = ".." /\ DirEnts(i, 0)[2].inode = x[1]

Abs(x) == IF x < 0 THEN -x ELSE x

(* Between calls the counters in memory are the ones on disk, and they miss
   the bitmaps by at most one for each power failure (a failure between the
   write of a bitmap and of a counter).  Without one they are exact.        *)
CountersTrackBitmaps ==
  pc = "idle" /\ initialized =>
    /\ sb = superblock /\ bgd = bgdt
    /\ Abs(bgd.free_blocks - Cardinality(FreeBlocks)) <= crashes
    /\ Abs(bgd.free_inodes - Cardinality(FreeInodes)) <= crashes
    /\ Abs(sb.free_blocks - bgd.free_blocks
             - (TOTAL_BLOCKS - BLOCKS_PER_GROUP)) <= crashes
    /\ Abs(sb.free_inodes - bgd.free_inodes
             - (TOTAL_INODES - INODES_PER_GROUP)) <= crashes

(* Between calls every inode and every block marked used is reserved or in
   use by something with a name.                                            *)
NothingLeaks ==
  pc = "idle" /\ initialized =>
    /\ inode_bitmap = FreshInodeBitmap \cup LiveInodes
    /\ block_bitmap = FreshBlockBitmap \cup {PtrAt(x[1], x[2]) : x \in Owners}

(* The tree the disk holds, as FileSystem sees it.                          *)
Tree == {LET e == EntryAt(x) IN
         [dir |-> x[1], name |-> e.name, node |-> e.inode, kind |-> e.type,
          data |-> IF e.type = "dir" THEN <<>> ELSE read(e.inode)] :
         x \in NamedSlots}

CallInProgress ==
  IF fr.op = "none" THEN [op |-> "none"]
  ELSE [op |-> fr.op, parent |-> fr.parent, name |-> fr.name,
        kind |-> FrType, data |-> fr.content]

Effective == fr.op = "delete" /\ pc # "delete"

Exact == INSTANCE FileSystem WITH
  Nodes <- Inodes, Root <- ROOT_INODE_NO, tree <- Tree, req <- CallInProgress,
  done <- Effective, Truncates <- FALSE

Truncating == INSTANCE FileSystem WITH
  Nodes <- Inodes, Root <- ROOT_INODE_NO, tree <- Tree, req <- CallInProgress,
  done <- Effective, Truncates <- TRUE

(* The driver implements FileSystem: calls are atomic, also when the power
   fails between two block writes, and error codes have their reasons.      *)
ImplementsFileSystem == Exact!Spec

(* With a disk that may fill up, the same holds but for the content of a file,
   which may be cut short.                                                  *)
ImplementsTruncatingFileSystem == Truncating!Spec

(* Every call returns: the loops that allocate and free blocks end, wherever the
   disk runs full.                                                          *)
CallsReturn == (pc # "idle") ~> (pc = "idle")

(* A mounted file system has a root directory.                              *)
MountedHasRoot ==
  initialized => /\ ROOT_INODE_NO \in inode_bitmap
                 /\ inode_table[ROOT_INODE_NO].mode = "dir"
                 /\ Ents(ROOT_DIR_BLOCK_LBA) # <<>>
=============================================================================
