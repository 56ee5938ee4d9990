--------------------------- MODULE Ext2TreeProofs ---------------------------
(***************************************************************************)
(* For every geometry, every set of names and contents and any number of   *)
(* power failures: the directory tree on disk is a tree.  Every block the  *)
(* tree reaches has one owner and is marked used, every name resolves, no  *)
(* inode has two names, and the free counters miss the bitmaps by at most  *)
(* one for each failure.  Until the first failure every block the tree     *)
(* reaches has been written for its use.                                   *)
(***************************************************************************)
EXTENDS Ext2Proofs, FiniteSetTheorems

(* The callers the theorems speak of: nobody writes or deletes "." or "..",
   and if the kernel formats the disk itself the power does not fail.  Without
   either the properties are false: delete("..") frees a directory that still
   has a name, and a failure inside create_ext2 leaves a disk that boots as
   formatted (MountedHasRoot).                                              *)
Orderly == /\ DeleteNames \subseteq Names /\ Names \cap Dots = {}
           /\ FormatByKernel => MaxCrashes = 0

-----------------------------------------------------------------------------
(* The inductive invariant.  What is reachable from the root is no help in a
   proof that goes step by step, so the invariant speaks of every directory
   block on the disk, reachable or not.                                     *)

(* An entry that gives an inode a name.                                     *)
Naming(e) == e.inode # 0 /\ e.name \notin Dots

IsNamed(i) ==
  \/ i = ROOT_INODE_NO
  \/ \E b \in Blocks : \E k \in DOMAIN Ents(b) :
       Naming(Ents(b)[k]) /\ Ents(b)[k].inode = i

Positions == 0 .. NDirect + NIndirect
Direct == 0 .. NDirect - 1

(* An inode with a name points at b.                                        *)
Owned(b) == \E i \in Inodes : IsNamed(i) /\ \E j \in Positions : PtrAt(i, j) = b

(* No inode has two names.                                                  *)
OneName ==
  \A b, c \in Blocks : \A k \in DOMAIN Ents(b), l \in DOMAIN Ents(c) :
    Naming(Ents(b)[k]) /\ Naming(Ents(c)[l]) /\ Ents(b)[k].inode = Ents(c)[l].inode
      => b = c /\ k = l

(* A named inode is marked used and is of the type its entry says.          *)
NamesUsed ==
  /\ ROOT_INODE_NO \in inode_bitmap /\ inode_table[ROOT_INODE_NO].mode = "dir"
  /\ \A b \in Blocks : \A k \in DOMAIN Ents(b) : Naming(Ents(b)[k]) =>
       /\ Ents(b)[k].inode # ROOT_INODE_NO
       /\ Ents(b)[k].inode \in inode_bitmap
       /\ inode_table[Ents(b)[k].inode].mode = Ents(b)[k].type

(* The metadata, every directory block and every block in use are marked used. *)
BlocksUsed ==
  /\ \A b \in Blocks : b < ROOT_DIR_BLOCK_LBA => b \in block_bitmap
  /\ \A b \in Blocks : blk[b].kind = "dir" => b \in block_bitmap
  /\ \A b \in Blocks : b # 0 /\ Owned(b) => b \in block_bitmap /\ b >= ROOT_DIR_BLOCK_LBA

(* No block has two owners, nor one owner twice.                            *)
OneOwner ==
  \A i, j \in Inodes : IsNamed(i) /\ IsNamed(j) => \A p, q \in Positions :
    PtrAt(i, p) # 0 /\ PtrAt(i, p) = PtrAt(j, q) => i = j /\ p = q

(* A directory with a name.                                                 *)
DirOf(d) == IsNamed(d) /\ inode_table[d].mode = "dir"

(* The pointers of a directory have no hole, so that a scan meets them all.  *)
NoHoles ==
  \A d \in Inodes : DirOf(d) => \A p \in Direct :
    inode_table[d].block[p] # 0 => \A q \in 0 .. p : inode_table[d].block[q] # 0

(* No directory has two entries of one name.                                *)
OneEntry ==
  \A d \in Inodes, p, q \in Direct, b, c \in Blocks :
    \A k \in DOMAIN Ents(b), l \in DOMAIN Ents(c) :
      /\ DirOf(d) /\ b = inode_table[d].block[p] /\ c = inode_table[d].block[q]
      /\ b # 0 /\ c # 0 /\ Naming(Ents(b)[k]) /\ Naming(Ents(c)[l])
      /\ Ents(b)[k].name = Ents(c)[l].name
      => p = q /\ k = l

(* The disk holds a tree.                                                   *)
WellFormed == OneName /\ NamesUsed /\ BlocksUsed /\ OneOwner /\ NoHoles /\ OneEntry

(* The call in progress, by the place it has reached.                       *)
EarlyLabels == {"direct", "store_direct", "indirect", "table"}
MappedLabels == {"pointer", "store_pointer", "write_table"}
FileLabels == EarlyLabels \cup MappedLabels
DirLabels == {"dir", "dots"}
NamingLabels == {"add_entry", "grow", "grow_block", "no_entry"}
BuiltLabels == NamingLabels \cup {"inode"}
MakingLabels == FileLabels \cup DirLabels \cup BuiltLabels
CallLabels == MakingLabels \cup {"off", "idle", "write", "delete", "free", "clear_node", "done"}
PendingLabels == {"store_direct", "table", "store_pointer", "dots", "grow"}

(* Position j of the map of the inode write is making.                      *)
Held(j) == IF j <= NDirect THEN fr.node.block[j] ELSE fr.ptr[j - NDirect - 1]

(* Marked used, and nobody with a name points at it.                        *)
Private(b) == b \in block_bitmap /\ b >= ROOT_DIR_BLOCK_LBA /\ ~Owned(b)

(* The directory a call was given still exists.                             *)
ParentGood == fr.parent \in Inodes /\ DirOf(fr.parent)

(* The parent has no entry of the name to be given.                         *)
NameFree ==
  \A p \in Direct : \A b \in Blocks : b = inode_table[fr.parent].block[p] /\ b # 0 =>
    \A k \in DOMAIN Ents(b) : Naming(Ents(b)[k]) => Ents(b)[k].name # fr.name

(* The inode write is making has no name yet.                               *)
MakingNode ==
  /\ fr.inum \in inode_bitmap /\ ~IsNamed(fr.inum)
  /\ fr.node.mode = FrType
  /\ fr.name \in Names /\ ParentGood /\ NameFree

(* The blocks of the new inode belong to nobody yet and are all different.   *)
MakingBlocks ==
  /\ \A j \in Positions : Held(j) # 0 => Private(Held(j))
  /\ \A j, l \in Positions : Held(j) # 0 /\ Held(j) = Held(l) => j = l
  /\ fr.node.block[NDirect] # 0 => blk[fr.node.block[NDirect]].kind # "dir"
  /\ fr.dir => \A j \in 1 .. NDirect : fr.node.block[j] = 0

(* The block just taken is not among them.                                  *)
PendingBlock ==
  /\ Private(fr.got) /\ blk[fr.got].kind # "dir"
  /\ \A j \in Positions : Held(j) # fr.got

(* What the inode points at has been written.                               *)
Built ==
  /\ fr.node.block[NDirect] # 0 => blk[fr.node.block[NDirect]] = TableBlock(fr.ptr)
  /\ fr.dir /\ fr.node.block[0] # 0 =>
       \A k \in DOMAIN Ents(fr.node.block[0]) : ~Naming(Ents(fr.node.block[0])[k])

(* The block a directory has grown into, before its first record is written. *)
GrownBlock ==
  /\ blk[fr.got].kind # "dir"
  /\ fr.got # 0
  /\ \E c \in Direct : inode_table[fr.parent].block[c] = fr.got

(* The inode delete is removing has lost its name, its blocks their owner.   *)
Removing == fr.inum \in inode_bitmap /\ ~IsNamed(fr.inum)

Doomed ==
  \A n \in DOMAIN fr.todo :
    fr.todo[n] # 0 => fr.todo[n] >= ROOT_DIR_BLOCK_LBA /\ ~Owned(fr.todo[n])

(* What holds at each place of a call, and so before the writes of the counters
   that lead to it.                                                         *)
GoodAt(l) ==
  /\ l \in {"write", "delete"} => fr.name \in Names /\ (fr.parent # 0 => ParentGood)
  /\ l = "write" => fr.node = ZeroInode /\ fr.ptr = NoPointers
  /\ l \in MakingLabels => MakingNode /\ MakingBlocks
  /\ l \in PendingLabels => PendingBlock
  /\ l \in FileLabels => ~fr.dir
  /\ l \in DirLabels => fr.dir /\ fr.node.block[0] = 0
  /\ l \in EarlyLabels \cup DirLabels => fr.node.block[NDirect] = 0
  /\ l \in MappedLabels => fr.node.block[NDirect] # 0
  /\ l \in BuiltLabels => Built
  /\ l \in NamingLabels => inode_table[fr.inum] = fr.node
  /\ l = "grow" => \E c \in Direct : inode_table[fr.parent].block[c] = 0
  /\ l = "grow_block" => GrownBlock
  /\ l \in {"free", "clear_node"} => Removing
  /\ l = "free" => Doomed

CallGood ==
  IF pc \in Meta
  THEN GoodAt(fr.back) /\ fr.back \in MakingLabels \cup {"free", "done"}
  ELSE GoodAt(pc) /\ pc \in CallLabels

(* While create_ext2 formats a blank disk there is no tree yet, and what it
   has not reached is as blank as it was.                                   *)
RootDirLabels == {"mkfs_root_dir"}
RootLabels == {"mkfs_root"} \cup RootDirLabels
TableLabels == {"mkfs_table"} \cup RootLabels
BitmapLabels == {"mkfs_inode_bitmap"} \cup TableLabels
MkfsLabels == {"mkfs_superblock", "mkfs_bgdt", "mkfs_block_bitmap"} \cup BitmapLabels

Formatting ==
  /\ MaxCrashes = 0
  /\ IF signature THEN pc \in MkfsLabels ELSE pc = "off"
  /\ blk = [b \in Blocks |-> Stale]
  /\ pc \in BitmapLabels => block_bitmap = FreshBlockBitmap
  /\ pc \in TableLabels => inode_bitmap = FreshInodeBitmap
  /\ inode_table = IF pc \in RootDirLabels
                   THEN [BlankTable EXCEPT ![ROOT_INODE_NO] = RootInode]
                   ELSE BlankTable

TreeInv == Formatting \/ (signature /\ WellFormed /\ CallGood)

-----------------------------------------------------------------------------
(* What a step keeps.                                                       *)

(* A pointer of an inode is a block.                                        *)
LEMMA PtrType ==
  ASSUME TypeOK, NEW i \in Inodes, NEW j \in Positions
  PROVE  PtrAt(i, j) \in Blocks
  <1>1. inode_table[i].block \in [0 .. NDirect -> Blocks]
    BY DiskParts
  <1>2. NDirect \in Nat /\ NIndirect \in Nat /\ 0 \in Blocks
    BY LayoutFacts
  <1>. DEFINE ind == inode_table[i].block[NDirect]
  <1>3. ind \in Blocks
    BY <1>1, <1>2
  <1>. HIDE DEF ind
  <1>4. blk[ind].kind = "table" => blk[ind].ptr \in [0 .. NIndirect - 1 -> Blocks]
    BY <1>3, ContentParts DEF TypeOK
  <1>5. CASE j <= NDirect
    BY <1>1, <1>2, <1>5 DEF PtrAt, Positions
  <1>6. CASE ~(j <= NDirect)
    <2>1. j - NDirect - 1 \in 0 .. NIndirect - 1
      BY <1>2, <1>6 DEF Positions
    <2>. QED  BY <1>2, <1>4, <1>6, <2>1 DEF PtrAt, ind
  <1>. QED  BY <1>5, <1>6

(* The inode an entry names.                                                *)
LEMMA NamingType ==
  ASSUME TypeOK, NEW b \in Blocks, NEW k \in DOMAIN Ents(b)
  PROVE  /\ Ents(b)[k] \in Entry
         /\ Naming(Ents(b)[k]) => Ents(b)[k].inode \in Inodes /\ IsNamed(Ents(b)[k].inode)
  <1>1. Ents(b) \in Seq(Entry)
    BY DiskParts
  <1>2. Ents(b)[k] \in Entry
    BY <1>1
  <1>. QED  BY <1>2 DEF Naming, IsNamed, Entry

(* Every name after the step is one from before, in the same block.         *)
NamesKept ==
  \E h \in [Blocks -> [Nat -> Nat]] : \A b \in Blocks :
    /\ \A k \in DOMAIN Ents(b)' : Naming(Ents(b)'[k]) =>
         h[b][k] \in DOMAIN Ents(b) /\ Alike(Ents(b)'[k], Ents(b)[h[b][k]])
    /\ \A k, l \in DOMAIN Ents(b)' :
         Naming(Ents(b)'[k]) /\ Naming(Ents(b)'[l]) /\ h[b][k] = h[b][l] => k = l

(* The inodes that keep their names keep their maps.                        *)
MapsKept ==
  \A i \in Inodes : IsNamed(i)' => /\ inode_table'[i] = inode_table[i]
                                   /\ \A j \in Positions : PtrAt(i, j)' = PtrAt(i, j)

(* Bits are cleared only of what has no name and no owner.                   *)
BitsKept ==
  /\ \A i \in inode_bitmap : IsNamed(i)' => i \in inode_bitmap'
  /\ \A b \in block_bitmap :
       b \in block_bitmap' \/ (b >= ROOT_DIR_BLOCK_LBA /\ ~Owned(b) /\ blk'[b].kind # "dir")
  /\ \A b \in Blocks : blk'[b].kind = "dir" => blk[b].kind = "dir" \/ b \in block_bitmap

(* No inode gets a name.                                                    *)
LEMMA FewerNamed ==
  ASSUME NamesKept
  PROVE  \A i : IsNamed(i)' => IsNamed(i)
  <1>1. PICK h \in [Blocks -> [Nat -> Nat]] : \A b \in Blocks :
          \A k \in DOMAIN Ents(b)' : Naming(Ents(b)'[k]) =>
            h[b][k] \in DOMAIN Ents(b) /\ Alike(Ents(b)'[k], Ents(b)[h[b][k]])
    BY DEF NamesKept
  <1>2. ASSUME NEW i, IsNamed(i)' PROVE IsNamed(i)
    <2>1. CASE i = ROOT_INODE_NO
      BY <2>1 DEF IsNamed
    <2>2. CASE i # ROOT_INODE_NO
      <3>1. PICK b \in Blocks : \E k \in DOMAIN Ents(b)' :
              Naming(Ents(b)'[k]) /\ Ents(b)'[k].inode = i
        BY <1>2, <2>2 DEF IsNamed
      <3>2. PICK k \in DOMAIN Ents(b)' : Naming(Ents(b)'[k]) /\ Ents(b)'[k].inode = i
        BY <3>1
      <3>3. h[b][k] \in DOMAIN Ents(b) /\ Alike(Ents(b)'[k], Ents(b)[h[b][k]])
        BY <1>1, <3>2
      <3>4. Naming(Ents(b)[h[b][k]]) /\ Ents(b)[h[b][k]].inode = i
        BY <3>2, <3>3 DEF Alike, Naming
      <3>. QED  BY <3>3, <3>4 DEF IsNamed
    <2>. QED  BY <2>1, <2>2
  <1>. QED  BY <1>2

(* No inode and no block gets an owner.                                     *)
LEMMA FewerNames ==
  ASSUME NamesKept, MapsKept
  PROVE  /\ \A i : IsNamed(i)' => IsNamed(i)
         /\ \A b : Owned(b)' => Owned(b)
  <1>2. \A i : IsNamed(i)' => IsNamed(i)
    BY FewerNamed
  <1>3. ASSUME NEW b, Owned(b)' PROVE Owned(b)
    <2>1. PICK i \in Inodes : IsNamed(i)' /\ \E j \in Positions : PtrAt(i, j)' = b
      BY <1>3 DEF Owned
    <2>2. IsNamed(i) /\ \A j \in Positions : PtrAt(i, j)' = PtrAt(i, j)
      BY <1>2, <2>1 DEF MapsKept
    <2>. QED  BY <2>1, <2>2 DEF Owned
  <1>. QED  BY <1>2, <1>3

(* A step that gives no inode a name or a block it did not have keeps the tree. *)
LEMMA TreeKept ==
  ASSUME TypeOK, TypeOK', WellFormed, NamesKept, MapsKept, BitsKept
  PROVE  WellFormed'
  <1>0. /\ \A i : IsNamed(i)' => IsNamed(i)
        /\ \A b : Owned(b)' => Owned(b)
    BY FewerNames
  <1>1. PICK h \in [Blocks -> [Nat -> Nat]] : \A b \in Blocks :
          /\ \A k \in DOMAIN Ents(b)' : Naming(Ents(b)'[k]) =>
               h[b][k] \in DOMAIN Ents(b) /\ Alike(Ents(b)'[k], Ents(b)[h[b][k]])
          /\ \A k, l \in DOMAIN Ents(b)' :
               Naming(Ents(b)'[k]) /\ Naming(Ents(b)'[l]) /\ h[b][k] = h[b][l] => k = l
    BY DEF NamesKept
  <1>2. ASSUME NEW b \in Blocks, NEW k \in DOMAIN Ents(b)', Naming(Ents(b)'[k])
        PROVE  /\ h[b][k] \in DOMAIN Ents(b) /\ Naming(Ents(b)[h[b][k]])
               /\ Ents(b)'[k].inode = Ents(b)[h[b][k]].inode
               /\ Ents(b)'[k].name = Ents(b)[h[b][k]].name
               /\ Ents(b)'[k].type = Ents(b)[h[b][k]].type
               /\ Ents(b)'[k].inode \in Inodes
               /\ \A i : i = Ents(b)'[k].inode => IsNamed(i)'
    <2>1. h[b][k] \in DOMAIN Ents(b) /\ Alike(Ents(b)'[k], Ents(b)[h[b][k]])
      BY <1>1, <1>2
    <2>2. Naming(Ents(b)[h[b][k]])
      BY <1>2, <2>1 DEF Alike, Naming
    <2>3. Ents(b)[h[b][k]].inode \in Inodes
      BY <2>1, <2>2, NamingType
    <2>4. Ents(b)'[k].inode = Ents(b)[h[b][k]].inode
      BY <2>1 DEF Alike
    <2>5. \A i : i = Ents(b)'[k].inode => IsNamed(i)'
      BY <1>2 DEF IsNamed
    <2>. QED  BY <2>1, <2>2, <2>3, <2>4, <2>5 DEF Alike
  <1>3. OneName'
    <2>. SUFFICES ASSUME NEW b \in Blocks, NEW c \in Blocks,
                         NEW k \in DOMAIN Ents(b)', NEW l \in DOMAIN Ents(c)',
                         Naming(Ents(b)'[k]), Naming(Ents(c)'[l]),
                         Ents(b)'[k].inode = Ents(c)'[l].inode
                  PROVE  b = c /\ k = l
      BY DEF OneName
    <2>1. b = c /\ h[b][k] = h[c][l]
      BY <1>2 DEF WellFormed, OneName
    <2>. QED  BY <1>1, <2>1
  <1>4. NamesUsed'
    <2>1. ROOT_INODE_NO \in Inodes /\ IsNamed(ROOT_INODE_NO)'
      BY LayoutFacts DEF IsNamed
    <2>2. ROOT_INODE_NO \in inode_bitmap' /\ inode_table'[ROOT_INODE_NO].mode = "dir"
      BY <2>1 DEF WellFormed, NamesUsed, BitsKept, MapsKept
    <2>3. ASSUME NEW b \in Blocks, NEW k \in DOMAIN Ents(b)', Naming(Ents(b)'[k])
          PROVE  /\ Ents(b)'[k].inode # ROOT_INODE_NO
                 /\ Ents(b)'[k].inode \in inode_bitmap'
                 /\ inode_table'[Ents(b)'[k].inode].mode = Ents(b)'[k].type
      <3>0. PICK i : i = Ents(b)'[k].inode
        OBVIOUS
      <3>1. /\ i # ROOT_INODE_NO /\ i \in inode_bitmap
            /\ inode_table[i].mode = Ents(b)'[k].type
        BY <1>2, <2>3, <3>0 DEF WellFormed, NamesUsed
      <3>2. i \in Inodes /\ IsNamed(i)'
        BY <1>2, <2>3, <3>0
      <3>3. i \in inode_bitmap' /\ inode_table'[i] = inode_table[i]
        BY <3>1, <3>2 DEF BitsKept, MapsKept
      <3>. QED  BY <3>0, <3>1, <3>3
    <2>. QED  BY <2>2, <2>3 DEF NamesUsed
  <1>5. BlocksUsed'
    <2>1. ASSUME NEW b \in Blocks, b < ROOT_DIR_BLOCK_LBA PROVE b \in block_bitmap'
      <3>1. ROOT_DIR_BLOCK_LBA \in Nat /\ b \in Nat
        BY LayoutAssumption DEF ROOT_DIR_BLOCK_LBA, INODE_TABLE_LBA, Blocks
      <3>2. b \in block_bitmap /\ ~(b >= ROOT_DIR_BLOCK_LBA)
        BY <2>1, <3>1 DEF WellFormed, BlocksUsed
      <3>. QED  BY <3>2 DEF BitsKept
    <2>2. ASSUME NEW b \in Blocks, blk'[b].kind = "dir" PROVE b \in block_bitmap'
      <3>1. b \in block_bitmap
        BY <2>2 DEF BitsKept, WellFormed, BlocksUsed
      <3>. QED  BY <2>2, <3>1 DEF BitsKept
    <2>3. ASSUME NEW b \in Blocks, b # 0, Owned(b)'
          PROVE  b \in block_bitmap' /\ b >= ROOT_DIR_BLOCK_LBA
      <3>1. Owned(b)
        BY <1>0, <2>3
      <3>2. b \in block_bitmap /\ b >= ROOT_DIR_BLOCK_LBA
        BY <2>3, <3>1 DEF WellFormed, BlocksUsed
      <3>. QED  BY <3>1, <3>2 DEF BitsKept
    <2>. QED  BY <2>1, <2>2, <2>3 DEF BlocksUsed
  <1>6. OneOwner'
    <2>. SUFFICES ASSUME NEW i \in Inodes, NEW j \in Inodes, IsNamed(i)', IsNamed(j)',
                         NEW p \in Positions, NEW q \in Positions,
                         PtrAt(i, p)' # 0, PtrAt(i, p)' = PtrAt(j, q)'
                  PROVE  i = j /\ p = q
      BY DEF OneOwner
    <2>1. PtrAt(i, p)' = PtrAt(i, p) /\ PtrAt(j, q)' = PtrAt(j, q)
      BY DEF MapsKept
    <2>2. IsNamed(i) /\ IsNamed(j)
      BY <1>0
    <2>. QED  BY <2>1, <2>2 DEF WellFormed, OneOwner
  <1>7. ASSUME NEW d \in Inodes, DirOf(d)'
        PROVE  DirOf(d) /\ inode_table'[d] = inode_table[d]
    BY <1>0, <1>7 DEF DirOf, MapsKept
  <1>8. NoHoles'
    <2>. SUFFICES ASSUME NEW d \in Inodes, DirOf(d)', NEW p \in Direct,
                         inode_table'[d].block[p] # 0, NEW q \in 0 .. p
                  PROVE  inode_table'[d].block[q] # 0
      BY DEF NoHoles
    <2>. QED  BY <1>7 DEF WellFormed, NoHoles
  <1>9. OneEntry'
    <2>. SUFFICES ASSUME NEW d \in Inodes, NEW p \in Direct, NEW q \in Direct,
                         NEW b \in Blocks, NEW c \in Blocks,
                         NEW k \in DOMAIN Ents(b)', NEW l \in DOMAIN Ents(c)',
                         /\ DirOf(d)'
                         /\ b = inode_table'[d].block[p] /\ c = inode_table'[d].block[q]
                         /\ b # 0 /\ c # 0
                         /\ Naming(Ents(b)'[k]) /\ Naming(Ents(c)'[l])
                         /\ Ents(b)'[k].name = Ents(c)'[l].name
                  PROVE  p = q /\ k = l
      BY DEF OneEntry
    <2>1. /\ h[b][k] \in DOMAIN Ents(b) /\ Naming(Ents(b)[h[b][k]])
          /\ h[c][l] \in DOMAIN Ents(c) /\ Naming(Ents(c)[h[c][l]])
          /\ Ents(b)[h[b][k]].name = Ents(c)[h[c][l]].name
      BY <1>2
    <2>2. DirOf(d) /\ b = inode_table[d].block[p] /\ c = inode_table[d].block[q]
      BY <1>7
    <2>3. p = q /\ h[b][k] = h[c][l]
      BY <2>1, <2>2 DEF WellFormed, OneEntry
    <2>4. b = c
      BY <2>2, <2>3
    <2>. QED  BY <1>1, <2>3, <2>4
  <1>. QED  BY <1>3, <1>4, <1>5, <1>6, <1>8, <1>9 DEF WellFormed

(* A step that gives and takes no name and leaves the maps of the named
   inodes alone.                                                            *)
SameNames ==
  \A b \in Blocks :
    \/ Ents(b)' = Ents(b)
    \/ /\ \A k \in DOMAIN Ents(b) : ~Naming(Ents(b)[k])
       /\ \A k \in DOMAIN Ents(b)' : ~Naming(Ents(b)'[k])

(* Inodes with a name stay as they are, and so do their maps.               *)
SameMaps ==
  \A i \in Inodes : IsNamed(i) => /\ inode_table'[i] = inode_table[i]
                                  /\ \A j \in Positions : PtrAt(i, j)' = PtrAt(i, j)

(* Nothing in use is freed, and a new directory block was in use before.    *)
MoreBits ==
  /\ inode_bitmap \subseteq inode_bitmap' /\ block_bitmap \subseteq block_bitmap'
  /\ \A b \in Blocks : blk'[b].kind = "dir" => blk[b].kind = "dir" \/ b \in block_bitmap

SameTree == SameNames /\ SameMaps /\ MoreBits

(* The call in progress is the same.                                        *)
SameRequest ==
  /\ fr'.inum = fr.inum /\ fr'.name = fr.name /\ fr'.parent = fr.parent
  /\ fr'.dir = fr.dir /\ fr'.node.mode = fr.node.mode

(* A step of write before the name is given leaves the tree as it is.       *)
LEMMA SameTreeKept ==
  ASSUME TypeOK, TypeOK', WellFormed, SameTree
  PROVE  /\ WellFormed'
         /\ \A i : IsNamed(i)' <=> IsNamed(i)
         /\ \A b : Owned(b)' <=> Owned(b)
         /\ \A b : Private(b) => Private(b)'
  <1>. USE DEF SameTree
  <1>1. \A b \in Blocks : DOMAIN Ents(b)' \subseteq Nat
    <2>1. \A b \in Blocks : Ents(b)' \in Seq(Entry)
      <3>1. ASSUME NEW b \in Blocks PROVE Ents(b)' \in Seq(Entry)
        <4>1. blk'[b] \in Content
          BY DEF TypeOK
        <4>. QED  BY <4>1, ContentParts DEF Ents
      <3>. QED  BY <3>1
    <2>. QED  BY <2>1
  <1>2. NamesKept
    <2>. DEFINE h == [b \in Blocks |-> [n \in Nat |-> n]]
    <2>1. h \in [Blocks -> [Nat -> Nat]] /\ \A b \in Blocks, k \in Nat : h[b][k] = k
      OBVIOUS
    <2>. HIDE DEF h
    <2>2. ASSUME NEW b \in Blocks
          PROVE  /\ \A k \in DOMAIN Ents(b)' : Naming(Ents(b)'[k]) =>
                      h[b][k] \in DOMAIN Ents(b) /\ Alike(Ents(b)'[k], Ents(b)[h[b][k]])
                 /\ \A k, l \in DOMAIN Ents(b)' :
                      Naming(Ents(b)'[k]) /\ Naming(Ents(b)'[l]) /\ h[b][k] = h[b][l] => k = l
      <3>1. \A k \in DOMAIN Ents(b)' : h[b][k] = k
        BY <1>1, <2>1
      <3>2. ASSUME NEW k \in DOMAIN Ents(b)', Naming(Ents(b)'[k])
            PROVE  h[b][k] \in DOMAIN Ents(b) /\ Alike(Ents(b)'[k], Ents(b)[h[b][k]])
        <4>1. Ents(b)' = Ents(b)
          BY <3>2 DEF SameNames
        <4>. QED  BY <3>1, <4>1 DEF Alike
      <3>. QED  BY <3>1, <3>2
    <2>. QED  BY <2>1, <2>2 DEF NamesKept
  <1>3. ASSUME NEW i, IsNamed(i) PROVE IsNamed(i)'
    <2>1. CASE i = ROOT_INODE_NO
      BY <2>1 DEF IsNamed
    <2>2. CASE i # ROOT_INODE_NO
      <3>1. PICK b \in Blocks : \E k \in DOMAIN Ents(b) :
              Naming(Ents(b)[k]) /\ Ents(b)[k].inode = i
        BY <1>3, <2>2 DEF IsNamed
      <3>2. Ents(b)' = Ents(b)
        BY <3>1 DEF SameNames
      <3>. QED  BY <3>1, <3>2 DEF IsNamed
    <2>. QED  BY <2>1, <2>2
  <1>4. ASSUME NEW i, IsNamed(i)' PROVE IsNamed(i)
    <2>1. CASE i = ROOT_INODE_NO
      BY <2>1 DEF IsNamed
    <2>2. CASE i # ROOT_INODE_NO
      <3>1. PICK b \in Blocks : \E k \in DOMAIN Ents(b)' :
              Naming(Ents(b)'[k]) /\ Ents(b)'[k].inode = i
        BY <1>4, <2>2 DEF IsNamed
      <3>2. Ents(b)' = Ents(b)
        BY <3>1 DEF SameNames
      <3>. QED  BY <3>1, <3>2 DEF IsNamed
    <2>. QED  BY <2>1, <2>2
  <1>5. MapsKept
    BY <1>4 DEF MapsKept, SameMaps
  <1>6. BitsKept
    BY DEF BitsKept, MoreBits
  <1>7. WellFormed'
    BY <1>2, <1>5, <1>6, TreeKept
  <1>8. \A b : Owned(b)' => Owned(b)
    BY <1>2, <1>5, FewerNames
  <1>9. ASSUME NEW b, Owned(b) PROVE Owned(b)'
    <2>1. PICK i \in Inodes : IsNamed(i) /\ \E j \in Positions : PtrAt(i, j) = b
      BY <1>9 DEF Owned
    <2>2. IsNamed(i)' /\ \A j \in Positions : PtrAt(i, j)' = PtrAt(i, j)
      BY <1>3, <2>1 DEF SameMaps
    <2>. QED  BY <2>1, <2>2 DEF Owned
  <1>10. \A b : Private(b) => Private(b)'
    BY <1>8 DEF Private, MoreBits
  <1>. QED  BY <1>3, <1>4, <1>7, <1>8, <1>9, <1>10

(* The parent stays what it was for the call in progress.                   *)
LEMMA ParentKept ==
  ASSUME TypeOK, TypeOK', WellFormed, SameTree, fr'.parent = fr.parent, ParentGood
  PROVE  ParentGood' /\ inode_table'[fr.parent] = inode_table[fr.parent]
  <1>1. fr.parent \in Inodes /\ IsNamed(fr.parent) /\ inode_table[fr.parent].mode = "dir"
    BY DEF ParentGood, DirOf
  <1>2. inode_table'[fr.parent] = inode_table[fr.parent]
    BY <1>1 DEF SameTree, SameMaps
  <1>3. \A d : d = fr.parent => IsNamed(d)'
    BY <1>1, SameTreeKept
  <1>4. \A d : d = fr'.parent => DirOf(d)' /\ d \in Inodes
    BY <1>1, <1>2, <1>3 DEF DirOf
  <1>5. ParentGood'
    BY <1>4 DEF ParentGood
  <1>. QED  BY <1>2, <1>5

(* The inode being made stays without a name meanwhile.                     *)
LEMMA MakingKept ==
  ASSUME TypeOK, TypeOK', WellFormed, SameTree, SameRequest, MakingNode
  PROVE  MakingNode'
  <1>1. ParentGood' /\ inode_table'[fr.parent] = inode_table[fr.parent]
    BY ParentKept DEF MakingNode, SameRequest
  <1>2. \A i : i = fr'.inum => ~IsNamed(i)' /\ i \in inode_bitmap'
    BY SameTreeKept DEF MakingNode, SameRequest, SameTree, MoreBits
  <1>3. NameFree'
    <2>. SUFFICES ASSUME NEW p \in Direct, NEW b \in Blocks,
                         b = inode_table'[fr'.parent].block[p], b # 0,
                         NEW k \in DOMAIN Ents(b)', Naming(Ents(b)'[k])
                  PROVE  Ents(b)'[k].name # fr'.name
      BY DEF NameFree
    <2>1. Ents(b)' = Ents(b)
      BY DEF SameTree, SameNames
    <2>2. b = inode_table[fr.parent].block[p]
      BY <1>1 DEF SameRequest
    <2>. QED  BY <2>1, <2>2 DEF MakingNode, NameFree, SameRequest
  <1>4. fr'.node.mode = FrType' /\ fr'.name \in Names
    BY DEF MakingNode, FrType, SameRequest
  <1>5. fr'.inum \in inode_bitmap' /\ (~IsNamed(fr.inum))'
    BY <1>2 DEF IsNamed
  <1>. QED  BY <1>1, <1>3, <1>4, <1>5 DEF MakingNode

-----------------------------------------------------------------------------
(* The ways a step leaves the tree alone.                                   *)

(* It writes neither the data area nor the inode table.                     *)
LEMMA QuietTree ==
  ASSUME UNCHANGED <<blk, inode_table>>, inode_bitmap \subseteq inode_bitmap',
         block_bitmap \subseteq block_bitmap'
  PROVE  SameTree
  <1>1. \A b \in Blocks : Ents(b)' = Ents(b)
    BY DEF Ents
  <1>2. \A i \in Inodes, j \in Positions : PtrAt(i, j)' = PtrAt(i, j)
    BY DEF PtrAt
  <1>. QED  BY <1>1, <1>2 DEF SameTree, SameNames, SameMaps, MoreBits

(* "." and ".." give nothing a name.                                        *)
LEMMA DotsDoNotName == \A s, p : \A k \in DOMAIN DotEntries(s, p) :
                         ~Naming(DotEntries(s, p)[k])
  <1>. SUFFICES ASSUME NEW s, NEW p, NEW k \in DOMAIN DotEntries(s, p)
                PROVE  ~Naming(DotEntries(s, p)[k])
    OBVIOUS
  <1>1. k = 1 \/ k = 2
    BY DEF DotEntries
  <1>2. DotEntries(s, p)[1].name = "." /\ DotEntries(s, p)[2].name = ".."
    BY DEF DotEntries, NewEntry
  <1>. QED  BY <1>1, <1>2 DEF Naming, Dots

(* It writes a block nobody points at and that was no directory's.          *)
LEMMA PutTree ==
  ASSUME TypeOK, NEW x \in Blocks, Private(x), blk[x].kind # "dir", NEW c,
         c.kind # "dir" \/ \E s, p : c = DirBlock(DotEntries(s, p)),
         blk' = [blk EXCEPT ![x] = c],
         UNCHANGED <<inode_table, inode_bitmap, block_bitmap>>
  PROVE  SameTree
  <1>1. \A b \in Blocks : blk'[b] = IF b = x THEN c ELSE blk[b]
    BY DEF TypeOK
  <1>2. SameNames
    <2>. SUFFICES ASSUME NEW b \in Blocks
                  PROVE  \/ Ents(b)' = Ents(b)
                         \/ /\ \A k \in DOMAIN Ents(b) : ~Naming(Ents(b)[k])
                            /\ \A k \in DOMAIN Ents(b)' : ~Naming(Ents(b)'[k])
      BY DEF SameNames
    <2>1. CASE b # x
      BY <1>1, <2>1 DEF Ents
    <2>2. CASE b = x
      <3>1. Ents(b) = <<>>
        BY <2>2 DEF Ents
      <3>2. \A k \in DOMAIN Ents(b) : ~Naming(Ents(b)[k])
        BY <3>1
      <3>3. CASE c.kind # "dir"
        <4>1. Ents(b)' = <<>>
          BY <1>1, <2>2, <3>3 DEF Ents
        <4>. QED  BY <3>1, <4>1
      <3>4. CASE \E s, p : c = DirBlock(DotEntries(s, p))
        <4>1. PICK s, p : c = DirBlock(DotEntries(s, p))
          BY <3>4
        <4>2. c.kind = "dir" /\ c.ents = DotEntries(s, p)
          BY <4>1 DEF DirBlock
        <4>3. Ents(b)' = DotEntries(s, p)
          BY <1>1, <2>2, <4>2 DEF Ents
        <4>. QED  BY <3>2, <4>3, DotsDoNotName
      <3>. QED  BY <3>3, <3>4
    <2>. QED  BY <2>1, <2>2
  <1>3. SameMaps
    <2>. SUFFICES ASSUME NEW i \in Inodes, IsNamed(i), NEW j \in Positions
                  PROVE  PtrAt(i, j)' = PtrAt(i, j)
      BY DEF SameMaps
    <2>. DEFINE ind == inode_table[i].block[NDirect]
    <2>1. NDirect \in Positions /\ NDirect <= NDirect
      BY LayoutFacts DEF Positions
    <2>2. ind \in Blocks /\ PtrAt(i, NDirect) = ind
      <3>1. PtrAt(i, NDirect) = ind
        BY <2>1 DEF PtrAt
      <3>. QED  BY <2>1, <3>1, PtrType
    <2>3. ind # x
      BY <2>1, <2>2 DEF Private, Owned
    <2>. HIDE DEF ind
    <2>4. blk'[ind] = blk[ind]
      BY <1>1, <2>2, <2>3
    <2>. QED  BY <2>4 DEF PtrAt, ind
  <1>4. MoreBits
    <2>1. x \in block_bitmap
      BY DEF Private
    <2>2. \A b \in Blocks : blk'[b].kind = "dir" => blk[b].kind = "dir" \/ b \in block_bitmap
      BY <1>1, <2>1
    <2>. QED  BY <2>2 DEF MoreBits
  <1>. QED  BY <1>2, <1>3, <1>4 DEF SameTree

(* It writes an inode that has no name.                                     *)
LEMMA NodeTree ==
  ASSUME TypeOK, NEW x, ~IsNamed(x), NEW n,
         inode_table' = [inode_table EXCEPT ![x] = n],
         UNCHANGED <<blk, inode_bitmap, block_bitmap>>
  PROVE  SameTree
  <1>1. \A b \in Blocks : Ents(b)' = Ents(b)
    BY DEF Ents
  <1>2. \A i \in Inodes : IsNamed(i) => inode_table'[i] = inode_table[i]
    BY DEF TypeOK
  <1>3. \A i \in Inodes, j \in Positions : IsNamed(i) => PtrAt(i, j)' = PtrAt(i, j)
    <2>. SUFFICES ASSUME NEW i \in Inodes, NEW j \in Positions, IsNamed(i)
                  PROVE  PtrAt(i, j)' = PtrAt(i, j)
      OBVIOUS
    <2>. QED  BY <1>2 DEF PtrAt
  <1>. QED  BY <1>1, <1>2, <1>3 DEF SameTree, SameNames, SameMaps, MoreBits

-----------------------------------------------------------------------------
(* The call in progress.                                                    *)

(* Where the call is, all is well.                                          *)
LEMMA GoodHere ==
  ASSUME CallGood, pc \notin Meta
  PROVE  GoodAt(pc)
  BY DEF CallGood

(* The call while the counters are written.                                 *)
LEMMA GoodBack ==
  ASSUME CallGood, pc \in Meta
  PROVE  GoodAt(fr.back) /\ fr.back \in MakingLabels \cup {"free", "done"}
  BY DEF CallGood

(* Where it goes on to.                                                     *)
LEMMA GoodNext ==
  ASSUME NEW l \in CallLabels, pc' = l, GoodAt(l)'
  PROVE  CallGood'
  <1>1. l \notin Meta
    BY DEF CallLabels, MakingLabels, FileLabels, MappedLabels, EarlyLabels, DirLabels,
       BuiltLabels, NamingLabels, Meta
  <1>. QED  BY <1>1 DEF CallGood, GoodAt

(* A call that goes on with the writes of the counters.                     *)
LEMMA GoodAfter ==
  ASSUME NEW l \in MakingLabels \cup {"free", "done"}, pc' \in Meta, fr'.back = l, GoodAt(l)'
  PROVE  CallGood'
  BY DEF CallGood, GoodAt

(* Nothing is asked of the state between calls, and at the end of a delete.  *)
LEMMA GoodOutside ==
  \A l \in {"idle", "off", "done"} : GoodAt(l)'
  BY DEF GoodAt, MakingLabels, FileLabels, MappedLabels, EarlyLabels, DirLabels, BuiltLabels,
     NamingLabels, PendingLabels

(* The blocks of the new inode stay its own.                                *)
LEMMA HeldKept ==
  ASSUME TypeOK, TypeOK', WellFormed, SameTree, MakingBlocks,
         fr'.node.block = fr.node.block, fr'.ptr = fr.ptr, fr'.dir = fr.dir,
         fr.node.block[NDirect] # 0 => blk'[fr.node.block[NDirect]].kind # "dir"
  PROVE  MakingBlocks'
  <1>1. \A j \in Positions : Held(j)' = Held(j)
    BY DEF Held
  <1>2. \A j \in Positions : Held(j)' # 0 => \A b : b = Held(j)' => Private(b)'
    BY <1>1, SameTreeKept DEF MakingBlocks
  <1>3. \A j \in Positions : (Held(j) # 0 => Private(Held(j)))'
    <2>. SUFFICES ASSUME NEW j \in Positions, Held(j)' # 0 PROVE Private(Held(j))'
      OBVIOUS
    <2>1. PICK b : b = Held(j)'
      OBVIOUS
    <2>2. Private(b)'
      BY <1>2, <2>1
    <2>. QED  BY <2>1, <2>2 DEF Private, Owned
  <1>4. \A j, l \in Positions : Held(j)' # 0 /\ Held(j)' = Held(l)' => j = l
    BY <1>1 DEF MakingBlocks
  <1>. QED  BY <1>3, <1>4 DEF MakingBlocks

(* allocate_block in the course of a write: the block is nobody's.          *)
LEMMA TakeBlock ==
  ASSUME TypeOK, TypeOK', WellFormed, MakingNode, MakingBlocks,
         NEW ok, NEW full, allocate_block(ok, full)
  PROVE  /\ WellFormed' /\ MakingNode' /\ MakingBlocks'
         /\ UNCHANGED <<blk, inode_table>>
         /\ \/ pc' = full /\ fr' = fr
            \/ /\ pc' \in Meta /\ fr'.back = ok /\ PendingBlock'
               /\ fr'.node = fr.node /\ fr'.ptr = fr.ptr /\ fr'.dir = fr.dir
               /\ fr'.inum = fr.inum /\ fr'.parent = fr.parent
  <1>1. CASE NoBlock /\ Goto(full) /\ UNCHANGED <<disk, mem, fr>>
    <2>1. SameTree
      BY <1>1, QuietTree DEF disk
    <2>2. WellFormed' /\ MakingNode'
      BY <1>1, <2>1, SameTreeKept, MakingKept DEF SameRequest
    <2>3. MakingBlocks'
      BY <1>1, <2>1, HeldKept DEF MakingBlocks, disk
    <2>. QED  BY <1>1, <2>2, <2>3 DEF Goto, disk
  <1>2. CASE ~(NoBlock /\ Goto(full) /\ UNCHANGED <<disk, mem, fr>>)
    <2>1. PICK b \in FreeBlocks :
            /\ block_bitmap' = block_bitmap \cup {b}
            /\ fr' = [fr EXCEPT !.got = b, !.back = IF b = 0 THEN full ELSE ok]
            /\ Goto("superblock")
            /\ UNCHANGED <<inode_bitmap, inode_table, blk>>
      BY <1>2 DEF allocate_block
    <2>2. /\ fr'.got = b /\ fr'.back = IF b = 0 THEN full ELSE ok
          /\ fr'.node = fr.node /\ fr'.ptr = fr.ptr /\ fr'.dir = fr.dir
          /\ fr'.inum = fr.inum /\ fr'.name = fr.name /\ fr'.parent = fr.parent
      BY <2>1 DEF TypeOK, Frame
    <2>3. SameTree
      BY <2>1, QuietTree
    <2>4. WellFormed' /\ MakingNode'
      BY <2>2, <2>3, SameTreeKept, MakingKept DEF SameRequest
    <2>5. MakingBlocks'
      BY <2>1, <2>2, <2>3, HeldKept DEF MakingBlocks
    <2>6. b \in Blocks /\ b \notin block_bitmap
      BY DEF FreeBlocks
    <2>7. b >= ROOT_DIR_BLOCK_LBA /\ b # 0
      <3>1. ~(b < ROOT_DIR_BLOCK_LBA)
        BY <2>6 DEF WellFormed, BlocksUsed
      <3>2. ROOT_DIR_BLOCK_LBA \in Nat /\ ROOT_DIR_BLOCK_LBA > 0 /\ b \in Nat
        BY <2>6, LayoutAssumption DEF ROOT_DIR_BLOCK_LBA, INODE_TABLE_LBA, Blocks
      <3>. QED  BY <3>1, <3>2
    <2>8. ~Owned(b) /\ blk[b].kind # "dir"
      BY <2>6, <2>7 DEF WellFormed, BlocksUsed
    <2>9. \A j \in Positions : Held(j) # b
      BY <2>6, <2>7 DEF MakingBlocks, Private
    <2>10. PendingBlock'
      <3>1. ~Owned(b)' /\ b \in block_bitmap'
        BY <2>1, <2>3, <2>8, SameTreeKept
      <3>2. Private(fr.got)'
        BY <2>2, <2>7, <3>1 DEF Private, Owned
      <3>3. blk'[fr'.got].kind # "dir"
        BY <2>1, <2>2, <2>8
      <3>4. \A j \in Positions : Held(j)' # fr'.got
        BY <2>2, <2>9 DEF Held
      <3>. QED  BY <3>2, <3>3, <3>4 DEF PendingBlock
    <2>. QED  BY <2>1, <2>2, <2>4, <2>5, <2>7, <2>10 DEF Goto, Meta
  <1>. QED  BY <1>1, <1>2

(* The state of the call depends on its locals and on the disk.             *)
LEMMA SameGood ==
  ASSUME UNCHANGED <<fr, blk, inode_table, block_bitmap, inode_bitmap>>, NEW l, GoodAt(l)
  PROVE  GoodAt(l)'
  BY DEF GoodAt, MakingNode, MakingBlocks, PendingBlock, Built, GrownBlock, Removing,
     Doomed, ParentGood, NameFree, Private, Held, FrType, DirOf, IsNamed, Owned,
     Ents, PtrAt

-----------------------------------------------------------------------------
(* Every step keeps the tree.                                               *)

(* Writing the counters.                                                    *)
LEMMA MetaTree ==
  ASSUME TypeOK, TypeOK', WellFormed, CallGood, WriteSuperblock \/ WriteBgdt
  PROVE  WellFormed' /\ CallGood'
  <1>1. UNCHANGED <<fr, blk, inode_table, block_bitmap, inode_bitmap>> /\ pc \in Meta
    BY DEF WriteSuperblock, WriteBgdt, Meta
  <1>2. WellFormed'
    BY <1>1, QuietTree, SameTreeKept
  <1>3. PICK l : l = fr.back
    OBVIOUS
  <1>4. GoodAt(l) /\ l \in MakingLabels \cup {"free", "done"}
    BY <1>1, <1>3, GoodBack
  <1>5. GoodAt(l)'
    BY <1>1, <1>4, SameGood
  <1>6. CASE WriteSuperblock
    <2>1. pc' \in Meta /\ fr'.back = l
      BY <1>1, <1>3, <1>6 DEF WriteSuperblock, Goto, Meta
    <2>. QED  BY <1>2, <1>4, <1>5, <2>1, GoodAfter
  <1>7. CASE WriteBgdt
    <2>1. pc' = l
      BY <1>3, <1>7 DEF WriteBgdt, Goto
    <2>2. l \in CallLabels
      BY <1>4 DEF CallLabels
    <2>. QED  BY <1>2, <1>5, <2>1, <2>2, GoodNext
  <1>. QED  BY <1>6, <1>7

(* Coming back from a call, booting and losing power.                       *)
LEMMA OutsideTree ==
  ASSUME TypeOK, TypeOK', WellFormed, pc' \in {"idle", "off"},
         UNCHANGED <<blk, inode_table, block_bitmap, inode_bitmap>>
  PROVE  WellFormed' /\ CallGood'
  <1>1. WellFormed'
    BY QuietTree, SameTreeKept
  <1>2. GoodAt(pc)'
    BY GoodOutside DEF GoodAt
  <1>3. pc' \in CallLabels /\ pc' \notin Meta
    BY DEF CallLabels, Meta
  <1>. QED  BY <1>1, <1>2, <1>3 DEF CallGood

(* A scan that finds no entry of a name has met them all.                   *)
LEMMA ScanComplete ==
  ASSUME TypeOK, WellFormed, NEW d \in Inodes, DirOf(d), NEW name,
         NEW p \in Direct, NEW b \in Blocks, b = inode_table[d].block[p], b # 0,
         NEW k \in DOMAIN Ents(b), Naming(Ents(b)[k]), Ents(b)[k].name = name
  PROVE  <<p, k>> \in find_entry_in_dir(d, name)
  <1>1. p \in DirBlocks(d)
    BY DEF WellFormed, NoHoles, DirBlocks, Direct
  <1>2. <<p, k>> \in Slots(d)
    BY <1>1 DEF Slots, DirEnts
  <1>3. At(d, <<p, k>>) = Ents(b)[k]
    BY DEF At, DirEnts
  <1>. QED  BY <1>2, <1>3 DEF find_entry_in_dir, Naming, DirOf

(* A free inode has no name.                                                *)
LEMMA FreeUnnamed ==
  ASSUME WellFormed, NEW i, i \notin inode_bitmap
  PROVE  ~IsNamed(i)
  BY DEF WellFormed, NamesUsed, IsNamed

(* allocate_node: the new inode has no name yet.                            *)
LEMMA AllocateNodeTree ==
  ASSUME TypeOK, TypeOK', WellFormed, CallGood, AllocateNode
  PROVE  WellFormed' /\ CallGood' /\ \A j \in Positions : Held(j)' = 0
  <1>1. PICK i \in FreeInodes :
          /\ inode_bitmap' = inode_bitmap \cup {i}
          /\ fr' = [fr EXCEPT
                   !.inum = i,
                   !.node.mode = IF fr.dir THEN "dir" ELSE "file",
                   !.node.size = IF fr.dir THEN 0 ELSE Len(fr.content),
                   !.back = IF fr.dir THEN "dir" ELSE "direct"]
    BY DEF AllocateNode
  <1>2. /\ fr'.inum = i /\ fr'.parent = fr.parent /\ fr'.name = fr.name
        /\ fr'.dir = fr.dir /\ fr'.ptr = fr.ptr
        /\ fr'.back = IF fr.dir THEN "dir" ELSE "direct"
        /\ fr'.node.block = fr.node.block
        /\ fr'.node.mode = IF fr.dir THEN "dir" ELSE "file"
    <2>1. fr \in Frame /\ fr.node \in Inode
      BY FrameParts DEF TypeOK
    <2>. QED  BY <1>1, <2>1 DEF Frame, Inode
  <1>3. /\ UNCHANGED <<blk, inode_table, block_bitmap>> /\ pc' \in Meta /\ pc = "write"
        /\ find_entry_in_dir(fr.parent, fr.name) = {} /\ fr.parent # 0
    BY DEF AllocateNode, Goto, Meta
  <1>4. SameTree
    BY <1>1, <1>3, QuietTree
  <1>5. WellFormed'
    BY <1>4, SameTreeKept
  <1>6. /\ fr.name \in Names /\ ParentGood
        /\ fr.node = ZeroInode /\ fr.ptr = NoPointers
    BY <1>3, GoodHere DEF GoodAt, Meta
  <1>7. /\ fr'.node.block = [j \in 0 .. NDirect |-> 0]
        /\ fr'.ptr = [j \in 0 .. NIndirect - 1 |-> 0]
    BY <1>2, <1>6 DEF ZeroInode, NoPointers
  <1>8. \A j \in Positions : Held(j)' = 0
    <2>. SUFFICES ASSUME NEW j \in Positions PROVE Held(j)' = 0
      OBVIOUS
    <2>1. NDirect \in Nat /\ NIndirect \in Nat
      BY LayoutFacts
    <2>2. CASE j <= NDirect
      BY <1>7, <2>1, <2>2 DEF Held, Positions
    <2>3. CASE ~(j <= NDirect)
      <3>1. j - NDirect - 1 \in 0 .. NIndirect - 1
        BY <2>1, <2>3 DEF Positions
      <3>. QED  BY <1>7, <2>3, <3>1 DEF Held
    <2>. QED  BY <2>2, <2>3
  <1>9. MakingBlocks'
    <2>1. \A j \in 0 .. NDirect : fr'.node.block[j] = 0
      BY <1>7
    <2>2. NDirect \in 0 .. NDirect /\ 1 .. NDirect \subseteq 0 .. NDirect
      BY LayoutFacts
    <2>. QED  BY <1>8, <2>1, <2>2 DEF MakingBlocks
  <1>10. NameFree'
    <2>. SUFFICES ASSUME NEW p \in Direct, NEW b \in Blocks,
                         b = inode_table[fr.parent].block[p], b # 0,
                         NEW k \in DOMAIN Ents(b), Naming(Ents(b)[k])
                  PROVE  Ents(b)[k].name # fr.name
      BY <1>2, <1>3 DEF NameFree, Ents
    <2>. QED  BY <1>3, <1>6, ScanComplete DEF ParentGood
  <1>11. MakingNode'
    <2>1. ~IsNamed(i)
      BY <1>1, FreeUnnamed DEF FreeInodes
    <2>2. ~IsNamed(i)'
      BY <1>4, <2>1, SameTreeKept
    <2>3. ~IsNamed(fr.inum)'
      BY <1>2, <2>2 DEF IsNamed
    <2>4. ParentGood'
      BY <1>2, <1>4, <1>6, ParentKept
    <2>. QED  BY <1>1, <1>2, <1>6, <1>10, <2>3, <2>4 DEF MakingNode, FrType
  <1>12. fr'.node.block[0] = 0 /\ fr'.node.block[NDirect] = 0
    BY <1>7, LayoutFacts
  <1>13. PICK l : l = IF fr.dir THEN "dir" ELSE "direct"
    OBVIOUS
  <1>14. GoodAt(l)' /\ l \in MakingLabels
    BY <1>2, <1>9, <1>11, <1>12, <1>13
    DEF GoodAt, MakingLabels, FileLabels, MappedLabels, EarlyLabels, DirLabels, BuiltLabels,
        NamingLabels, PendingLabels
  <1>15. CallGood'
    BY <1>2, <1>3, <1>13, <1>14, GoodAfter
  <1>. QED  BY <1>5, <1>8, <1>15

(* What the inode points at stays written.                                  *)
LEMMA BuiltKept ==
  ASSUME Built, UNCHANGED blk,
         fr'.node = fr.node, fr'.ptr = fr.ptr, fr'.dir = fr.dir
  PROVE  Built'
  BY DEF Built, Ents, TableBlock

(* allocate_block on behalf of write, whether there is a block or not.      *)
LEMMA TakeTree ==
  ASSUME TypeOK, TypeOK', WellFormed, CallGood,
         \/ DirectBlock \/ IndirectBlock \/ PointerBlock \/ DirectoryBlock
         \/ GrowDirectory
  PROVE  WellFormed' /\ CallGood'
  <1>. DEFINE Take(ok, full) == \/ allocate_block(ok, full)
                                \/ Goto(full) /\ UNCHANGED <<disk, mem, fr>>
  <1>1. ASSUME NEW ok, NEW full, MakingNode, MakingBlocks, Take(ok, full)
        PROVE  /\ WellFormed' /\ MakingNode' /\ MakingBlocks'
               /\ UNCHANGED <<blk, inode_table>>
               /\ fr'.node = fr.node /\ fr'.ptr = fr.ptr /\ fr'.dir = fr.dir
               /\ fr'.inum = fr.inum /\ fr'.parent = fr.parent
               /\ \/ pc' = full
                  \/ pc' \in Meta /\ fr'.back = ok /\ PendingBlock'
    <2>1. CASE allocate_block(ok, full)
      BY <1>1, <2>1, TakeBlock
    <2>2. CASE Goto(full) /\ UNCHANGED <<disk, mem, fr>>
      <3>1. SameTree
        BY <2>2, QuietTree DEF disk
      <3>2. WellFormed' /\ MakingNode'
        BY <1>1, <2>2, <3>1, SameTreeKept, MakingKept DEF SameRequest
      <3>3. MakingBlocks'
        BY <1>1, <2>2, <3>1, HeldKept DEF MakingBlocks, disk
      <3>. QED  BY <2>2, <3>2, <3>3 DEF Goto, disk
    <2>. QED  BY <1>1, <2>1, <2>2
  <1>. HIDE DEF Take
  <1>. USE DEF MakingLabels, FileLabels, MappedLabels, EarlyLabels, DirLabels, BuiltLabels,
               NamingLabels, PendingLabels
  <1>2. ASSUME NEW ok \in PendingLabels, NEW full \in MakingLabels,
               MakingNode, MakingBlocks, Take(ok, full),
               /\ WellFormed' /\ MakingNode' /\ MakingBlocks'
               /\ UNCHANGED <<blk, inode_table>>
               /\ fr'.node = fr.node /\ fr'.ptr = fr.ptr /\ fr'.dir = fr.dir
               /\ fr'.inum = fr.inum /\ fr'.parent = fr.parent
               => GoodAt(full)' /\ (PendingBlock' => GoodAt(ok)')
        PROVE  WellFormed' /\ CallGood'
    <2>1. /\ WellFormed' /\ GoodAt(full)'
          /\ \/ pc' = full
             \/ pc' \in Meta /\ fr'.back = ok /\ GoodAt(ok)'
      BY <1>1, <1>2
    <2>2. full \in CallLabels /\ ok \in MakingLabels
      BY <1>2 DEF CallLabels
    <2>. QED  BY <2>1, <2>2, GoodNext, GoodAfter
  <1>3. CASE DirectBlock
    <2>0. pc = "direct" /\ Take("store_direct", "indirect")
      BY <1>3 DEF DirectBlock, Take
    <2>1. GoodAt("direct") /\ Take("store_direct", "indirect")
      BY <2>0, GoodHere DEF Meta
    <2>2. MakingNode /\ MakingBlocks /\ ~fr.dir /\ fr.node.block[NDirect] = 0
      BY <2>1 DEF GoodAt
    <2>. QED  BY <1>2, <2>1, <2>2 DEF GoodAt
  <1>4. CASE IndirectBlock
    <2>0. pc = "indirect" /\ Take("table", "inode")
      BY <1>4 DEF IndirectBlock, Take
    <2>1. GoodAt("indirect") /\ Take("table", "inode")
      BY <2>0, GoodHere DEF Meta
    <2>2. MakingNode /\ MakingBlocks /\ ~fr.dir /\ fr.node.block[NDirect] = 0
      BY <2>1 DEF GoodAt
    <2>. QED  BY <1>2, <2>1, <2>2 DEF GoodAt, Built
  <1>5. CASE PointerBlock
    <2>0. pc = "pointer" /\ Take("store_pointer", "write_table")
      BY <1>5 DEF PointerBlock, Take
    <2>1. GoodAt("pointer") /\ Take("store_pointer", "write_table")
      BY <2>0, GoodHere DEF Meta
    <2>2. MakingNode /\ MakingBlocks /\ ~fr.dir /\ fr.node.block[NDirect] # 0
      BY <2>1 DEF GoodAt
    <2>. QED  BY <1>2, <2>1, <2>2 DEF GoodAt
  <1>6. CASE DirectoryBlock
    <2>0. pc = "dir" /\ Take("dots", "inode")
      BY <1>6 DEF DirectoryBlock, Take
    <2>1. GoodAt("dir") /\ Take("dots", "inode")
      BY <2>0, GoodHere DEF Meta
    <2>2. /\ MakingNode /\ MakingBlocks /\ fr.dir
          /\ fr.node.block[0] = 0 /\ fr.node.block[NDirect] = 0
      BY <2>1 DEF GoodAt
    <2>. QED  BY <1>2, <2>1, <2>2 DEF GoodAt, Built
  <1>7. CASE GrowDirectory
    <2>0. pc = "add_entry" /\ Take("grow", "no_entry")
      BY <1>7 DEF GrowDirectory, Take
    <2>1. GoodAt("add_entry") /\ Take("grow", "no_entry")
      BY <2>0, GoodHere DEF Meta
    <2>2. MakingNode /\ MakingBlocks /\ Built /\ inode_table[fr.inum] = fr.node
      BY <2>1 DEF GoodAt
    <2>3. \E c \in Direct : inode_table[fr.parent].block[c] = 0
      BY <1>7, LayoutFacts DEF GrowDirectory, DirBlocks, Direct
    <2>. QED  BY <1>2, <2>1, <2>2, <2>3, BuiltKept DEF GoodAt
  <1>. QED  BY <1>3, <1>4, <1>5, <1>6, <1>7

-----------------------------------------------------------------------------
(* The new inode takes the block it was given.                              *)
LEMMA HoldMore ==
  ASSUME TypeOK, TypeOK', WellFormed, SameTree, MakingBlocks, PendingBlock,
         NEW p \in Positions,
         \A j \in Positions : Held(j)' = IF j = p THEN fr.got ELSE Held(j),
         fr'.node.block[NDirect] # 0 => blk'[fr'.node.block[NDirect]].kind # "dir",
         fr'.dir => \A j \in 1 .. NDirect : fr'.node.block[j] = 0
  PROVE  MakingBlocks'
  <1>1. \A j \in Positions : Held(j)' # 0 => Private(Held(j)')
    BY DEF MakingBlocks, PendingBlock
  <1>2. \A j \in Positions : (Held(j) # 0 => Private(Held(j)))'
    <2>. SUFFICES ASSUME NEW j \in Positions, Held(j)' # 0 PROVE Private(Held(j))'
      OBVIOUS
    <2>1. PICK b : b = Held(j)'
      OBVIOUS
    <2>2. Private(b)'
      BY <1>1, <2>1, SameTreeKept
    <2>. QED  BY <2>1, <2>2 DEF Private, Owned
  <1>3. \A j, l \in Positions : Held(j)' # 0 /\ Held(j)' = Held(l)' => j = l
    BY DEF MakingBlocks, PendingBlock
  <1>. QED  BY <1>2, <1>3 DEF MakingBlocks

(* The block a call was given is one to write.                              *)
LEMMA GotBlock ==
  ASSUME TypeOK, PendingBlock
  PROVE  fr.got \in Blocks /\ fr.got # 0 /\ Private(fr.got) /\ blk[fr.got].kind # "dir"
  <1>1. fr.got \in Blocks /\ Private(fr.got) /\ blk[fr.got].kind # "dir"
    BY FrameParts DEF PendingBlock
  <1>2. ROOT_DIR_BLOCK_LBA \in Nat /\ ROOT_DIR_BLOCK_LBA > 0 /\ fr.got \in Nat
    BY <1>1, LayoutAssumption DEF ROOT_DIR_BLOCK_LBA, INODE_TABLE_LBA, Blocks
  <1>. QED  BY <1>1, <1>2 DEF Private

(* Positions of the map.                                                    *)
LEMMA PositionFacts ==
  /\ NDirect \in Nat /\ NDirect > 0 /\ NIndirect \in Nat
  /\ 0 \in Positions /\ NDirect \in Positions /\ 0 .. NDirect \subseteq Positions
  /\ \A n \in 0 .. NIndirect - 1 : NDirect + n + 1 \in Positions
  BY LayoutFacts DEF Positions

(* A direct block of a new file.                                            *)
LEMMA StoreDirectTree ==
  ASSUME Inv, TypeOK', WellFormed, CallGood, StoreDirect
  PROVE  /\ WellFormed' /\ CallGood' /\ SameTree
         /\ \A j \in Positions : Held(j)' = IF j = fr.n THEN fr.got ELSE Held(j)
  <1>. USE DEF MakingLabels, FileLabels, MappedLabels, EarlyLabels, DirLabels,
               BuiltLabels, NamingLabels, PendingLabels
  <1>0. TypeOK /\ pc = "store_direct"
    BY DEF Inv, StoreDirect
  <1>1. /\ MakingNode /\ MakingBlocks /\ PendingBlock
        /\ ~fr.dir /\ fr.node.block[NDirect] = 0
    BY <1>0, GoodHere DEF GoodAt, Meta
  <1>2. fr.n \in 0 .. NDirect - 1
    <2>1. Fits("store_direct")
      BY <1>0, BoundsFit DEF Inv
    <2>. QED  BY <1>0, <2>1, FrameParts, LayoutFacts DEF Fits
  <1>3. /\ fr'.node.block = [fr.node.block EXCEPT ![fr.n] = fr.got]
        /\ fr'.node.mode = fr.node.mode /\ fr'.ptr = fr.ptr /\ fr'.dir = fr.dir
        /\ fr'.inum = fr.inum /\ fr'.name = fr.name /\ fr'.parent = fr.parent
    <2>1. fr \in Frame /\ fr.node \in Inode
      BY <1>0, FrameParts DEF TypeOK
    <2>. QED  BY <2>1 DEF StoreDirect, Frame, Inode
  <1>4. SameTree
    <2>1. DataBlock(fr.content[fr.n + 1]).kind # "dir"
      BY DEF DataBlock
    <2>. QED  BY <1>0, <1>1, <2>1, GotBlock, PutTree DEF StoreDirect
  <1>5. WellFormed' /\ MakingNode'
    BY <1>0, <1>1, <1>3, <1>4, SameTreeKept, MakingKept DEF SameRequest
  <1>6. \A j \in Positions : Held(j)' = IF j = fr.n THEN fr.got ELSE Held(j)
    <2>1. fr.node.block \in [0 .. NDirect -> Blocks]
      BY <1>0, FrameParts
    <2>2. \A j \in 0 .. NDirect : fr'.node.block[j] = IF j = fr.n THEN fr.got ELSE fr.node.block[j]
      BY <1>3, <2>1
    <2>3. \A j \in Positions : j <= NDirect => j \in 0 .. NDirect
      BY PositionFacts DEF Positions
    <2>4. fr.n <= NDirect
      BY <1>2, PositionFacts
    <2>. QED  BY <1>3, <2>2, <2>3, <2>4 DEF Held
  <1>7. fr'.node.block[NDirect] = 0 /\ ~fr'.dir
    <2>1. fr.n # NDirect
      BY <1>2, PositionFacts
    <2>. QED  BY <1>0, <1>1, <1>3, <2>1, FrameParts, PositionFacts
  <1>8. MakingBlocks'
    <2>1. fr.n \in Positions
      BY <1>2, PositionFacts DEF Positions
    <2>. QED  BY <1>0, <1>1, <1>4, <1>6, <1>7, <2>1, HoldMore
  <1>9. GoodAt("direct")'
    BY <1>5, <1>7, <1>8 DEF GoodAt
  <1>10. CallGood'
    BY <1>9, GoodNext DEF StoreDirect, Goto, CallLabels
  <1>. QED  BY <1>4, <1>5, <1>6, <1>10

(* The indirect block of a new file, in memory.                             *)
LEMMA IndirectTableTree ==
  ASSUME TypeOK, TypeOK', WellFormed, CallGood, IndirectTable
  PROVE  /\ WellFormed' /\ CallGood' /\ SameTree
         /\ \A j \in Positions : Held(j)' = IF j = NDirect THEN fr.got ELSE Held(j)
  <1>. USE DEF MakingLabels, FileLabels, MappedLabels, EarlyLabels, DirLabels,
               BuiltLabels, NamingLabels, PendingLabels
  <1>0. pc = "table" /\ UNCHANGED disk
    BY DEF IndirectTable
  <1>1. MakingNode /\ MakingBlocks /\ PendingBlock /\ ~fr.dir
    BY <1>0, GoodHere DEF GoodAt, Meta
  <1>2. /\ fr'.node.block = [fr.node.block EXCEPT ![NDirect] = fr.got]
        /\ fr'.node.mode = fr.node.mode /\ fr'.ptr = fr.ptr /\ fr'.dir = fr.dir
        /\ fr'.inum = fr.inum /\ fr'.name = fr.name /\ fr'.parent = fr.parent
    <2>1. fr \in Frame /\ fr.node \in Inode
      BY FrameParts DEF TypeOK
    <2>. QED  BY <2>1 DEF IndirectTable, Frame, Inode
  <1>3. SameTree
    BY <1>0, QuietTree DEF disk
  <1>4. WellFormed' /\ MakingNode'
    BY <1>1, <1>2, <1>3, SameTreeKept, MakingKept DEF SameRequest
  <1>5. \A j \in 0 .. NDirect :
          fr'.node.block[j] = IF j = NDirect THEN fr.got ELSE fr.node.block[j]
    BY <1>2, FrameParts
  <1>6. \A j \in Positions : Held(j)' = IF j = NDirect THEN fr.got ELSE Held(j)
    <2>1. \A j \in Positions : j <= NDirect => j \in 0 .. NDirect
      BY PositionFacts DEF Positions
    <2>. QED  BY <1>2, <1>5, <2>1, PositionFacts DEF Held
  <1>7. /\ fr'.node.block[NDirect] = fr.got /\ fr.got # 0
        /\ blk'[fr.got].kind # "dir" /\ ~fr'.dir
    BY <1>0, <1>1, <1>2, <1>5, GotBlock, PositionFacts DEF disk
  <1>8. MakingBlocks'
    BY <1>1, <1>3, <1>6, <1>7, HoldMore, PositionFacts
  <1>9. GoodAt("pointer")'
    BY <1>4, <1>7, <1>8 DEF GoodAt
  <1>10. CallGood'
    BY <1>9, GoodNext DEF IndirectTable, Goto, CallLabels
  <1>. QED  BY <1>3, <1>4, <1>6, <1>10

(* A block of a new file that the indirect table names.                     *)
LEMMA StorePointerTree ==
  ASSUME Inv, TypeOK', WellFormed, CallGood, StorePointer
  PROVE  /\ WellFormed' /\ CallGood' /\ SameTree
         /\ \A j \in Positions : Held(j)' = IF j = fr.n + 1 THEN fr.got ELSE Held(j)
  <1>. USE DEF MakingLabels, FileLabels, MappedLabels, EarlyLabels, DirLabels,
               BuiltLabels, NamingLabels, PendingLabels
  <1>0. TypeOK /\ pc = "store_pointer"
    BY DEF Inv, StorePointer
  <1>1. /\ MakingNode /\ MakingBlocks /\ PendingBlock
        /\ ~fr.dir /\ fr.node.block[NDirect] # 0
    BY <1>0, GoodHere DEF GoodAt, Meta
  <1>2. fr.n - NDirect \in 0 .. NIndirect - 1 /\ fr.n \in Nat
    <2>1. Fits("store_pointer")
      BY <1>0, BoundsFit DEF Inv
    <2>. QED  BY <1>0, <2>1, FrameParts DEF Fits
  <1>3. /\ fr'.ptr = [fr.ptr EXCEPT ![fr.n - NDirect] = fr.got]
        /\ fr'.node = fr.node /\ fr'.dir = fr.dir
        /\ fr'.inum = fr.inum /\ fr'.name = fr.name /\ fr'.parent = fr.parent
    <2>1. fr \in Frame
      BY <1>0 DEF TypeOK
    <2>. QED  BY <2>1 DEF StorePointer, Frame
  <1>4. SameTree
    <2>1. DataBlock(fr.content[fr.n + 1]).kind # "dir"
      BY DEF DataBlock
    <2>. QED  BY <1>0, <1>1, <2>1, GotBlock, PutTree DEF StorePointer
  <1>5. WellFormed' /\ MakingNode'
    BY <1>0, <1>1, <1>3, <1>4, SameTreeKept, MakingKept DEF SameRequest
  <1>6. \A j \in Positions : Held(j)' = IF j = fr.n + 1 THEN fr.got ELSE Held(j)
    <2>1. \A n \in 0 .. NIndirect - 1 :
            fr'.ptr[n] = IF n = fr.n - NDirect THEN fr.got ELSE fr.ptr[n]
      BY <1>0, <1>3, FrameParts
    <2>. SUFFICES ASSUME NEW j \in Positions
                  PROVE  Held(j)' = IF j = fr.n + 1 THEN fr.got ELSE Held(j)
      OBVIOUS
    <2>2. CASE j <= NDirect
      <3>1. j # fr.n + 1
        BY <1>2, <2>2, PositionFacts DEF Positions
      <3>. QED  BY <1>3, <2>2, <3>1 DEF Held
    <2>3. CASE ~(j <= NDirect)
      <3>1. /\ j - NDirect - 1 \in 0 .. NIndirect - 1
            /\ j - NDirect - 1 = fr.n - NDirect <=> j = fr.n + 1
        BY <1>2, <2>3, PositionFacts DEF Positions
      <3>. QED  BY <2>1, <2>3, <3>1 DEF Held
    <2>. QED  BY <2>2, <2>3
  <1>7. fr'.node.block[NDirect] # 0 => blk'[fr'.node.block[NDirect]].kind # "dir"
    <2>1. fr.node.block[NDirect] \in Blocks
      BY <1>0, FrameParts, PositionFacts
    <2>2. \A b \in Blocks : blk[b].kind # "dir" => blk'[b].kind # "dir"
      BY <1>0 DEF StorePointer, TypeOK, DataBlock
    <2>. QED  BY <1>1, <1>3, <2>1, <2>2 DEF MakingBlocks
  <1>8. MakingBlocks'
    <2>1. fr.n + 1 \in Positions
      BY <1>2, PositionFacts DEF Positions
    <2>. QED  BY <1>0, <1>1, <1>3, <1>4, <1>6, <1>7, <2>1, HoldMore
  <1>9. GoodAt("pointer")'
    BY <1>1, <1>3, <1>5, <1>8 DEF GoodAt
  <1>10. CallGood'
    BY <1>9, GoodNext DEF StorePointer, Goto, CallLabels
  <1>. QED  BY <1>4, <1>5, <1>6, <1>10

(* The indirect table reaches the disk.                                     *)
LEMMA WriteTableTree ==
  ASSUME TypeOK, TypeOK', WellFormed, CallGood, WriteTable
  PROVE  WellFormed' /\ CallGood' /\ SameTree
  <1>. USE DEF MakingLabels, FileLabels, MappedLabels, EarlyLabels, DirLabels,
               BuiltLabels, NamingLabels, PendingLabels
  <1>0. pc = "write_table" /\ UNCHANGED fr
    BY DEF WriteTable
  <1>1. MakingNode /\ MakingBlocks /\ ~fr.dir /\ fr.node.block[NDirect] # 0
    BY <1>0, GoodHere DEF GoodAt, Meta
  <1>. DEFINE x == fr.node.block[NDirect]
  <1>2. x \in Blocks /\ Private(x) /\ blk[x].kind # "dir"
    <2>1. Held(NDirect) = x
      BY PositionFacts DEF Held
    <2>. QED  BY <1>1, <2>1, FrameParts, PositionFacts DEF MakingBlocks
  <1>3. TableBlock(fr.ptr).kind # "dir" /\ blk'[x] = TableBlock(fr.ptr)
    BY <1>2 DEF TableBlock, WriteTable, TypeOK
  <1>4. SameTree
    <2>1. blk' = [blk EXCEPT ![x] = TableBlock(fr.ptr)]
      BY DEF WriteTable
    <2>. HIDE DEF x
    <2>. QED  BY <1>2, <1>3, <2>1, PutTree DEF WriteTable
  <1>5. WellFormed' /\ MakingNode'
    BY <1>0, <1>1, <1>4, SameTreeKept, MakingKept DEF SameRequest
  <1>6. MakingBlocks'
    BY <1>0, <1>1, <1>3, <1>4, HeldKept
  <1>7. Built'
    BY <1>0, <1>1, <1>3 DEF Built, TableBlock
  <1>8. GoodAt("inode")'
    BY <1>5, <1>6, <1>7 DEF GoodAt
  <1>. QED  BY <1>4, <1>5, <1>8, GoodNext DEF WriteTable, Goto, CallLabels

(* The block of a new directory names nothing.                              *)
LEMMA WriteDotsTree ==
  ASSUME TypeOK, TypeOK', WellFormed, CallGood, WriteDots
  PROVE  /\ WellFormed' /\ CallGood' /\ SameTree
         /\ \A j \in Positions : Held(j)' = IF j = 0 THEN fr.got ELSE Held(j)
  <1>. USE DEF MakingLabels, FileLabels, MappedLabels, EarlyLabels, DirLabels,
               BuiltLabels, NamingLabels, PendingLabels
  <1>0. /\ pc = "dots"
        /\ blk' = [blk EXCEPT ![fr.got] = DirBlock(DotEntries(fr.inum, fr.parent))]
        /\ UNCHANGED <<inode_table, inode_bitmap, block_bitmap>>
    BY DEF WriteDots
  <1>1. /\ MakingNode /\ MakingBlocks /\ PendingBlock /\ fr.dir
        /\ fr.node.block[0] = 0 /\ fr.node.block[NDirect] = 0
    BY <1>0, GoodHere DEF GoodAt, Meta
  <1>2. /\ fr'.node.block = [fr.node.block EXCEPT ![0] = fr.got]
        /\ fr'.node.mode = fr.node.mode /\ fr'.ptr = fr.ptr /\ fr'.dir = fr.dir
        /\ fr'.inum = fr.inum /\ fr'.name = fr.name /\ fr'.parent = fr.parent
    <2>1. fr \in Frame /\ fr.node \in Inode
      BY FrameParts DEF TypeOK
    <2>. QED  BY <2>1 DEF WriteDots, Frame, Inode
  <1>3. SameTree
    BY <1>0, <1>1, GotBlock, PutTree
  <1>4. WellFormed' /\ MakingNode'
    BY <1>1, <1>2, <1>3, SameTreeKept, MakingKept DEF SameRequest
  <1>5. \A j \in 0 .. NDirect :
          fr'.node.block[j] = IF j = 0 THEN fr.got ELSE fr.node.block[j]
    BY <1>2, FrameParts
  <1>6. \A j \in Positions : Held(j)' = IF j = 0 THEN fr.got ELSE Held(j)
    <2>1. \A j \in Positions : j <= NDirect => j \in 0 .. NDirect
      BY PositionFacts DEF Positions
    <2>. QED  BY <1>2, <1>5, <2>1, PositionFacts DEF Held
  <1>7. /\ fr'.node.block[NDirect] = 0 /\ fr'.dir /\ fr'.node.block[0] = fr.got
        /\ \A j \in 1 .. NDirect : fr'.node.block[j] = 0
    BY <1>1, <1>2, <1>5, PositionFacts DEF MakingBlocks
  <1>8. MakingBlocks'
    BY <1>1, <1>3, <1>6, <1>7, HoldMore, PositionFacts
  <1>9. Built'
    <2>1. blk'[fr.got] = DirBlock(DotEntries(fr.inum, fr.parent))
      BY <1>0, <1>1, GotBlock DEF TypeOK
    <2>2. Ents(fr.node.block[0])' = DotEntries(fr.inum, fr.parent)
      BY <1>7, <2>1 DEF Ents, DirBlock
    <2>. QED  BY <1>7, <2>2, DotsDoNotName DEF Built
  <1>10. GoodAt("inode")'
    BY <1>4, <1>8, <1>9 DEF GoodAt
  <1>11. CallGood'
    BY <1>10, GoodNext DEF WriteDots, Goto, CallLabels
  <1>. QED  BY <1>3, <1>4, <1>6, <1>11

(* sync_node writes an inode that has no name.                              *)
LEMMA WriteInodeTree ==
  ASSUME TypeOK, TypeOK', WellFormed, CallGood, WriteInode
  PROVE  WellFormed' /\ CallGood' /\ SameTree
  <1>. USE DEF MakingLabels, FileLabels, MappedLabels, EarlyLabels, DirLabels,
               BuiltLabels, NamingLabels, PendingLabels
  <1>0. /\ pc = "inode" /\ UNCHANGED <<fr, blk, inode_bitmap, block_bitmap>>
        /\ inode_table' = [inode_table EXCEPT ![fr.inum] = fr.node]
    BY DEF WriteInode
  <1>1. MakingNode /\ MakingBlocks /\ Built
    BY <1>0, GoodHere DEF GoodAt, Meta
  <1>2. SameTree
    BY <1>0, <1>1, NodeTree DEF MakingNode
  <1>3. WellFormed' /\ MakingNode'
    BY <1>0, <1>1, <1>2, SameTreeKept, MakingKept DEF SameRequest
  <1>4. MakingBlocks' /\ Built'
    BY <1>0, <1>1, <1>2, HeldKept, BuiltKept DEF MakingBlocks
  <1>5. inode_table'[fr'.inum] = fr'.node
    BY <1>0, <1>1 DEF MakingNode, TypeOK
  <1>6. GoodAt("add_entry")'
    BY <1>3, <1>4, <1>5 DEF GoodAt
  <1>. QED  BY <1>2, <1>3, <1>6, GoodNext DEF WriteInode, Goto, CallLabels

-----------------------------------------------------------------------------
(* Giving the new inode its name.                                           *)

(* Record n of block x is new; the others are those from before.            *)
OneMoreName(x, n) ==
  \E h \in [Blocks -> [Nat -> Nat]] : \A b \in Blocks :
    /\ \A k \in DOMAIN Ents(b)' : Naming(Ents(b)'[k]) /\ ~(b = x /\ k = n) =>
         h[b][k] \in DOMAIN Ents(b) /\ Alike(Ents(b)'[k], Ents(b)[h[b][k]])
    /\ \A k, l \in DOMAIN Ents(b)' :
         /\ Naming(Ents(b)'[k]) /\ ~(b = x /\ k = n)
         /\ Naming(Ents(b)'[l]) /\ ~(b = x /\ l = n)
         /\ h[b][k] = h[b][l]
         => k = l

(* The inode write was making may have a name; the maps stay.               *)
OneMoreMap ==
  /\ \A i : IsNamed(i)' => IsNamed(i) \/ i = fr.inum
  /\ \A i \in Inodes, j \in Positions :
       IsNamed(i) \/ i = fr.inum => PtrAt(i, j)' = PtrAt(i, j)

(* add_entry_to_dir gives the inode its name, and its blocks an owner, in one
   block write.                                                             *)
LEMMA NewNameTree ==
  ASSUME TypeOK, TypeOK', WellFormed, MakingNode, MakingBlocks, Built,
         inode_table[fr.inum] = fr.node,
         UNCHANGED <<inode_table, inode_bitmap, block_bitmap>>,
         NEW p0 \in Direct, NEW x \in Blocks, x # 0,
         inode_table[fr.parent].block[p0] = x, NEW c,
         blk' = [blk EXCEPT ![x] = c], NEW n \in DOMAIN Ents(x)', OneMoreName(x, n),
         Ents(x)'[n].inode = fr.inum, Ents(x)'[n].name = fr.name,
         Ents(x)'[n].type = FrType
  PROVE  WellFormed' /\ OneMoreMap
  <1>1. PICK h \in [Blocks -> [Nat -> Nat]] : \A b \in Blocks :
          /\ \A k \in DOMAIN Ents(b)' : Naming(Ents(b)'[k]) /\ ~(b = x /\ k = n) =>
               h[b][k] \in DOMAIN Ents(b) /\ Alike(Ents(b)'[k], Ents(b)[h[b][k]])
          /\ \A k, l \in DOMAIN Ents(b)' :
               /\ Naming(Ents(b)'[k]) /\ ~(b = x /\ k = n)
               /\ Naming(Ents(b)'[l]) /\ ~(b = x /\ l = n)
               /\ h[b][k] = h[b][l]
               => k = l
    BY DEF OneMoreName
  <1>2. \A b \in Blocks : blk'[b] = IF b = x THEN c ELSE blk[b]
    BY DEF TypeOK
  <1>2a. \A b \in Blocks : b # x => Ents(b)' = Ents(b)
    BY <1>2 DEF Ents
  <1>3. /\ fr.parent \in Inodes /\ DirOf(fr.parent) /\ IsNamed(fr.parent)
        /\ fr.inum \in Inodes /\ fr.inum # ROOT_INODE_NO /\ ~IsNamed(fr.inum)
        /\ fr.inum \in inode_bitmap
    BY DEF MakingNode, ParentGood, DirOf, TypeOK, IsNamed
  <1>4. p0 \in Positions /\ p0 <= NDirect /\ p0 # NDirect /\ PtrAt(fr.parent, p0) = x
    <2>1. p0 \in Positions /\ p0 <= NDirect /\ p0 # NDirect
      BY PositionFacts DEF Direct, Positions
    <2>. QED  BY <2>1 DEF PtrAt
  <1>5. Owned(x)
    BY <1>3, <1>4 DEF Owned
  (* An entry other than the new one.                                       *)
  <1>6. ASSUME NEW b \in Blocks, NEW k \in DOMAIN Ents(b)', Naming(Ents(b)'[k]),
               ~(b = x /\ k = n)
        PROVE  /\ h[b][k] \in DOMAIN Ents(b) /\ Naming(Ents(b)[h[b][k]])
               /\ Ents(b)'[k].inode = Ents(b)[h[b][k]].inode
               /\ Ents(b)'[k].name = Ents(b)[h[b][k]].name
               /\ Ents(b)'[k].type = Ents(b)[h[b][k]].type
               /\ Ents(b)'[k].inode \in Inodes
               /\ IsNamed(Ents(b)[h[b][k]].inode)
               /\ Ents(b)[h[b][k]].inode # fr.inum
    <2>1. h[b][k] \in DOMAIN Ents(b) /\ Alike(Ents(b)'[k], Ents(b)[h[b][k]])
      BY <1>1, <1>6
    <2>2. Naming(Ents(b)[h[b][k]])
      BY <1>6, <2>1 DEF Alike, Naming
    <2>3. Ents(b)[h[b][k]].inode \in Inodes /\ IsNamed(Ents(b)[h[b][k]].inode)
      BY <2>1, <2>2, NamingType
    <2>4. Ents(b)[h[b][k]].inode # fr.inum
      BY <1>3, <2>3
    <2>. QED  BY <2>1, <2>2, <2>3, <2>4 DEF Alike
  <1>7. \A i : IsNamed(i)' => IsNamed(i) \/ i = fr.inum
    <2>. SUFFICES ASSUME NEW i, IsNamed(i)', i # ROOT_INODE_NO, i # fr.inum
                  PROVE  IsNamed(i)
      BY DEF IsNamed
    <2>1. PICK b \in Blocks : \E k \in DOMAIN Ents(b)' :
            Naming(Ents(b)'[k]) /\ Ents(b)'[k].inode = i
      BY DEF IsNamed
    <2>2. PICK k \in DOMAIN Ents(b)' : Naming(Ents(b)'[k]) /\ Ents(b)'[k].inode = i
      BY <2>1
    <2>. QED  BY <1>6, <2>2
  (* The maps stay, and the new one is the one made.                        *)
  <1>8. \A i \in Inodes, j \in Positions :
          IsNamed(i) \/ i = fr.inum => PtrAt(i, j)' = PtrAt(i, j)
    <2>. SUFFICES ASSUME NEW i \in Inodes, NEW j \in Positions, IsNamed(i) \/ i = fr.inum
                  PROVE  PtrAt(i, j)' = PtrAt(i, j)
      OBVIOUS
    <2>. DEFINE ind == inode_table[i].block[NDirect]
    <2>1. ind \in Blocks
      <3>1. PtrAt(i, NDirect) = ind
        BY PositionFacts DEF PtrAt
      <3>. QED  BY <3>1, PtrType, PositionFacts
    <2>2. ind # x
      <3>1. CASE IsNamed(i)
        <4>1. PtrAt(i, NDirect) = ind
          BY PositionFacts DEF PtrAt
        <4>2. OneOwner
          BY DEF WellFormed
        <4>3. NDirect \in Positions
          BY PositionFacts
        <4>4. PtrAt(fr.parent, p0) = PtrAt(i, NDirect) /\ PtrAt(fr.parent, p0) # 0
                => p0 = NDirect
          BY <1>3, <1>4, <3>1, <4>2, <4>3 DEF OneOwner
        <4>. QED  BY <1>3, <1>4, <4>1, <4>4
      <3>2. CASE i = fr.inum
        <4>1. Held(NDirect) = ind
          BY <3>2, PositionFacts DEF Held
        <4>. QED  BY <1>5, <4>1, PositionFacts DEF MakingBlocks, Private
      <3>. QED  BY <3>1, <3>2
    <2>. HIDE DEF ind
    <2>3. blk'[ind] = blk[ind]
      BY <1>2, <2>1, <2>2
    <2>. QED  BY <2>3 DEF PtrAt, ind
  <1>9. \A j \in Positions : PtrAt(fr.inum, j) # 0 => PtrAt(fr.inum, j) = Held(j)
    BY DEF PtrAt, Held, Built, TableBlock
  <1>10. \A j \in Positions : PtrAt(fr.inum, j) # 0 =>
           /\ PtrAt(fr.inum, j) \in block_bitmap /\ PtrAt(fr.inum, j) >= ROOT_DIR_BLOCK_LBA
           /\ ~Owned(PtrAt(fr.inum, j))
    BY <1>9 DEF MakingBlocks, Private
  <1>11. OneName'
    <2>. SUFFICES ASSUME NEW b \in Blocks, NEW d \in Blocks,
                         NEW k \in DOMAIN Ents(b)', NEW l \in DOMAIN Ents(d)',
                         Naming(Ents(b)'[k]), Naming(Ents(d)'[l]),
                         Ents(b)'[k].inode = Ents(d)'[l].inode
                  PROVE  b = d /\ k = l
      BY DEF OneName
    <2>1. CASE ~(b = x /\ k = n) /\ ~(d = x /\ l = n)
      <3>1. /\ h[b][k] \in DOMAIN Ents(b) /\ Naming(Ents(b)[h[b][k]])
            /\ h[d][l] \in DOMAIN Ents(d) /\ Naming(Ents(d)[h[d][l]])
            /\ Ents(b)[h[b][k]].inode = Ents(d)[h[d][l]].inode
        BY <1>6, <2>1
      <3>2. b = d /\ h[b][k] = h[d][l]
        BY <3>1 DEF WellFormed, OneName
      <3>. QED  BY <1>1, <2>1, <3>2
    <2>2. CASE (b = x /\ k = n) /\ ~(d = x /\ l = n)
      BY <1>6, <2>2
    <2>3. CASE ~(b = x /\ k = n) /\ (d = x /\ l = n)
      BY <1>6, <2>3
    <2>. QED  BY <2>1, <2>2, <2>3
  <1>12. NamesUsed'
    <2>1. ASSUME NEW b \in Blocks, NEW k \in DOMAIN Ents(b)', Naming(Ents(b)'[k])
          PROVE  /\ Ents(b)'[k].inode # ROOT_INODE_NO
                 /\ Ents(b)'[k].inode \in inode_bitmap
                 /\ inode_table[Ents(b)'[k].inode].mode = Ents(b)'[k].type
      <3>1. CASE b = x /\ k = n
        BY <1>3, <3>1 DEF MakingNode
      <3>2. CASE ~(b = x /\ k = n)
        BY <1>6, <2>1, <3>2 DEF WellFormed, NamesUsed
      <3>. QED  BY <3>1, <3>2
    <2>. QED  BY <2>1 DEF WellFormed, NamesUsed
  <1>13. BlocksUsed'
    <2>1. x \in block_bitmap
      BY <1>5 DEF WellFormed, BlocksUsed
    <2>2. \A b \in Blocks : blk'[b].kind = "dir" => b \in block_bitmap
      BY <1>2, <2>1 DEF WellFormed, BlocksUsed
    <2>3. ASSUME NEW b \in Blocks, b # 0, Owned(b)'
          PROVE  b \in block_bitmap /\ b >= ROOT_DIR_BLOCK_LBA
      <3>1. PICK i \in Inodes : IsNamed(i)' /\ \E j \in Positions : PtrAt(i, j)' = b
        BY <2>3 DEF Owned
      <3>2. PICK j \in Positions : PtrAt(i, j)' = b
        BY <3>1
      <3>3. PtrAt(i, j) = b /\ (IsNamed(i) \/ i = fr.inum)
        BY <1>7, <1>8, <3>1, <3>2
      <3>4. CASE IsNamed(i)
        BY <2>3, <3>3, <3>4 DEF WellFormed, BlocksUsed, Owned
      <3>5. CASE i = fr.inum
        BY <1>10, <2>3, <3>3, <3>5
      <3>. QED  BY <3>3, <3>4, <3>5
    <2>. QED  BY <2>2, <2>3 DEF WellFormed, BlocksUsed
  <1>14. OneOwner'
    <2>. SUFFICES ASSUME NEW i \in Inodes, NEW j \in Inodes, IsNamed(i)', IsNamed(j)',
                         NEW p \in Positions, NEW q \in Positions,
                         PtrAt(i, p)' # 0, PtrAt(i, p)' = PtrAt(j, q)'
                  PROVE  i = j /\ p = q
      BY DEF OneOwner
    <2>1. /\ IsNamed(i) \/ i = fr.inum
          /\ IsNamed(j) \/ j = fr.inum
      BY <1>7
    <2>2. PtrAt(i, p) # 0 /\ PtrAt(i, p) = PtrAt(j, q)
      BY <1>8, <2>1
    <2>3. CASE IsNamed(i) /\ IsNamed(j)
      BY <2>2, <2>3 DEF WellFormed, OneOwner
    <2>4. CASE i = fr.inum /\ IsNamed(j)
      BY <1>10, <2>2, <2>4 DEF Owned
    <2>5. CASE IsNamed(i) /\ j = fr.inum
      BY <1>10, <2>2, <2>5 DEF Owned
    <2>6. CASE i = fr.inum /\ j = fr.inum
      BY <1>9, <2>2, <2>6 DEF MakingBlocks
    <2>. QED  BY <2>1, <2>3, <2>4, <2>5, <2>6
  <1>15. \A d \in Inodes : DirOf(d)' => DirOf(d) \/ (d = fr.inum /\ fr.dir)
    BY <1>7 DEF DirOf, MakingNode, FrType
  <1>16. fr.dir => \A p \in Direct : fr.node.block[p] # 0 => p = 0
    BY PositionFacts DEF MakingBlocks, Direct
  <1>17. NoHoles'
    <2>. SUFFICES ASSUME NEW d \in Inodes, DirOf(d)', NEW p \in Direct,
                         inode_table[d].block[p] # 0, NEW q \in 0 .. p
                  PROVE  inode_table[d].block[q] # 0
      BY DEF NoHoles
    <2>1. CASE DirOf(d)
      BY <2>1 DEF WellFormed, NoHoles
    <2>2. CASE d = fr.inum /\ fr.dir
      <3>1. p = 0
        BY <1>16, <2>2
      <3>. QED  BY <3>1
    <2>. QED  BY <1>15, <2>1, <2>2
  <1>18. OneEntry'
    <2>. SUFFICES ASSUME NEW d \in Inodes, NEW p \in Direct, NEW q \in Direct,
                         NEW b \in Blocks, NEW e \in Blocks,
                         NEW k \in DOMAIN Ents(b)', NEW l \in DOMAIN Ents(e)',
                         /\ DirOf(d)'
                         /\ b = inode_table'[d].block[p] /\ e = inode_table'[d].block[q]
                         /\ b # 0 /\ e # 0
                         /\ Naming(Ents(b)'[k]) /\ Naming(Ents(e)'[l])
                         /\ Ents(b)'[k].name = Ents(e)'[l].name
                  PROVE  p = q /\ k = l
      BY DEF OneEntry
    <2>1. b = inode_table[d].block[p] /\ e = inode_table[d].block[q]
      OBVIOUS
    <2>2. /\ p \in Positions /\ q \in Positions
          /\ PtrAt(d, p) = b /\ PtrAt(d, q) = e
      <3>1. p \in Positions /\ q \in Positions /\ p <= NDirect /\ q <= NDirect
        BY PositionFacts DEF Direct, Positions
      <3>. QED  BY <2>1, <3>1 DEF PtrAt
    <2>3. CASE d = fr.inum /\ fr.dir
      <3>1. p = 0
        BY <1>16, <2>1, <2>3
      <3>2. b # x
        BY <1>5, <1>10, <2>2, <2>3
      <3>. QED  BY <1>2a, <2>1, <2>3, <3>1, <3>2 DEF Built
    <2>4. CASE DirOf(d)
      <3>0. IsNamed(d)
        BY <2>4 DEF DirOf
      <3>1. CASE ~(b = x /\ k = n) /\ ~(e = x /\ l = n)
        <4>1. /\ h[b][k] \in DOMAIN Ents(b) /\ Naming(Ents(b)[h[b][k]])
              /\ h[e][l] \in DOMAIN Ents(e) /\ Naming(Ents(e)[h[e][l]])
              /\ Ents(b)[h[b][k]].name = Ents(e)[h[e][l]].name
          BY <1>6, <3>1
        <4>2. p = q /\ h[b][k] = h[e][l]
          <5>1. PICK km, lm : km = h[b][k] /\ lm = h[e][l]
            OBVIOUS
          <5>2. /\ km \in DOMAIN Ents(b) /\ Naming(Ents(b)[km])
                /\ lm \in DOMAIN Ents(e) /\ Naming(Ents(e)[lm])
                /\ Ents(b)[km].name = Ents(e)[lm].name
            BY <4>1, <5>1
          <5>3. OneEntry
            BY DEF WellFormed
          <5>4. p = q /\ km = lm
            BY <2>1, <2>4, <5>2, <5>3 DEF OneEntry
          <5>. QED  BY <5>1, <5>4
        <4>3. b = e
          BY <2>1, <4>2
        <4>. QED  BY <1>1, <3>1, <4>2, <4>3
      <3>2. CASE (b = x /\ k = n) /\ ~(e = x /\ l = n)
        <4>1. d = fr.parent
          <5>1. OneOwner
            BY DEF WellFormed
          <5>. QED  BY <1>3, <1>4, <2>2, <3>0, <3>2, <5>1 DEF OneOwner
        <4>2. h[e][l] \in DOMAIN Ents(e) /\ Naming(Ents(e)[h[e][l]])
              /\ Ents(e)[h[e][l]].name = fr.name
          BY <1>6, <3>2
        <4>. QED  BY <2>1, <4>1, <4>2 DEF MakingNode, NameFree
      <3>3. CASE ~(b = x /\ k = n) /\ (e = x /\ l = n)
        <4>1. d = fr.parent
          <5>1. OneOwner
            BY DEF WellFormed
          <5>. QED  BY <1>3, <1>4, <2>2, <3>0, <3>3, <5>1 DEF OneOwner
        <4>2. h[b][k] \in DOMAIN Ents(b) /\ Naming(Ents(b)[h[b][k]])
              /\ Ents(b)[h[b][k]].name = fr.name
          BY <1>6, <3>3
        <4>. QED  BY <2>1, <4>1, <4>2 DEF MakingNode, NameFree
      <3>4. CASE (b = x /\ k = n) /\ (e = x /\ l = n)
        BY <2>2, <3>0, <3>4 DEF WellFormed, OneOwner
      <3>. QED  BY <3>1, <3>2, <3>3, <3>4
    <2>. QED  BY <1>15, <2>3, <2>4
  <1>19. OneMoreMap
    BY <1>7, <1>8 DEF OneMoreMap
  <1>. QED  BY <1>11, <1>12, <1>13, <1>14, <1>17, <1>18, <1>19 DEF WellFormed

(* add_entry_to_dir into a record with room.                                *)
LEMMA AddEntryTree ==
  ASSUME TypeOK, TypeOK', WellFormed, CallGood, AddEntry
  PROVE  WellFormed' /\ CallGood' /\ OneMoreMap
  <1>. USE DEF MakingLabels, FileLabels, MappedLabels, EarlyLabels, DirLabels,
               BuiltLabels, NamingLabels, PendingLabels
  <1>0. /\ pc = "add_entry" /\ pc' = "idle"
        /\ UNCHANGED <<inode_table, inode_bitmap, block_bitmap>>
    BY DEF AddEntry, Return
  <1>1. /\ MakingNode /\ MakingBlocks /\ Built /\ inode_table[fr.inum] = fr.node
    BY <1>0, GoodHere DEF GoodAt, Meta
  <1>2. PICK s \in First(Rooms(fr.parent, fr.name)) :
          LET b == inode_table[fr.parent].block[s[1]] IN
          blk' = [blk EXCEPT ![b] =
                    DirBlock(InsertEntry(Ents(b), s[2], fr.inum, fr.name, FrType))]
    BY DEF AddEntry
  <1>3. s \in Slots(fr.parent)
    BY DEF First, Rooms
  <1>4. PICK p \in DirBlocks(fr.parent) : \E k \in DOMAIN DirEnts(fr.parent, p) : s = <<p, k>>
    BY <1>3 DEF Slots
  <1>5. PICK k \in DOMAIN DirEnts(fr.parent, p) : s = <<p, k>>
    BY <1>4
  <1>6. PICK b : b = inode_table[fr.parent].block[p]
    OBVIOUS
  <1>7. p \in Direct /\ b # 0
    BY <1>6 DEF DirBlocks, Direct
  <1>8. b \in Blocks
    <2>1. fr.parent \in Inodes
      BY <1>1 DEF MakingNode, ParentGood
    <2>2. inode_table[fr.parent].block \in [0 .. NDirect -> Blocks]
      BY <2>1, DiskParts
    <2>3. p \in 0 .. NDirect
      BY <1>7, LayoutFacts DEF Direct
    <2>. QED  BY <1>6, <2>2, <2>3
  <1>9. PICK new : new = InsertEntry(Ents(b), k, fr.inum, fr.name, FrType)
    OBVIOUS
  <1>10. blk' = [blk EXCEPT ![b] = DirBlock(new)]
    <2>1. s[1] = p /\ s[2] = k
      BY <1>5
    <2>. QED  BY <1>2, <1>6, <1>9, <2>1
  <1>11. /\ Ents(b)' = new
         /\ \A c \in Blocks : c # b => Ents(c)' = Ents(c)
    BY <1>8, <1>10 DEF Ents, DirBlock, TypeOK
  <1>12. Ents(b) \in Seq(Entry) /\ k \in DOMAIN Ents(b)
    BY <1>5, <1>6, <1>8, DiskParts DEF DirEnts
  <1>13. /\ fr.inum \in Inodes \cup {0} /\ fr.name \in Names \cup Dots
         /\ FrType \in {"file", "dir"}
    BY FrameParts DEF FrType
  <1>13a. Inserted(new, Ents(b), k, fr.inum, fr.name, FrType)
    BY <1>9, <1>12, <1>13, InsertShape
  <1>14. /\ DOMAIN new = 1 .. Len(Ents(b)) + 1
         /\ \A i \in 1 .. k - 1 : new[i] = Ents(b)[i]
         /\ Alike(new[k], Ents(b)[k])
         /\ \A i \in k + 2 .. Len(Ents(b)) + 1 : new[i] = Ents(b)[i - 1]
    BY <1>13a DEF Inserted
  <1>15. new[k + 1] = NewEntry(fr.inum, fr.name, FrType, Ents(b)[k].rec_len - RecLen(Ents(b)[k].name))
    BY <1>13a DEF Inserted
  <1>16. new[k + 1].inode = fr.inum /\ new[k + 1].name = fr.name /\ new[k + 1].type = FrType
    BY <1>15 DEF NewEntry
  <1>17. k \in Nat /\ k >= 1 /\ Len(Ents(b)) \in Nat /\ DOMAIN Ents(b) = 1 .. Len(Ents(b))
         /\ k <= Len(Ents(b))
    BY <1>12
  <1>18. OneMoreName(b, k + 1)
    <2>. DEFINE h == [c \in Blocks |-> [m \in Nat |-> IF c = b /\ m > k THEN m - 1 ELSE m]]
    <2>1. h \in [Blocks -> [Nat -> Nat]]
      BY <1>17
    <2>2. /\ \A c \in Blocks, m \in Nat : c # b => h[c][m] = m
          /\ \A m \in Nat : h[b][m] = IF m > k THEN m - 1 ELSE m
      BY <1>8
    <2>. HIDE DEF h
    <2>3. ASSUME NEW c \in Blocks, NEW m \in DOMAIN Ents(c)', ~(c = b /\ m = k + 1)
          PROVE  h[c][m] \in DOMAIN Ents(c) /\ Alike(Ents(c)'[m], Ents(c)[h[c][m]])
      <3>1. CASE c # b
        <4>1. Ents(c)' = Ents(c) /\ Ents(c) \in Seq(Entry)
          BY <1>11, <3>1, DiskParts
        <4>2. m \in Nat
          BY <4>1
        <4>. QED  BY <2>2, <3>1, <4>1, <4>2 DEF Alike
      <3>2. CASE c = b /\ m < k
        <4>1. m \in 1 .. k - 1 /\ m \in Nat /\ ~(m > k) /\ m \in DOMAIN Ents(b)
          BY <1>11, <1>14, <1>17, <3>2
        <4>. QED  BY <1>11, <1>14, <2>2, <3>2, <4>1 DEF Alike
      <3>3. CASE c = b /\ m = k
        <4>1. ~(m > k)
          BY <1>17, <3>3
        <4>. QED  BY <1>11, <1>14, <1>12, <1>17, <2>2, <3>3, <4>1
      <3>4. CASE c = b /\ m > k + 1
        <4>1. m \in k + 2 .. Len(Ents(b)) + 1 /\ m \in Nat /\ m > k /\ m - 1 \in DOMAIN Ents(b)
          BY <1>11, <1>14, <1>17, <3>4
        <4>. QED  BY <1>11, <1>14, <2>2, <3>4, <4>1 DEF Alike
      <3>5. c = b => m \in Nat
        BY <1>11, <1>14, <1>17
      <3>. QED  BY <1>17, <2>3, <3>1, <3>2, <3>3, <3>4, <3>5
    <2>4. ASSUME NEW c \in Blocks, NEW m \in DOMAIN Ents(c)', NEW l \in DOMAIN Ents(c)',
                 ~(c = b /\ m = k + 1), ~(c = b /\ l = k + 1), h[c][m] = h[c][l]
          PROVE  m = l
      <3>1. CASE c # b
        <4>1. Ents(c)' = Ents(c) /\ Ents(c) \in Seq(Entry)
          BY <1>11, <3>1, DiskParts
        <4>2. m \in Nat /\ l \in Nat
          BY <4>1
        <4>. QED  BY <2>2, <2>4, <3>1, <4>2
      <3>2. CASE c = b
        <4>1. m \in Nat /\ l \in Nat /\ m # k + 1 /\ l # k + 1
          BY <1>11, <1>14, <1>17, <2>4, <3>2
        <4>. QED  BY <1>17, <2>2, <2>4, <3>2, <4>1
      <3>. QED  BY <3>1, <3>2
    <2>. QED  BY <2>1, <2>3, <2>4 DEF OneMoreName
  <1>19. k + 1 \in DOMAIN Ents(b)'
    BY <1>11, <1>14, <1>17
  <1>20. WellFormed' /\ OneMoreMap
    BY <1>0, <1>1, <1>6, <1>7, <1>8, <1>10, <1>11, <1>16, <1>18, <1>19, NewNameTree
  <1>. QED  BY <1>0, <1>20, GoodOutside, GoodNext DEF CallLabels

(* add_entry_to_dir into the block the directory has grown by.              *)
LEMMA GrowBlockTree ==
  ASSUME TypeOK, TypeOK', WellFormed, CallGood, GrowBlock
  PROVE  WellFormed' /\ CallGood' /\ OneMoreMap
  <1>. USE DEF MakingLabels, FileLabels, MappedLabels, EarlyLabels, DirLabels,
               BuiltLabels, NamingLabels, PendingLabels
  <1>0. /\ pc = "grow_block" /\ pc' = "idle"
        /\ UNCHANGED <<inode_table, inode_bitmap, block_bitmap>>
    BY DEF GrowBlock, Return
  <1>1. /\ MakingNode /\ MakingBlocks /\ Built /\ inode_table[fr.inum] = fr.node
        /\ GrownBlock
    BY <1>0, GoodHere DEF GoodAt, Meta
  <1>2. PICK p \in Direct : inode_table[fr.parent].block[p] = fr.got
    BY <1>1 DEF GrownBlock
  <1>3. PICK x : x = fr.got
    OBVIOUS
  <1>4. x \in Blocks /\ x # 0
    BY <1>1, <1>3, FrameParts DEF GrownBlock
  <1>5. PICK e : e = NewEntry(fr.inum, fr.name, FrType, BLOCK_SIZE)
    OBVIOUS
  <1>6. blk' = [blk EXCEPT ![x] = DirBlock(<<e>>)]
    BY <1>3, <1>5 DEF GrowBlock
  <1>7. Ents(x)' = <<e>> /\ \A c \in Blocks : c # x => Ents(c)' = Ents(c)
    BY <1>4, <1>6 DEF Ents, DirBlock, TypeOK
  <1>8. e.inode = fr.inum /\ e.name = fr.name /\ e.type = FrType
    BY <1>5 DEF NewEntry
  <1>9. DOMAIN Ents(x)' = {1} /\ Ents(x)'[1] = e
    BY <1>7
  <1>10. OneMoreName(x, 1)
    <2>. DEFINE h == [c \in Blocks |-> [m \in Nat |-> m]]
    <2>1. h \in [Blocks -> [Nat -> Nat]] /\ \A c \in Blocks, m \in Nat : h[c][m] = m
      OBVIOUS
    <2>. HIDE DEF h
    <2>2. ASSUME NEW c \in Blocks, c # x
          PROVE  \A m \in DOMAIN Ents(c)' :
                   /\ h[c][m] \in DOMAIN Ents(c) /\ Alike(Ents(c)'[m], Ents(c)[h[c][m]])
                   /\ h[c][m] = m
      <3>1. Ents(c)' = Ents(c) /\ Ents(c) \in Seq(Entry)
        BY <1>7, <2>2, DiskParts
      <3>2. \A m \in DOMAIN Ents(c) : m \in Nat
        BY <3>1
      <3>. QED  BY <2>1, <3>1, <3>2 DEF Alike
    <2>. QED  BY <1>9, <2>1, <2>2 DEF OneMoreName
  <1>11. WellFormed' /\ OneMoreMap
    BY <1>0, <1>1, <1>2, <1>3, <1>4, <1>6, <1>8, <1>9, <1>10, NewNameTree
  <1>. QED  BY <1>0, <1>11, GoodOutside, GoodNext DEF CallLabels

(* A directory whose pointers leave room grows at its first free pointer.   *)
LEMMA FirstFreePointer ==
  ASSUME TypeOK, NEW d \in Inodes, \E c \in Direct : inode_table[d].block[c] = 0
  PROVE  LET c == Cardinality(DirBlocks(d))
         IN  /\ c \in Direct /\ inode_table[d].block[c] = 0
             /\ \A q \in 0 .. c - 1 : inode_table[d].block[q] # 0
  <1>. DEFINE Z == {c \in Direct : inode_table[d].block[c] = 0}
  <1>1. Z \in SUBSET Nat /\ Z # {}
    BY LayoutFacts DEF Direct
  <1>2. PICK c \in Z : \A y \in Z : c <= y
    <2>. HIDE DEF Z
    <2>. QED  BY <1>1, LeastNat
  <1>3. c \in Direct /\ inode_table[d].block[c] = 0 /\ c \in Nat
    BY <1>1, <1>2
  <1>4. \A q \in 0 .. c - 1 : inode_table[d].block[q] # 0
    <2>. SUFFICES ASSUME NEW q \in 0 .. c - 1, inode_table[d].block[q] = 0 PROVE FALSE
      OBVIOUS
    <2>1. q \in Z
      BY <1>3, LayoutFacts DEF Direct
    <2>2. c <= q
      BY <1>2, <2>1
    <2>. QED  BY <1>3, <2>2
  <1>5. DirBlocks(d) = 0 .. c - 1
    <2>1. ASSUME NEW i \in DirBlocks(d) PROVE i \in 0 .. c - 1
      <3>1. i \in Nat /\ \A j \in 0 .. i : inode_table[d].block[j] # 0
        BY LayoutFacts DEF DirBlocks
      <3>2. ~(c <= i)
        BY <1>3, <3>1
      <3>. QED  BY <1>3, <3>1, <3>2
    <2>2. ASSUME NEW i \in 0 .. c - 1 PROVE i \in DirBlocks(d)
      <3>1. i \in 0 .. NDirect - 1 /\ \A j \in 0 .. i : j \in 0 .. c - 1
        BY <1>3, LayoutFacts DEF Direct
      <3>. QED  BY <1>4, <3>1 DEF DirBlocks
    <2>. QED  BY <2>1, <2>2
  <1>6. Cardinality(0 .. c - 1) = c
    <2>1. Cardinality(0 .. c - 1) = IF 0 > c - 1 THEN 0 ELSE c - 1 - 0 + 1
      BY <1>3, FS_Interval
    <2>. QED  BY <1>3, <2>1
  <1>. QED  BY <1>3, <1>4, <1>5, <1>6

(* add_entry_to_dir writes the inode of the directory that grows.           *)
LEMMA GrowInodeTree ==
  ASSUME TypeOK, TypeOK', WellFormed, CallGood, GrowInode
  PROVE  /\ WellFormed' /\ CallGood'
         /\ \A i : IsNamed(i)' <=> IsNamed(i)
         /\ \A i \in Inodes : inode_table'[i].mode = inode_table[i].mode
         /\ \A i \in Inodes, j \in Positions :
              PtrAt(i, j)' = fr.got \/ PtrAt(i, j)' = PtrAt(i, j)
  <1>. USE DEF MakingLabels, FileLabels, MappedLabels, EarlyLabels, DirLabels,
               BuiltLabels, NamingLabels, PendingLabels
  <1>0. pc = "grow" /\ UNCHANGED <<fr, blk, inode_bitmap, block_bitmap>>
    BY DEF GrowInode
  <1>1. /\ MakingNode /\ MakingBlocks /\ PendingBlock /\ Built
        /\ inode_table[fr.inum] = fr.node
        /\ \E c \in Direct : inode_table[fr.parent].block[c] = 0
    BY <1>0, GoodHere DEF GoodAt, Meta
  <1>2. PICK d, g, i0 : d = fr.parent /\ g = fr.got /\ i0 = fr.inum
    OBVIOUS
  <1>3. /\ d \in Inodes /\ IsNamed(d) /\ inode_table[d].mode = "dir"
        /\ i0 \in Inodes /\ ~IsNamed(i0) /\ i0 # d
    BY <1>1, <1>2 DEF MakingNode, ParentGood, DirOf, TypeOK
  <1>4. /\ g \in Blocks /\ g # 0 /\ blk[g].kind # "dir"
        /\ g \in block_bitmap /\ g >= ROOT_DIR_BLOCK_LBA /\ ~Owned(g)
    BY <1>1, <1>2, GotBlock DEF Private
  <1>5. PICK c : c = Cardinality(DirBlocks(d))
    OBVIOUS
  <1>6. /\ c \in Direct /\ inode_table[d].block[c] = 0
        /\ \A q \in 0 .. c - 1 : inode_table[d].block[q] # 0
    BY <1>1, <1>2, <1>3, <1>5, FirstFreePointer
  <1>7. inode_table' = [inode_table EXCEPT ![d].block[c] = g, ![d].size = @ + 1]
    BY <1>2, <1>5 DEF GrowInode
  <1>8. inode_table \in [Inodes -> Inode] /\ inode_table[d] \in Inode
    BY <1>3 DEF TypeOK
  <1>9. /\ inode_table'[d].mode = inode_table[d].mode
        /\ inode_table'[d].block = [inode_table[d].block EXCEPT ![c] = g]
        /\ \A i \in Inodes : i # d => inode_table'[i] = inode_table[i]
    BY <1>3, <1>7, <1>8 DEF Inode
  <1>10. \A i \in Inodes : inode_table'[i].mode = inode_table[i].mode
    BY <1>9
  <1>11. inode_table[d].block \in [0 .. NDirect -> Blocks]
    BY <1>3, DiskParts
  <1>12. \A i \in Inodes, j \in 0 .. NDirect :
           inode_table'[i].block[j] = IF i = d /\ j = c THEN g ELSE inode_table[i].block[j]
    <2>1. \A j \in 0 .. NDirect :
            inode_table'[d].block[j] = IF j = c THEN g ELSE inode_table[d].block[j]
      BY <1>9, <1>11
    <2>. QED  BY <1>9, <2>1
  <1>13. c \in 0 .. NDirect /\ c # NDirect /\ c <= NDirect /\ c \in Nat /\ c \in Positions
    BY <1>6, PositionFacts DEF Direct, Positions
  <1>14. \A i \in Inodes, j \in Positions :
           PtrAt(i, j)' = IF i = d /\ j = c THEN g ELSE PtrAt(i, j)
    <2>. SUFFICES ASSUME NEW i \in Inodes, NEW j \in Positions
                  PROVE  PtrAt(i, j)' = IF i = d /\ j = c THEN g ELSE PtrAt(i, j)
      OBVIOUS
    <2>1. inode_table'[i].block[NDirect] = inode_table[i].block[NDirect]
      BY <1>12, <1>13, PositionFacts
    <2>2. CASE j <= NDirect
      <3>1. j \in 0 .. NDirect
        BY <2>2, PositionFacts DEF Positions
      <3>. QED  BY <1>12, <2>2, <3>1 DEF PtrAt
    <2>3. CASE ~(j <= NDirect)
      BY <1>0, <1>13, <2>1, <2>3 DEF PtrAt
    <2>. QED  BY <2>2, <2>3
  <1>15. \A b \in Blocks : Ents(b)' = Ents(b)
    BY <1>0 DEF Ents
  <1>16. \A i : IsNamed(i)' <=> IsNamed(i)
    BY <1>15 DEF IsNamed
  <1>17. \A b : Owned(b)' => Owned(b) \/ b = g
    <2>. SUFFICES ASSUME NEW b, Owned(b)', b # g PROVE Owned(b)
      OBVIOUS
    <2>1. PICK i \in Inodes : IsNamed(i)' /\ \E j \in Positions : PtrAt(i, j)' = b
      BY DEF Owned
    <2>2. PICK j \in Positions : PtrAt(i, j)' = b
      BY <2>1
    <2>3. PtrAt(i, j) = b /\ IsNamed(i)
      BY <1>14, <1>16, <2>1, <2>2
    <2>. QED  BY <2>3 DEF Owned
  <1>18. OneName' /\ NamesUsed'
    <2>1. OneName'
      BY <1>15 DEF WellFormed, OneName
    <2>2. \A b \in Blocks : \A k \in DOMAIN Ents(b) : Naming(Ents(b)[k]) => Ents(b)[k].inode \in Inodes
      BY NamingType
    <2>3. NamesUsed'
      BY <1>0, <1>10, <1>15, <2>2, LayoutFacts DEF WellFormed, NamesUsed
    <2>. QED  BY <2>1, <2>3
  <1>19. BlocksUsed'
    BY <1>0, <1>4, <1>17 DEF WellFormed, BlocksUsed
  <1>20. OneOwner'
    <2>. SUFFICES ASSUME NEW i \in Inodes, NEW j \in Inodes, IsNamed(i)', IsNamed(j)',
                         NEW p \in Positions, NEW q \in Positions,
                         PtrAt(i, p)' # 0, PtrAt(i, p)' = PtrAt(j, q)'
                  PROVE  i = j /\ p = q
      BY DEF OneOwner
    <2>1. IsNamed(i) /\ IsNamed(j)
      BY <1>16
    <2>2. PtrAt(i, p) # g /\ PtrAt(j, q) # g
      BY <1>4, <2>1 DEF Owned
    <2>3. CASE ~(i = d /\ p = c) /\ ~(j = d /\ q = c)
      BY <1>14, <2>1, <2>3 DEF WellFormed, OneOwner
    <2>4. CASE ~(i = d /\ p = c) /\ (j = d /\ q = c)
      BY <1>14, <2>2, <2>4
    <2>5. CASE (i = d /\ p = c) /\ ~(j = d /\ q = c)
      BY <1>14, <2>2, <2>5
    <2>. QED  BY <2>3, <2>4, <2>5
  <1>21. \A x \in Inodes : DirOf(x)' <=> DirOf(x)
    BY <1>10, <1>16 DEF DirOf
  <1>22. Direct \subseteq 0 .. NDirect /\ \A p \in Direct : 0 .. p \subseteq 0 .. NDirect
    BY LayoutFacts DEF Direct
  <1>23. NoHoles'
    <2>. SUFFICES ASSUME NEW x \in Inodes, DirOf(x)', NEW p \in Direct,
                         inode_table'[x].block[p] # 0, NEW q \in 0 .. p
                  PROVE  inode_table'[x].block[q] # 0
      BY DEF NoHoles
    <2>1. DirOf(x) /\ p \in 0 .. NDirect /\ q \in 0 .. NDirect
      BY <1>21, <1>22
    <2>2. CASE x = d /\ p = c
      <3>1. q = c \/ q \in 0 .. c - 1
        BY <1>13, <2>2
      <3>. QED  BY <1>4, <1>6, <1>12, <2>1, <2>2, <3>1
    <2>3. CASE ~(x = d /\ p = c)
      <3>1. inode_table[x].block[p] # 0
        BY <1>12, <2>1, <2>3
      <3>2. inode_table[x].block[q] # 0
        BY <2>1, <3>1 DEF WellFormed, NoHoles
      <3>. QED  BY <1>4, <1>12, <2>1, <3>2
    <2>. QED  BY <2>2, <2>3
  <1>24. Ents(g)' = <<>>
    BY <1>0, <1>4 DEF Ents
  <1>25. OneEntry'
    <2>. SUFFICES ASSUME NEW x \in Inodes, NEW p \in Direct, NEW q \in Direct,
                         NEW b \in Blocks, NEW e \in Blocks,
                         NEW k \in DOMAIN Ents(b)', NEW l \in DOMAIN Ents(e)',
                         /\ DirOf(x)'
                         /\ b = inode_table'[x].block[p] /\ e = inode_table'[x].block[q]
                         /\ b # 0 /\ e # 0
                         /\ Naming(Ents(b)'[k]) /\ Naming(Ents(e)'[l])
                         /\ Ents(b)'[k].name = Ents(e)'[l].name
                  PROVE  p = q /\ k = l
      BY DEF OneEntry
    <2>1. b # g /\ e # g
      BY <1>24
    <2>2. b = inode_table[x].block[p] /\ e = inode_table[x].block[q]
      BY <1>12, <1>22, <2>1
    <2>. QED  BY <1>15, <1>21, <2>2 DEF WellFormed, OneEntry
  <1>26. WellFormed'
    BY <1>18, <1>19, <1>20, <1>23, <1>25 DEF WellFormed
  <1>27. NameFree'
    <2>. SUFFICES ASSUME NEW p \in Direct, NEW b \in Blocks,
                         b = inode_table'[d].block[p], b # 0,
                         NEW k \in DOMAIN Ents(b)', Naming(Ents(b)'[k])
                  PROVE  Ents(b)'[k].name # fr.name
      BY <1>0, <1>2 DEF NameFree
    <2>1. b # g
      BY <1>24
    <2>2. b = inode_table[d].block[p]
      BY <1>3, <1>12, <1>22, <2>1
    <2>. QED  BY <1>1, <1>2, <1>15, <2>2 DEF MakingNode, NameFree
  <1>28. MakingNode'
    <2>1. \A x : x = fr'.parent => DirOf(x)' /\ x \in Inodes
      BY <1>0, <1>1, <1>21 DEF MakingNode, ParentGood
    <2>2. ParentGood'
      BY <2>1 DEF ParentGood
    <2>3. \A x : x = fr'.inum => ~IsNamed(x)'
      BY <1>0, <1>2, <1>3, <1>16
    <2>4. ~IsNamed(fr.inum)'
      BY <2>3 DEF IsNamed
    <2>. QED  BY <1>0, <1>1, <1>27, <2>2, <2>4 DEF MakingNode, FrType
  <1>29. MakingBlocks'
    <2>1. \A j : Held(j)' = Held(j)
      BY <1>0 DEF Held
    <2>2. \A j \in Positions : (Held(j) # 0 => Private(Held(j)))'
      <3>. SUFFICES ASSUME NEW j \in Positions, Held(j)' # 0 PROVE Private(Held(j))'
        OBVIOUS
      <3>1. PICK b : b = Held(j)
        OBVIOUS
      <3>2. Private(b) /\ b # g
        BY <1>1, <1>2, <2>1, <3>1 DEF MakingBlocks, PendingBlock
      <3>3. Private(b)'
        BY <1>0, <1>17, <3>2 DEF Private
      <3>. QED  BY <2>1, <3>1, <3>3 DEF Private, Owned
    <2>. QED  BY <1>0, <1>1, <2>1, <2>2 DEF MakingBlocks
  <1>30. GoodAt("grow_block")'
    <2>1. Built' /\ inode_table'[fr'.inum] = fr'.node
      BY <1>0, <1>1, <1>2, <1>3, <1>9, BuiltKept
    <2>2. GrownBlock'
      <3>1. inode_table'[d].block[c] = g
        BY <1>3, <1>12, <1>13
      <3>. QED  BY <1>0, <1>2, <1>4, <1>6, <3>1 DEF GrownBlock
    <2>. QED  BY <1>28, <1>29, <2>1, <2>2 DEF GoodAt
  <1>31. CallGood'
    BY <1>30, GoodNext DEF GrowInode, Goto, CallLabels
  <1>. QED  BY <1>2, <1>10, <1>14, <1>16, <1>26, <1>31

-----------------------------------------------------------------------------
(* delete.                                                                  *)

(* What deallocate_node frees are the blocks the inode points at.           *)
LEMMA BlocksOfMap ==
  ASSUME TypeOK, NEW i \in Inodes, NEW n \in DOMAIN BlocksOf(inode_table[i]),
         BlocksOf(inode_table[i])[n] # 0
  PROVE  \E j \in Positions : PtrAt(i, j) = BlocksOf(inode_table[i])[n]
  <1>. DEFINE node == inode_table[i]
              ind == node.block[NDirect]
              ptr == IF blk[ind].kind = "table" THEN blk[ind].ptr ELSE NoPointers
              a == [m \in 1 .. NDirect |-> node.block[m - 1]]
              b == [m \in 1 .. NIndirect |-> ptr[m - 1]]
              c == IF ind = 0 THEN <<>> ELSE b \o <<ind>>
  <1>1. node.block \in [0 .. NDirect -> Blocks] /\ NDirect \in Nat /\ NIndirect \in Nat
    BY DiskParts, LayoutFacts
  <1>2. ind \in Blocks
    BY <1>1
  <1>3. ptr \in [0 .. NIndirect - 1 -> Blocks]
    <2>1. blk[ind] \in Content
      BY <1>2 DEF TypeOK
    <2>2. NoPointers \in [0 .. NIndirect - 1 -> Blocks]
      BY LayoutFacts DEF NoPointers
    <2>. HIDE DEF ind
    <2>. QED  BY <2>1, <2>2, ContentParts
  <1>4. /\ PtrAt(i, NDirect) = ind
        /\ \A m \in 1 .. NDirect : m - 1 \in Positions /\ PtrAt(i, m - 1) = node.block[m - 1]
        /\ \A m \in 1 .. NIndirect : ind # 0 /\ blk[ind].kind = "table" =>
             NDirect + m \in Positions /\ PtrAt(i, NDirect + m) = blk[ind].ptr[m - 1]
    <2>1. PtrAt(i, NDirect) = ind
      BY <1>1 DEF PtrAt
    <2>2. ASSUME NEW m \in 1 .. NDirect
          PROVE  m - 1 \in Positions /\ PtrAt(i, m - 1) = node.block[m - 1]
      <3>1. m - 1 \in Positions /\ m - 1 <= NDirect
        BY <1>1 DEF Positions
      <3>. QED  BY <3>1 DEF PtrAt
    <2>3. ASSUME NEW m \in 1 .. NIndirect, ind # 0 /\ blk[ind].kind = "table"
          PROVE  NDirect + m \in Positions /\ PtrAt(i, NDirect + m) = blk[ind].ptr[m - 1]
      <3>1. PICK j : j = NDirect + m
        OBVIOUS
      <3>2. j \in Positions /\ ~(j <= NDirect) /\ j - NDirect - 1 = m - 1
        BY <1>1, <3>1 DEF Positions
      <3>3. PtrAt(i, j) = blk[ind].ptr[j - NDirect - 1]
        BY <2>3, <3>2 DEF PtrAt
      <3>. QED  BY <3>1, <3>2, <3>3
    <2>. QED  BY <2>1, <2>2, <2>3
  <1>5. BlocksOf(node) = a \o c
    BY DEF BlocksOf
  <1>6. \A m \in 0 .. NIndirect - 1 : ptr[m] # 0 => blk[ind].kind = "table" /\ ptr[m] = blk[ind].ptr[m]
    BY DEF NoPointers
  <1>. HIDE DEF ptr, ind
  <1>7. a \in Seq(Blocks) /\ Len(a) = NDirect /\ \A m \in 1 .. NDirect : a[m] = node.block[m - 1]
    BY <1>1, IsASeq
  <1>8. b \in Seq(Blocks) /\ Len(b) = NIndirect /\ \A m \in 1 .. NIndirect : b[m] = ptr[m - 1]
    BY <1>1, <1>3, IsASeq
  <1>. HIDE DEF a, b
  <1>9. /\ c \in Seq(Blocks)
        /\ \A m \in 1 .. Len(c) : ind # 0 /\ c[m] \in {ind} \cup {b[l] : l \in 1 .. NIndirect}
    <2>1. CASE ind = 0
      BY <2>1
    <2>2. CASE ind # 0
      <3>1. <<ind>> \in Seq(Blocks) /\ Len(<<ind>>) = 1 /\ <<ind>>[1] = ind
        BY <1>2
      <3>2. /\ c \in Seq(Blocks) /\ Len(c) = NIndirect + 1
            /\ \A m \in 1 .. NIndirect + 1 : c[m] = IF m <= NIndirect THEN b[m] ELSE <<ind>>[m - NIndirect]
        BY <1>8, <2>2, <3>1, ConcatProperties
      <3>3. ASSUME NEW m \in 1 .. NIndirect + 1
            PROVE  c[m] \in {ind} \cup {b[l] : l \in 1 .. NIndirect}
        <4>1. CASE m <= NIndirect
          <5>1. m \in 1 .. NIndirect /\ c[m] = b[m]
            BY <1>1, <3>2, <4>1
          <5>. QED  BY <5>1
        <4>2. CASE ~(m <= NIndirect)
          <5>1. m - NIndirect = 1
            BY <1>1, <4>2
          <5>. QED  BY <3>1, <3>2, <4>2, <5>1
        <4>. QED  BY <4>1, <4>2
      <3>. QED  BY <2>2, <3>2, <3>3
    <2>. QED  BY <2>1, <2>2
  <1>. HIDE DEF c
  <1>10. /\ Len(a \o c) = NDirect + Len(c) /\ a \o c \in Seq(Blocks) /\ Len(c) \in Nat
         /\ \A m \in 1 .. NDirect + Len(c) : (a \o c)[m] = IF m <= NDirect THEN a[m] ELSE c[m - NDirect]
    <2>1. a \in Seq(Blocks) /\ c \in Seq(Blocks) /\ Len(a) = NDirect
      BY <1>7, <1>9
    <2>2. /\ a \o c \in Seq(Blocks) /\ Len(a \o c) = Len(a) + Len(c)
          /\ \A m \in 1 .. Len(a) + Len(c) :
               (a \o c)[m] = IF m <= Len(a) THEN a[m] ELSE c[m - Len(a)]
      BY <2>1, ConcatProperties
    <2>. QED  BY <2>1, <2>2
  <1>11. n \in 1 .. NDirect + Len(c)
    BY <1>5, <1>10
  <1>12. CASE n <= NDirect
    <2>1. n \in 1 .. NDirect /\ BlocksOf(node)[n] = node.block[n - 1]
      BY <1>1, <1>5, <1>7, <1>10, <1>11, <1>12
    <2>. QED  BY <1>4, <2>1
  <1>13. CASE ~(n <= NDirect)
    <2>1. n - NDirect \in 1 .. Len(c) /\ BlocksOf(node)[n] = c[n - NDirect]
      BY <1>1, <1>5, <1>10, <1>11, <1>13
    <2>2. ind # 0 /\ BlocksOf(node)[n] \in {ind} \cup {b[l] : l \in 1 .. NIndirect}
      BY <1>9, <2>1
    <2>3. CASE BlocksOf(node)[n] = ind
      BY <1>4, <2>3, PositionFacts
    <2>4. CASE BlocksOf(node)[n] \in {b[l] : l \in 1 .. NIndirect}
      <3>1. PICK l \in 1 .. NIndirect : BlocksOf(node)[n] = ptr[l - 1]
        BY <1>8, <2>4
      <3>2. l - 1 \in 0 .. NIndirect - 1
        BY <1>1
      <3>3. blk[ind].kind = "table" /\ ptr[l - 1] = blk[ind].ptr[l - 1]
        BY <1>6, <3>1, <3>2
      <3>. QED  BY <1>4, <2>2, <3>1, <3>3
    <2>. QED  BY <2>2, <2>3, <2>4
  <1>. QED  BY <1>12, <1>13

(* remove_entry_from_dir, and deallocate_node's list of what to free.       *)
LEMMA UnlinkTree ==
  ASSUME Orderly, TypeOK, TypeOK', WellFormed, CallGood, Unlink
  PROVE  WellFormed' /\ CallGood' /\ NamesKept /\ MapsKept
  <1>. USE DEF MakingLabels, FileLabels, MappedLabels, EarlyLabels, DirLabels,
               BuiltLabels, NamingLabels, PendingLabels
  <1>0. /\ pc = "delete" /\ pc' = "free" /\ fr.parent # 0
        /\ UNCHANGED <<inode_table, inode_bitmap, block_bitmap>>
    BY DEF Unlink, Goto
  <1>1. fr.name \notin Dots /\ fr.parent \in Inodes /\ IsNamed(fr.parent)
    BY <1>0, GoodHere DEF GoodAt, Meta, ParentGood, DirOf, Orderly
  <1>2. PICK s \in First(find_entry_in_dir(fr.parent, fr.name)) :
          /\ LET b == inode_table[fr.parent].block[s[1]] IN
             blk' = [blk EXCEPT ![b] = DirBlock(RemoveEntry(Ents(b), s[2]))]
          /\ fr' = [fr EXCEPT !.inum = Target(s),
                              !.todo = BlocksOf(inode_table[Target(s)])]
    BY DEF Unlink
  <1>3. /\ s \in Slots(fr.parent)
        /\ At(fr.parent, s).inode # 0 /\ At(fr.parent, s).name = fr.name
    BY DEF First, find_entry_in_dir
  <1>4. PICK p \in DirBlocks(fr.parent) : \E k \in DOMAIN DirEnts(fr.parent, p) : s = <<p, k>>
    BY <1>3 DEF Slots
  <1>5. PICK k \in DOMAIN DirEnts(fr.parent, p) : s = <<p, k>>
    BY <1>4
  <1>6. PICK b : b = inode_table[fr.parent].block[p]
    OBVIOUS
  <1>7. p \in Direct /\ b # 0
    BY <1>6 DEF DirBlocks, Direct
  <1>8. b \in Blocks
    <2>1. inode_table[fr.parent].block \in [0 .. NDirect -> Blocks]
      BY <1>1, DiskParts
    <2>2. p \in 0 .. NDirect
      BY <1>7, LayoutFacts DEF Direct
    <2>. QED  BY <1>6, <2>1, <2>2
  <1>9. Ents(b) \in Seq(Entry) /\ k \in DOMAIN Ents(b)
    BY <1>5, <1>6, <1>8, DiskParts DEF DirEnts
  <1>10. PICK t : t = Ents(b)[k].inode
    OBVIOUS
  <1>11. s[1] = p /\ s[2] = k /\ Target(s) = t /\ Naming(Ents(b)[k])
    <2>1. s[1] = p /\ s[2] = k
      BY <1>5
    <2>2. At(fr.parent, s) = Ents(b)[k]
      BY <1>6, <2>1 DEF At, DirEnts
    <2>. QED  BY <1>1, <1>3, <1>10, <2>1, <2>2 DEF Target, Naming
  <1>12. t \in Inodes /\ IsNamed(t) /\ t \in inode_bitmap /\ t # ROOT_INODE_NO
    BY <1>8, <1>9, <1>10, <1>11, NamingType DEF WellFormed, NamesUsed
  <1>13. PICK new : new = RemoveEntry(Ents(b), k)
    OBVIOUS
  <1>14. blk' = [blk EXCEPT ![b] = DirBlock(new)]
    BY <1>2, <1>6, <1>11, <1>13
  <1>15. fr'.inum = t /\ fr'.todo = BlocksOf(inode_table[t])
    <2>1. fr \in Frame
      BY DEF TypeOK
    <2>. QED  BY <1>2, <1>11, <2>1 DEF Frame
  <1>16. /\ Ents(b)' = new
         /\ \A c \in Blocks : c # b => Ents(c)' = Ents(c) /\ blk'[c] = blk[c]
    BY <1>8, <1>14 DEF Ents, DirBlock, TypeOK
  <1>17. /\ k \in Nat /\ k >= 1 /\ k <= Len(Ents(b)) /\ Len(Ents(b)) \in Nat
         /\ DOMAIN Ents(b) = 1 .. Len(Ents(b))
    BY <1>9
  (* Where each record was.                                                 *)
  <1>. DEFINE h == [c \in Blocks |->
                      [m \in Nat |-> IF c = b /\ k # 1 /\ m >= k THEN m + 1 ELSE m]]
  <1>18. h \in [Blocks -> [Nat -> Nat]]
    OBVIOUS
  <1>19. /\ \A c \in Blocks, m \in Nat : c # b \/ k = 1 => h[c][m] = m
         /\ \A m \in Nat : k # 1 => h[b][m] = IF m >= k THEN m + 1 ELSE m
    BY <1>8
  <1>. HIDE DEF h
  <1>20. ASSUME NEW c \in Blocks, NEW m \in DOMAIN Ents(c)', Naming(Ents(c)'[m])
         PROVE  /\ m \in Nat
                /\ h[c][m] \in DOMAIN Ents(c) /\ Alike(Ents(c)'[m], Ents(c)[h[c][m]])
                /\ c = b => h[c][m] # k
    <2>1. CASE c # b
      <3>1. Ents(c)' = Ents(c) /\ Ents(c) \in Seq(Entry)
        BY <1>16, <2>1, DiskParts
      <3>2. m \in Nat
        BY <3>1
      <3>. QED  BY <1>19, <2>1, <3>1, <3>2 DEF Alike
    <2>2. CASE c = b /\ k = 1
      <3>1. DOMAIN new = 1 .. Len(Ents(b))
        BY <1>9, <1>13, <2>2, RemoveShape
      <3>2. new[1].inode = 0
        BY <1>9, <1>13, <2>2, RemoveShape
      <3>3. \A i \in 2 .. Len(Ents(b)) : new[i] = Ents(b)[i]
        BY <1>9, <1>13, <2>2, RemoveShape
      <3>4. m # 1
        BY <1>16, <1>20, <2>2, <3>2 DEF Naming
      <3>5. m \in 2 .. Len(Ents(b)) /\ m \in Nat /\ m \in DOMAIN Ents(b)
        BY <1>16, <1>17, <2>2, <3>1, <3>4
      <3>. QED  BY <1>16, <1>19, <2>2, <3>3, <3>4, <3>5 DEF Alike
    <2>3. CASE c = b /\ k # 1
      <3>1. DOMAIN new = 1 .. Len(Ents(b)) - 1
        BY <1>9, <1>13, <2>3, RemoveShape
      <3>2. \A i \in 1 .. k - 2 : new[i] = Ents(b)[i]
        BY <1>9, <1>13, <2>3, RemoveShape
      <3>3. Alike(new[k - 1], Ents(b)[k - 1])
        BY <1>9, <1>13, <2>3, RemoveShape
      <3>4. \A i \in k .. Len(Ents(b)) - 1 : new[i] = Ents(b)[i + 1]
        BY <1>9, <1>13, <2>3, RemoveShape
      <3>5. m \in 1 .. Len(Ents(b)) - 1 /\ m \in Nat
        BY <1>16, <1>17, <2>3, <3>1
      <3>6. CASE m < k - 1
        <4>1. m \in 1 .. k - 2 /\ ~(m >= k) /\ m \in DOMAIN Ents(b) /\ m # k
          BY <1>17, <3>5, <3>6
        <4>2. h[b][m] = m
          BY <1>19, <2>3, <3>5, <4>1
        <4>. QED  BY <1>16, <2>3, <3>2, <3>5, <4>1, <4>2 DEF Alike
      <3>7. CASE m = k - 1
        <4>1. ~(m >= k) /\ m \in DOMAIN Ents(b) /\ m # k
          BY <1>17, <3>5, <3>7
        <4>2. h[b][m] = m
          BY <1>19, <2>3, <3>5, <4>1
        <4>. QED  BY <1>16, <2>3, <3>3, <3>5, <3>7, <4>1, <4>2
      <3>8. CASE m >= k
        <4>1. m \in k .. Len(Ents(b)) - 1 /\ m + 1 \in DOMAIN Ents(b) /\ m + 1 # k
          BY <1>17, <3>5, <3>8
        <4>2. h[b][m] = m + 1
          BY <1>19, <2>3, <3>5, <3>8
        <4>. QED  BY <1>16, <2>3, <3>4, <3>5, <4>1, <4>2 DEF Alike
      <3>. QED  BY <1>17, <3>5, <3>6, <3>7, <3>8
    <2>. QED  BY <2>1, <2>2, <2>3
  <1>21. NamesKept
    <2>1. ASSUME NEW c \in Blocks, NEW m \in Nat, NEW l \in Nat, h[c][m] = h[c][l]
          PROVE  m = l
      <3>1. CASE c # b \/ k = 1
        BY <1>19, <2>1, <3>1
      <3>2. CASE c = b /\ k # 1
        <4>1. /\ h[c][m] = IF m >= k THEN m + 1 ELSE m
              /\ h[c][l] = IF l >= k THEN l + 1 ELSE l
          BY <1>19, <3>2
        <4>2. (IF m >= k THEN m + 1 ELSE m) = (IF l >= k THEN l + 1 ELSE l)
          BY <2>1, <4>1
        <4>. QED  BY <1>17, <4>2
      <3>. QED  BY <3>1, <3>2
    <2>. QED  BY <1>18, <1>20, <2>1 DEF NamesKept
  <1>22. \A i : IsNamed(i)' => IsNamed(i)
    BY <1>21, FewerNamed
  <1>23. p \in Positions /\ p <= NDirect /\ p # NDirect /\ PtrAt(fr.parent, p) = b
    <2>1. p \in Positions /\ p <= NDirect /\ p # NDirect
      BY <1>7, PositionFacts DEF Direct, Positions
    <2>. QED  BY <1>6, <2>1 DEF PtrAt
  <1>24. MapsKept
    <2>. SUFFICES ASSUME NEW i \in Inodes, IsNamed(i)', NEW j \in Positions
                  PROVE  PtrAt(i, j)' = PtrAt(i, j)
      BY <1>0 DEF MapsKept
    <2>1. PICK ind : ind = inode_table[i].block[NDirect]
      OBVIOUS
    <2>2. PtrAt(i, NDirect) = ind
      BY <2>1, PositionFacts DEF PtrAt
    <2>3. ind \in Blocks
      BY <2>2, PtrType, PositionFacts
    <2>4. ind # b
      BY <1>1, <1>7, <1>22, <1>23, <2>2, PositionFacts DEF WellFormed, OneOwner
    <2>5. blk'[ind] = blk[ind]
      BY <1>16, <2>3, <2>4
    <2>. QED  BY <1>0, <2>1, <2>5 DEF PtrAt
  <1>25. BitsKept
    <2>1. blk[b].kind = "dir"
      BY <1>9 DEF Ents
    <2>. QED  BY <1>0, <1>16, <2>1 DEF BitsKept
  <1>26. WellFormed'
    BY <1>21, <1>24, <1>25, TreeKept
  <1>27. ~IsNamed(t)'
    <2>. SUFFICES ASSUME IsNamed(t)' PROVE FALSE
      OBVIOUS
    <2>1. PICK c \in Blocks : \E m \in DOMAIN Ents(c)' :
            Naming(Ents(c)'[m]) /\ Ents(c)'[m].inode = t
      BY <1>12 DEF IsNamed
    <2>2. PICK m \in DOMAIN Ents(c)' : Naming(Ents(c)'[m]) /\ Ents(c)'[m].inode = t
      BY <2>1
    <2>3. /\ h[c][m] \in DOMAIN Ents(c) /\ Naming(Ents(c)[h[c][m]])
          /\ Ents(c)[h[c][m]].inode = t /\ (c = b => h[c][m] # k)
      BY <1>20, <2>2 DEF Alike, Naming
    <2>. QED  BY <1>8, <1>9, <1>10, <1>11, <2>3 DEF WellFormed, OneName
  <1>28. Removing'
    BY <1>0, <1>12, <1>15, <1>27 DEF Removing, IsNamed
  <1>29. ASSUME NEW n \in DOMAIN BlocksOf(inode_table[t]), BlocksOf(inode_table[t])[n] # 0
         PROVE  /\ BlocksOf(inode_table[t])[n] >= ROOT_DIR_BLOCK_LBA
                /\ \A x : x = BlocksOf(inode_table[t])[n] => ~Owned(x)'
    <2>1. PICK j \in Positions : PtrAt(t, j) = BlocksOf(inode_table[t])[n]
      BY <1>12, <1>29, BlocksOfMap
    <2>2. PICK x : x = PtrAt(t, j)
      OBVIOUS
    <2>3. x \in Blocks /\ x # 0 /\ Owned(x)
      BY <1>12, <1>29, <2>1, <2>2, PtrType DEF Owned
    <2>4. x >= ROOT_DIR_BLOCK_LBA
      BY <2>3 DEF WellFormed, BlocksUsed
    <2>5. ~Owned(x)'
      <3>. SUFFICES ASSUME Owned(x)' PROVE FALSE
        OBVIOUS
      <3>1. PICK i \in Inodes : IsNamed(i)' /\ \E q \in Positions : PtrAt(i, q)' = x
        BY DEF Owned
      <3>2. PICK q \in Positions : PtrAt(i, q)' = x
        BY <3>1
      <3>3. IsNamed(i) /\ PtrAt(i, q) = x
        BY <1>22, <1>24, <3>1, <3>2 DEF MapsKept
      <3>4. i = t
        BY <1>12, <2>2, <2>3, <3>3 DEF WellFormed, OneOwner
      <3>. QED  BY <1>27, <3>1, <3>4
    <2>. QED  BY <2>1, <2>2, <2>4, <2>5
  <1>30. Doomed'
    <2>. SUFFICES ASSUME NEW n \in DOMAIN fr'.todo, fr'.todo[n] # 0
                  PROVE  fr'.todo[n] >= ROOT_DIR_BLOCK_LBA /\ ~Owned(fr.todo[n])'
      BY DEF Doomed
    <2>1. PICK x : x = fr'.todo[n]
      OBVIOUS
    <2>2. x >= ROOT_DIR_BLOCK_LBA /\ ~Owned(x)'
      BY <1>15, <1>29, <2>1
    <2>. QED  BY <2>1, <2>2 DEF Owned
  <1>31. GoodAt("free")'
    BY <1>28, <1>30 DEF GoodAt
  <1>32. CallGood'
    BY <1>0, <1>31, GoodNext DEF CallLabels
  <1>. QED  BY <1>21, <1>24, <1>26, <1>32

(* A step that gives no name.                                               *)
LEMMA NoNewNames ==
  ASSUME TypeOK, \A b \in Blocks : Ents(b)' = Ents(b) \/ Ents(b)' = <<>>
  PROVE  NamesKept
  <1>. DEFINE h == [b \in Blocks |-> [n \in Nat |-> n]]
  <1>1. h \in [Blocks -> [Nat -> Nat]] /\ \A b \in Blocks, k \in Nat : h[b][k] = k
    OBVIOUS
  <1>. HIDE DEF h
  <1>2. ASSUME NEW b \in Blocks, NEW k \in DOMAIN Ents(b)'
        PROVE  /\ h[b][k] = k
               /\ h[b][k] \in DOMAIN Ents(b) /\ Alike(Ents(b)'[k], Ents(b)[h[b][k]])
    <2>1. Ents(b)' = Ents(b) /\ Ents(b) \in Seq(Entry)
      BY <1>2, DiskParts
    <2>2. k \in Nat
      BY <2>1
    <2>. QED  BY <1>1, <2>1, <2>2 DEF Alike
  <1>. QED  BY <1>1, <1>2 DEF NamesKept

(* deallocate_single_block.                                                 *)
LEMMA FreeBlockTree ==
  ASSUME TypeOK, TypeOK', WellFormed, CallGood, FreeBlock
  PROVE  WellFormed' /\ CallGood' /\ NamesKept /\ MapsKept
  <1>. USE DEF MakingLabels, FileLabels, MappedLabels, EarlyLabels, DirLabels,
               BuiltLabels, NamingLabels, PendingLabels
  <1>0. /\ pc = "free" /\ fr.todo # <<>> /\ UNCHANGED <<inode_table, inode_bitmap>>
        /\ fr'.todo = Tail(fr.todo) /\ fr'.inum = fr.inum
    <2>1. fr \in Frame
      BY DEF TypeOK
    <2>. QED  BY <2>1 DEF FreeBlock, Frame
  <1>1. Removing /\ Doomed
    BY <1>0, GoodHere DEF GoodAt, Meta
  <1>2. PICK x : x = Head(fr.todo)
    OBVIOUS
  <1>3. /\ x \in Blocks /\ (x # 0 => x >= ROOT_DIR_BLOCK_LBA /\ ~Owned(x))
        /\ \A n \in DOMAIN Tail(fr.todo) :
             n + 1 \in DOMAIN fr.todo /\ Tail(fr.todo)[n] = fr.todo[n + 1]
    <2>1. fr.todo \in Seq(Blocks)
      BY FrameParts
    <2>2. 1 \in DOMAIN fr.todo /\ x = fr.todo[1] /\ x \in Blocks
      BY <1>0, <1>2, <2>1
    <2>3. \A n \in DOMAIN Tail(fr.todo) :
             n + 1 \in DOMAIN fr.todo /\ Tail(fr.todo)[n] = fr.todo[n + 1]
      BY <1>0, <2>1
    <2>. QED  BY <1>1, <2>2, <2>3 DEF Doomed
  <1>4. /\ NamesKept /\ MapsKept /\ BitsKept
        /\ (pc' \in Meta /\ fr'.back = "free") \/ pc' = "free"
    <2>1. CASE x # 0 /\ x \in block_bitmap
      <3>1. /\ block_bitmap' = block_bitmap \ {x} /\ blk' = [blk EXCEPT ![x] = Stale]
            /\ pc' \in Meta /\ fr'.back = "free"
        <4>1. fr \in Frame
          BY DEF TypeOK
        <4>. QED  BY <1>2, <2>1, <4>1 DEF FreeBlock, Goto, Meta, Frame
      <3>2. \A b \in Blocks : blk'[b] = IF b = x THEN Stale ELSE blk[b]
        BY <3>1 DEF TypeOK
      <3>3. Stale.kind # "dir"
        BY DEF Stale
      <3>4. \A b \in Blocks : Ents(b)' = Ents(b) \/ Ents(b)' = <<>>
        BY <3>2, <3>3 DEF Ents
      <3>5. NamesKept
        BY <3>4, NoNewNames
      <3>6. MapsKept
        <4>. SUFFICES ASSUME NEW i \in Inodes, IsNamed(i)', NEW j \in Positions
                      PROVE  PtrAt(i, j)' = PtrAt(i, j)
          BY <1>0 DEF MapsKept
        <4>1. PICK ind : ind = inode_table[i].block[NDirect]
          OBVIOUS
        <4>2. PtrAt(i, NDirect) = ind
          BY <4>1, PositionFacts DEF PtrAt
        <4>3. ind \in Blocks /\ IsNamed(i)
          BY <3>5, <4>2, PtrType, PositionFacts, FewerNamed
        <4>4. ind # x
          BY <1>3, <2>1, <4>2, <4>3, PositionFacts DEF Owned
        <4>5. blk'[ind] = blk[ind]
          BY <3>2, <4>3, <4>4
        <4>. QED  BY <1>0, <4>1, <4>5 DEF PtrAt
      <3>7. BitsKept
        <4>1. blk'[x].kind # "dir"
          BY <1>3, <3>2, <3>3
        <4>. QED  BY <1>0, <1>3, <2>1, <3>1, <3>2, <3>3, <4>1 DEF BitsKept
      <3>. QED  BY <3>1, <3>5, <3>6, <3>7
    <2>2. CASE ~(x # 0 /\ x \in block_bitmap)
      <3>1. UNCHANGED <<block_bitmap, blk, pc>>
        BY <1>2, <2>2 DEF FreeBlock
      <3>2. NamesKept
        BY <3>1, NoNewNames DEF Ents
      <3>3. MapsKept /\ BitsKept
        BY <1>0, <3>1 DEF MapsKept, BitsKept, PtrAt
      <3>. QED  BY <1>0, <3>1, <3>2, <3>3
    <2>. QED  BY <2>1, <2>2
  <1>5. WellFormed'
    BY <1>4, TreeKept
  <1>6. /\ \A i : IsNamed(i)' => IsNamed(i)
        /\ \A b : Owned(b)' => Owned(b)
    BY <1>4, FewerNames
  <1>7. Removing'
    <2>1. \A i : i = fr'.inum => ~IsNamed(i)'
      BY <1>0, <1>1, <1>6 DEF Removing
    <2>2. ~IsNamed(fr.inum)'
      BY <2>1 DEF IsNamed
    <2>. QED  BY <1>0, <1>1, <2>2 DEF Removing
  <1>8. Doomed'
    <2>. SUFFICES ASSUME NEW n \in DOMAIN fr'.todo, fr'.todo[n] # 0
                  PROVE  fr'.todo[n] >= ROOT_DIR_BLOCK_LBA /\ ~Owned(fr.todo[n])'
      BY DEF Doomed
    <2>1. PICK y : y = fr'.todo[n]
      OBVIOUS
    <2>2. n + 1 \in DOMAIN fr.todo /\ y = fr.todo[n + 1]
      BY <1>0, <1>3, <2>1
    <2>3. y >= ROOT_DIR_BLOCK_LBA /\ ~Owned(y)'
      BY <1>1, <1>6, <2>1, <2>2 DEF Doomed
    <2>. QED  BY <2>1, <2>3 DEF Owned
  <1>9. GoodAt("free")'
    BY <1>7, <1>8 DEF GoodAt
  <1>10. CallGood'
    BY <1>4, <1>9, GoodNext, GoodAfter DEF CallLabels, Meta
  <1>. QED  BY <1>4, <1>5, <1>10

(* deallocate_node zeroes an inode that has lost its name.                  *)
LEMMA ClearInodeTree ==
  ASSUME TypeOK, TypeOK', WellFormed, CallGood, ClearInode
  PROVE  WellFormed' /\ CallGood' /\ SameTree
  <1>. USE DEF MakingLabels, FileLabels, MappedLabels, EarlyLabels, DirLabels,
               BuiltLabels, NamingLabels, PendingLabels
  <1>0. /\ pc = "free" /\ pc' = "clear_node"
        /\ UNCHANGED <<fr, blk, inode_bitmap, block_bitmap>>
        /\ inode_table' = [inode_table EXCEPT ![fr.inum] = ZeroInode]
    BY DEF ClearInode, Goto
  <1>1. Removing
    BY <1>0, GoodHere DEF GoodAt, Meta
  <1>2. SameTree
    BY <1>0, <1>1, NodeTree DEF Removing
  <1>3. Removing'
    <2>1. \A i : i = fr'.inum => ~IsNamed(i)'
      BY <1>0, <1>1, <1>2, SameTreeKept DEF Removing
    <2>2. ~IsNamed(fr.inum)'
      BY <2>1 DEF IsNamed
    <2>. QED  BY <1>0, <1>1, <2>2 DEF Removing
  <1>4. GoodAt("clear_node")'
    BY <1>3 DEF GoodAt
  <1>. QED  BY <1>0, <1>2, <1>4, SameTreeKept, GoodNext DEF CallLabels

(* Nobody misses the bit of an inode without a name.                        *)
LEMMA ClearNodeTree ==
  ASSUME TypeOK, TypeOK', WellFormed, CallGood, ClearNode
  PROVE  WellFormed' /\ CallGood'
  <1>0. /\ pc = "clear_node" /\ pc' \in Meta /\ fr'.back = "done"
        /\ inode_bitmap' = inode_bitmap \ {fr.inum}
        /\ UNCHANGED <<blk, inode_table, block_bitmap>>
    <2>1. fr \in Frame
      BY DEF TypeOK
    <2>. QED  BY <2>1 DEF ClearNode, Goto, Meta, Frame
  <1>1. ~IsNamed(fr.inum)
    BY <1>0, GoodHere DEF GoodAt, Meta, Removing
  <1>2. NamesKept
    BY <1>0, NoNewNames DEF Ents
  <1>3. MapsKept
    BY <1>0 DEF MapsKept, PtrAt
  <1>4. \A i : IsNamed(i)' => i # fr.inum
    BY <1>1, <1>2, FewerNamed
  <1>5. BitsKept
    BY <1>0, <1>4 DEF BitsKept
  <1>. QED  BY <1>0, <1>2, <1>3, <1>5, TreeKept, GoodOutside, GoodAfter
(* The rounds of LinkedDirs, inside a set that holds the root and, with a
   directory, the directories named in it.                                  *)
LEMMA LinkedRounds ==
  ASSUME TypeOK, NEW G \in SUBSET Inodes, ROOT_INODE_NO \in G,
         \A D \in SUBSET G : SubDirs(D) \subseteq G
  PROVE  \E w : /\ \A n \in Nat : w[n] \in SUBSET G
                /\ w[0] = {ROOT_INODE_NO}
                /\ \A n \in Nat : w[n + 1] = w[n] \cup SubDirs(w[n])
                /\ LinkedDirs = w[INODES_PER_GROUP]
  <1>. DEFINE Eq(g) == g = [k \in Nat |->
                 IF k = 0 THEN {ROOT_INODE_NO}
                 ELSE UNION {D \cup SubDirs(D) : D \in {g[k - 1]}}]
              w == CHOOSE g : Eq(g)
  <1>1. LinkedDirs = Inodes \cap w[INODES_PER_GROUP]
    BY Zenon DEF LinkedDirs
  <1>0. \A C : UNION {D \cup SubDirs(D) : D \in {C}} = C \cup SubDirs(C)
    OBVIOUS
  <1>2. \E g : Eq(g)
    <2>. DEFINE F == [D \in SUBSET G |-> D \cup SubDirs(D)]
    <2>1. F \in [SUBSET G -> SUBSET G]
      OBVIOUS
    <2>2. {ROOT_INODE_NO} \in SUBSET G
      OBVIOUS
    <2>. HIDE DEF F
    <2>3. PICK g : g = [k \in Nat |-> IF k = 0 THEN {ROOT_INODE_NO} ELSE F[g[k - 1]]]
      <3>. DEFINE X == SUBSET G
                  x0 == {ROOT_INODE_NO}
      <3>1. x0 \in X /\ F \in [X -> X]
        BY <2>1, <2>2
      <3>. HIDE DEF X, x0
      <3>2. \E g : g = [k \in Nat |-> IF k = 0 THEN x0 ELSE F[g[k - 1]]]
        BY <3>1, Iterate
      <3>. QED  BY <3>2 DEF x0
    <2>4. \A k \in Nat : g[k] \in SUBSET G
      <3>. DEFINE S == {k \in Nat : g[k] \in SUBSET G}
      <3>1. 0 \in S
        BY <2>2, <2>3
      <3>2. ASSUME NEW n \in Nat, n \in S PROVE n + 1 \in S
        <4>0. n + 1 \in Nat /\ n + 1 # 0 /\ (n + 1) - 1 = n
          OBVIOUS
        <4>1. g[n + 1] = F[g[n]]
          BY <2>3, <4>0, Zenon
        <4>2. g[n] \in SUBSET G
          BY <3>2
        <4>. QED  BY <2>1, <4>1, <4>2
      <3>. HIDE DEF S
      <3>3. \A n \in Nat : n \in S
        BY <3>1, <3>2, SetInduction
      <3>. QED  BY <3>3 DEF S
    <2>5. ASSUME NEW k \in Nat, k # 0
          PROVE  F[g[k - 1]] = UNION {D \cup SubDirs(D) : D \in {g[k - 1]}}
      <3>1. g[k - 1] \in SUBSET G
        BY <2>4, <2>5
      <3>2. F[g[k - 1]] = g[k - 1] \cup SubDirs(g[k - 1])
        BY <3>1 DEF F
      <3>. QED  BY <1>0, <3>2, Zenon
    <2>6. Eq(g)
      BY <2>3, <2>5
    <2>. QED  BY <2>6
  <1>3. Eq(w)
    <2>. HIDE DEF Eq
    <2>. QED  BY <1>2
  <1>. HIDE DEF w
  <1>4. w[0] = {ROOT_INODE_NO}
    BY <1>3
  <1>5. ASSUME NEW n \in Nat PROVE w[n + 1] = w[n] \cup SubDirs(w[n])
    <2>1. n + 1 \in Nat /\ n + 1 # 0 /\ (n + 1) - 1 = n
      OBVIOUS
    <2>2. w[n + 1] = UNION {D \cup SubDirs(D) : D \in {w[n]}}
      BY <1>3, <2>1, Zenon
    <2>. QED  BY <1>0, <2>2, Zenon
  <1>6. \A n \in Nat : w[n] \in SUBSET G
    <2>. DEFINE S == {k \in Nat : w[k] \in SUBSET G}
    <2>1. 0 \in S
      BY <1>4
    <2>2. ASSUME NEW n \in Nat, n \in S PROVE n + 1 \in S
      <3>1. w[n + 1] = w[n] \cup SubDirs(w[n]) /\ n + 1 \in Nat
        BY <1>5
      <3>2. w[n] \in SUBSET G
        BY <2>2
      <3>. QED  BY <3>1, <3>2
    <2>. HIDE DEF S
    <2>3. \A n \in Nat : n \in S
      BY <2>1, <2>2, SetInduction
    <2>. QED  BY <2>3 DEF S
  <1>7. LinkedDirs = w[INODES_PER_GROUP]
    BY <1>1, <1>6, LayoutAssumption
  <1>. QED  BY <1>4, <1>5, <1>6, <1>7

(* Such a set holds every directory a caller can reach.                     *)
LEMMA LinkedDirsIn ==
  ASSUME TypeOK, NEW G \in SUBSET Inodes, ROOT_INODE_NO \in G,
         \A D \in SUBSET G : SubDirs(D) \subseteq G
  PROVE  LinkedDirs \subseteq G
  <1>1. INODES_PER_GROUP \in Nat
    BY LayoutAssumption
  <1>. QED  BY <1>1, LinkedRounds

(* The directories a caller can reach have names.                           *)
LEMMA LinkedAreDirs ==
  ASSUME TypeOK, WellFormed
  PROVE  \A d \in LinkedDirs : d \in Inodes /\ DirOf(d)
  <1>. DEFINE G == {d \in Inodes : DirOf(d)}
  <1>1. ROOT_INODE_NO \in G
    BY LayoutFacts DEF DirOf, IsNamed, WellFormed, NamesUsed
  <1>2. ASSUME NEW D \in SUBSET G, NEW i \in SubDirs(D) PROVE i \in G
    <2>1. inode_table[i].mode = "dir" /\ \E d \in D : \E s \in NamedIn(d) : i = At(d, s).inode
      BY DEF SubDirs
    <2>2. PICK d \in D : \E s \in NamedIn(d) : i = At(d, s).inode
      BY <2>1
    <2>3. PICK s \in NamedIn(d) : i = At(d, s).inode
      BY <2>2
    <2>4. s \in Slots(d) /\ At(d, s).inode # 0 /\ At(d, s).name \notin Dots /\ d \in Inodes
      BY DEF NamedIn
    <2>5. PICK b : b = inode_table[d].block[s[1]]
      OBVIOUS
    <2>6. s[1] \in 0 .. NDirect - 1 /\ s[2] \in DOMAIN Ents(b)
      BY <2>4, <2>5, SlotParts
    <2>7. b \in Blocks
      BY <2>4, <2>5, <2>6, DiskParts, LayoutFacts
    <2>8. Ents(b)[s[2]].inode = i /\ Naming(Ents(b)[s[2]])
      BY <2>3, <2>4, <2>5 DEF At, DirEnts, Naming
    <2>9. i \in Inodes /\ IsNamed(i)
      BY <2>6, <2>7, <2>8, NamingType
    <2>. QED  BY <2>1, <2>9 DEF DirOf
  <1>3. LinkedDirs \subseteq G
    <2>1. G \in SUBSET Inodes
      OBVIOUS
    <2>2. \A D \in SUBSET G : SubDirs(D) \subseteq G
      BY <1>2
    <2>. HIDE DEF G
    <2>. QED  BY <1>1, <2>1, <2>2, LinkedDirsIn
  <1>. QED  BY <1>3

(* A call names a directory of the tree, or none.                           *)
LEMMA CallTree ==
  ASSUME Orderly, TypeOK, TypeOK', WellFormed, CallWrite \/ CallDelete
  PROVE  WellFormed' /\ CallGood'
  <1>. USE DEF MakingLabels, FileLabels, MappedLabels, EarlyLabels, DirLabels,
               BuiltLabels, NamingLabels, PendingLabels
  <1>1. /\ UNCHANGED disk
        /\ \E op \in {"write", "delete"}, parent \in LinkedDirs \cup {0}, name \in Names,
              dir \in BOOLEAN, content \in Seq(Chunks) :
             pc' = op /\ fr' = Request(op, parent, name, dir, content)
    <2>1. CASE CallWrite
      <3>1. PICK parent \in LinkedDirs \cup {0}, name \in Names :
              \/ \E c \in Contents : Call(Request("write", parent, name, FALSE, c))
              \/ Call(Request("write", parent, name, TRUE, <<>>))
        BY <2>1 DEF CallWrite
      <3>2. PICK dir \in BOOLEAN, c \in Seq(Chunks) :
              Call(Request("write", parent, name, dir, c))
        <4>1. CASE \E c \in Contents : Call(Request("write", parent, name, FALSE, c))
          <5>1. PICK c \in Contents : Call(Request("write", parent, name, FALSE, c))
            BY <4>1
          <5>2. c \in Seq(Chunks)
            BY Ext2Assumption
          <5>. QED  BY <5>1, <5>2
        <4>2. CASE Call(Request("write", parent, name, TRUE, <<>>))
          <5>1. <<>> \in Seq(Chunks)
            OBVIOUS
          <5>. QED  BY <4>2, <5>1
        <4>. QED  BY <3>1, <4>1, <4>2
      <3>3. pc' = "write"
        BY <3>2 DEF Call, Request, NoFrame
      <3>. QED  BY <3>2, <3>3 DEF Call
    <2>2. CASE CallDelete
      <3>1. PICK parent \in LinkedDirs \cup {0}, name \in DeleteNames, dir \in BOOLEAN :
              Call(Request("delete", parent, name, dir, <<>>))
        BY <2>2 DEF CallDelete
      <3>2. name \in Names
        BY DEF Orderly
      <3>3. pc' = "delete"
        BY <3>1 DEF Call, Request, NoFrame
      <3>4. <<>> \in Seq(Chunks)
        OBVIOUS
      <3>. QED  BY <3>1, <3>2, <3>3, <3>4 DEF Call
    <2>. QED  BY <2>1, <2>2
  <1>2. PICK op \in {"write", "delete"}, parent \in LinkedDirs \cup {0}, name \in Names,
             dir \in BOOLEAN, content \in Seq(Chunks) :
          pc' = op /\ fr' = Request(op, parent, name, dir, content)
    BY <1>1
  <1>3. /\ fr'.parent = parent /\ fr'.name = name
        /\ fr'.node = ZeroInode /\ fr'.ptr = NoPointers
    BY <1>2 DEF Request, NoFrame
  <1>4. SameTree
    BY <1>1, QuietTree DEF disk
  <1>5. WellFormed' /\ \A i : IsNamed(i)' <=> IsNamed(i)
    BY <1>4, SameTreeKept
  <1>6. parent # 0 => ParentGood'
    <2>. SUFFICES ASSUME parent # 0 PROVE ParentGood'
      OBVIOUS
    <2>1. parent \in Inodes /\ DirOf(parent)
      BY LinkedAreDirs
    <2>2. DirOf(parent)'
      BY <1>1, <1>5, <2>1 DEF DirOf, disk
    <2>. QED  BY <1>3, <2>1, <2>2 DEF ParentGood, DirOf, IsNamed
  <1>7. GoodAt(op)'
    BY <1>3, <1>6 DEF GoodAt
  <1>. QED  BY <1>2, <1>5, <1>7, GoodNext DEF CallLabels

-----------------------------------------------------------------------------
(* The disk as create_ext2, or the inserter, leaves it.                     *)
FreshTree ==
  /\ block_bitmap = FreshBlockBitmap /\ inode_bitmap = FreshInodeBitmap
  /\ inode_table = [BlankTable EXCEPT ![ROOT_INODE_NO] = RootInode]
  /\ blk = [[b \in Blocks |-> Stale] EXCEPT ![ROOT_DIR_BLOCK_LBA] =
              DirBlock(DotEntries(ROOT_INODE_NO, ROOT_INODE_NO))]

(* A fresh disk holds the root, with one block that names nothing.          *)
LEMMA FreshWellFormed == FreshTree => WellFormed
  <1>. SUFFICES ASSUME FreshTree PROVE WellFormed
    OBVIOUS
  <1>1. /\ ROOT_DIR_BLOCK_LBA \in Blocks /\ ROOT_INODE_NO \in Inodes
        /\ ROOT_DIR_BLOCK_LBA \in Nat /\ ROOT_DIR_BLOCK_LBA > 0
    BY LayoutFacts, LayoutAssumption DEF ROOT_DIR_BLOCK_LBA, INODE_TABLE_LBA
  <1>2. /\ \A b \in Blocks : b # ROOT_DIR_BLOCK_LBA => blk[b] = Stale
        /\ blk[ROOT_DIR_BLOCK_LBA] = DirBlock(DotEntries(ROOT_INODE_NO, ROOT_INODE_NO))
    BY <1>1 DEF FreshTree
  <1>3. \A b \in Blocks : \A k \in DOMAIN Ents(b) : ~Naming(Ents(b)[k])
    <2>. SUFFICES ASSUME NEW b \in Blocks, NEW k \in DOMAIN Ents(b) PROVE ~Naming(Ents(b)[k])
      OBVIOUS
    <2>1. CASE b = ROOT_DIR_BLOCK_LBA
      <3>1. Ents(b) = DotEntries(ROOT_INODE_NO, ROOT_INODE_NO)
        BY <1>2, <2>1 DEF Ents, DirBlock
      <3>. QED  BY <3>1, DotsDoNotName
    <2>2. CASE b # ROOT_DIR_BLOCK_LBA
      <3>1. Ents(b) = <<>>
        BY <1>2, <2>2 DEF Ents, Stale
      <3>. QED  BY <3>1
    <2>. QED  BY <2>1, <2>2
  <1>4. \A i : IsNamed(i) <=> i = ROOT_INODE_NO
    BY <1>3 DEF IsNamed
  <1>5. inode_table[ROOT_INODE_NO] = RootInode
    BY <1>1 DEF FreshTree, BlankTable
  <1>6. /\ RootInode.mode = "dir" /\ RootInode.block[0] = ROOT_DIR_BLOCK_LBA
        /\ \A j \in 0 .. NDirect : j # 0 => RootInode.block[j] = 0
    BY PositionFacts DEF RootInode, ZeroInode
  <1>7. PtrAt(ROOT_INODE_NO, 0) = ROOT_DIR_BLOCK_LBA
    BY <1>5, <1>6, PositionFacts DEF PtrAt
  <1>8. \A j \in Positions : j # 0 => PtrAt(ROOT_INODE_NO, j) = 0
    <2>1. RootInode.block[NDirect] = 0
      BY <1>6, PositionFacts
    <2>2. \A j \in Positions : j <= NDirect => j \in 0 .. NDirect
      BY PositionFacts DEF Positions
    <2>. QED  BY <1>5, <1>6, <2>1, <2>2 DEF PtrAt
  <1>9. OneName
    BY <1>3 DEF OneName
  <1>10. NamesUsed
    <2>1. ROOT_INODE_NO \in inode_bitmap
      BY LayoutAssumption DEF FreshTree, FreshInodeBitmap, ROOT_INODE_NO
    <2>. QED  BY <1>3, <1>5, <1>6, <2>1 DEF NamesUsed
  <1>11. BlocksUsed
    <2>1. block_bitmap = 0 .. ROOT_DIR_BLOCK_LBA
      BY DEF FreshTree, FreshBlockBitmap
    <2>2. \A b \in Blocks : b \in Nat
      BY DEF Blocks
    <2>3. \A b \in Blocks : b < ROOT_DIR_BLOCK_LBA => b \in block_bitmap
      BY <1>1, <2>1, <2>2
    <2>4. \A b \in Blocks : blk[b].kind = "dir" => b \in block_bitmap
      BY <1>1, <1>2, <2>1 DEF Stale
    <2>5. \A b \in Blocks : b # 0 /\ Owned(b) => b = ROOT_DIR_BLOCK_LBA
      BY <1>4, <1>7, <1>8 DEF Owned
    <2>. QED  BY <1>1, <2>1, <2>3, <2>4, <2>5 DEF BlocksUsed
  <1>12. OneOwner
    BY <1>1, <1>4, <1>7, <1>8 DEF OneOwner
  <1>13. NoHoles
    <2>. SUFFICES ASSUME NEW p \in Direct, RootInode.block[p] # 0, NEW q \in 0 .. p
                  PROVE  RootInode.block[q] # 0
      BY <1>4, <1>5 DEF NoHoles, DirOf
    <2>1. p = 0
      BY <1>6, PositionFacts DEF Direct
    <2>. QED  BY <2>1
  <1>14. OneEntry
    BY <1>3 DEF OneEntry
  <1>. QED  BY <1>9, <1>10, <1>11, <1>12, <1>13, <1>14 DEF WellFormed

(* A disk the inserter has formatted, or a blank one.                       *)
LEMMA TreeInit == Orderly /\ Init => TreeInv
  <1>. SUFFICES ASSUME Orderly, Init PROVE TreeInv
    OBVIOUS
  <1>1. CASE FormatByKernel
    BY <1>1, Ext2Assumption DEF Init, TreeInv, Formatting, Orderly, MkfsLabels, BitmapLabels, TableLabels,
       RootLabels, RootDirLabels
  <1>2. CASE ~FormatByKernel
    <2>1. FreshTree /\ signature /\ pc = "off"
      BY <1>2 DEF Init, FreshTree
    <2>2. CallGood
      BY <2>1 DEF CallGood, GoodAt, CallLabels, MakingLabels, FileLabels, MappedLabels,
         EarlyLabels, DirLabels, BuiltLabels, NamingLabels, PendingLabels, Meta
    <2>. QED  BY <2>1, <2>2, FreshWellFormed DEF TreeInv
  <1>. QED  BY <1>1, <1>2, Ext2Assumption

(* Nothing removes the signature.                                           *)
LEMMA SignatureStays == TypeOK /\ signature /\ [Next]_vars => signature'
  <1>. SUFFICES ASSUME TypeOK, signature, [Next]_vars PROVE signature'
    OBVIOUS
  <1>1. CASE Boot \/ Mkfs
    BY <1>1 DEF Boot, Mkfs, MkfsSuperblock, MkfsBgdt, MkfsBlockBitmap, MkfsInodeBitmap,
       MkfsTable, MkfsRoot, MkfsRootDir
  <1>2. CASE Write
    <2>1. ASSUME NEW ok, NEW full, allocate_block(ok, full) PROVE signature'
      BY <2>1 DEF allocate_block, disk
    <2>2. CASE WriteRefused \/ AllocateNode \/ NoEntry
      BY <2>2 DEF WriteRefused, AllocateNode, NoEntry, disk
    <2>3. CASE DirectBlock \/ IndirectBlock \/ PointerBlock \/ DirectoryBlock \/ GrowDirectory
      BY <2>1, <2>3 DEF DirectBlock, IndirectBlock, PointerBlock, DirectoryBlock, GrowDirectory, disk
    <2>4. CASE StoreDirect \/ IndirectTable \/ StorePointer \/ WriteTable \/ WriteDots \/ WriteInode
      BY <2>4 DEF StoreDirect, IndirectTable, StorePointer, WriteTable, WriteDots, WriteInode, disk
    <2>5. CASE AddEntry \/ GrowInode \/ GrowBlock
      BY <2>5 DEF AddEntry, GrowInode, GrowBlock
    <2>. QED  BY <1>2, <2>2, <2>3, <2>4, <2>5 DEF Write
  <1>3. CASE Delete
    BY <1>3 DEF Delete, DeleteRefused, Unlink, FreeBlock, ClearInode, ClearNode, DeleteDone, disk
  <1>4. CASE WriteSuperblock \/ WriteBgdt \/ CallWrite \/ CallDelete \/ Crash
    BY <1>4 DEF WriteSuperblock, WriteBgdt, CallWrite, CallDelete, Call, Crash, disk
  <1>5. CASE UNCHANGED vars
    BY <1>5 DEF vars, disk
  <1>. QED  BY <1>1, <1>2, <1>3, <1>4, <1>5 DEF Next, Step

(* Only Boot and create_ext2 run before there is a file system.             *)
LEMMA NotFormatting ==
  ASSUME TypeOK,
         \/ Write \/ Delete \/ WriteSuperblock \/ WriteBgdt \/ CallWrite \/ CallDelete
  PROVE  pc \notin MkfsLabels \cup {"off"}
  <1>. USE DEF MkfsLabels, BitmapLabels, TableLabels, RootLabels, RootDirLabels
  <1>1. CASE Write
    <2>1. CASE WriteRefused \/ AllocateNode \/ NoEntry
      BY <2>1 DEF WriteRefused, AllocateNode, NoEntry
    <2>2. CASE DirectBlock \/ IndirectBlock \/ PointerBlock \/ DirectoryBlock \/ GrowDirectory
      BY <2>2 DEF DirectBlock, IndirectBlock, PointerBlock, DirectoryBlock, GrowDirectory
    <2>3. CASE StoreDirect \/ IndirectTable \/ StorePointer \/ WriteTable \/ WriteDots \/ WriteInode
      BY <2>3 DEF StoreDirect, IndirectTable, StorePointer, WriteTable, WriteDots, WriteInode
    <2>4. CASE AddEntry \/ GrowInode \/ GrowBlock
      BY <2>4 DEF AddEntry, GrowInode, GrowBlock
    <2>. QED  BY <1>1, <2>1, <2>2, <2>3, <2>4 DEF Write
  <1>2. CASE Delete
    BY <1>2 DEF Delete, DeleteRefused, Unlink, FreeBlock, ClearInode, ClearNode, DeleteDone
  <1>3. CASE WriteSuperblock \/ WriteBgdt \/ CallWrite \/ CallDelete
    BY <1>3 DEF WriteSuperblock, WriteBgdt, CallWrite, CallDelete, Call
  <1>. QED  BY <1>1, <1>2, <1>3

(* create_ext2 block by block.                                              *)
LEMMA FormatStep ==
  ASSUME TypeOK, TypeOK', Formatting, Next
  PROVE  TreeInv'
  <1>. USE DEF MkfsLabels, BitmapLabels, TableLabels, RootLabels, RootDirLabels
  <1>1. ~Crash
    BY DEF Crash, Formatting, TypeOK
  <1>2. ~(Write \/ Delete \/ WriteSuperblock \/ WriteBgdt \/ CallWrite \/ CallDelete)
    BY NotFormatting DEF Formatting
  <1>3. CASE Boot
    <2>1. Formatting'
      BY <1>3 DEF Formatting, Boot, Goto
    <2>. QED  BY <2>1 DEF TreeInv
  <1>4. CASE MkfsSuperblock \/ MkfsBgdt \/ MkfsBlockBitmap \/ MkfsInodeBitmap \/ MkfsTable \/ MkfsRoot
    <2>1. Formatting'
      <3>1. CASE MkfsSuperblock
        BY <3>1 DEF Formatting, MkfsSuperblock, Goto
      <3>2. CASE MkfsBgdt
        BY <3>2 DEF Formatting, MkfsBgdt, Goto
      <3>3. CASE MkfsBlockBitmap
        BY <3>3 DEF Formatting, MkfsBlockBitmap, Goto
      <3>4. CASE MkfsInodeBitmap
        BY <3>4 DEF Formatting, MkfsInodeBitmap, Goto
      <3>5. CASE MkfsTable
        BY <3>5 DEF Formatting, MkfsTable, Goto
      <3>6. CASE MkfsRoot
        BY <3>6 DEF Formatting, MkfsRoot, Goto
      <3>. QED  BY <1>4, <3>1, <3>2, <3>3, <3>4, <3>5, <3>6
    <2>. QED  BY <2>1 DEF TreeInv
  <1>5. CASE MkfsRootDir
    <2>1. FreshTree'
      BY <1>5 DEF MkfsRootDir, FreshTree, Formatting
    <2>2. WellFormed'
      <3>1. (FreshTree => WellFormed)'
        BY FreshWellFormed, PTL
      <3>. QED  BY <2>1, <3>1
    <2>3. signature' /\ pc' = "idle"
      BY <1>5 DEF MkfsRootDir, Goto, Formatting
    <2>4. CallGood'
      BY <2>3, GoodOutside, GoodNext DEF CallLabels
    <2>. QED  BY <2>2, <2>3, <2>4 DEF TreeInv
  <1>. QED  BY <1>1, <1>2, <1>3, <1>4, <1>5 DEF Next, Step, Mkfs

(* A step of a formatted file system.                                       *)
LEMMA CallStep ==
  ASSUME Orderly, Inv, TypeOK', WellFormed, CallGood, signature, Next
  PROVE  WellFormed' /\ CallGood'
  <1>0. TypeOK
    BY DEF Inv
  <1>1. ~Mkfs
    BY DEF CallGood, CallLabels, MakingLabels, FileLabels, MappedLabels, EarlyLabels,
       DirLabels, BuiltLabels, NamingLabels, Meta, Mkfs, MkfsSuperblock, MkfsBgdt,
       MkfsBlockBitmap, MkfsInodeBitmap, MkfsTable, MkfsRoot, MkfsRootDir
  <1>2. CASE Boot \/ Crash
    BY <1>0, <1>2, OutsideTree DEF Boot, Crash, Goto, disk
  <1>3. CASE WriteRefused \/ NoEntry \/ DeleteRefused \/ DeleteDone
    <2>1. pc' = "idle" /\ UNCHANGED disk
      <3>1. CASE WriteRefused
        BY <3>1 DEF WriteRefused, Return
      <3>2. CASE NoEntry
        BY <3>2 DEF NoEntry, Return
      <3>3. CASE DeleteRefused
        BY <3>3 DEF DeleteRefused, Return
      <3>4. CASE DeleteDone
        BY <3>4 DEF DeleteDone, Return
      <3>. QED  BY <1>3, <3>1, <3>2, <3>3, <3>4
    <2>. QED  BY <1>0, <2>1, OutsideTree DEF disk
  <1>4. CASE Write /\ ~WriteRefused /\ ~NoEntry
    BY <1>0, <1>4, AllocateNodeTree, TakeTree, StoreDirectTree, IndirectTableTree,
       StorePointerTree, WriteTableTree, WriteDotsTree, WriteInodeTree, AddEntryTree,
       GrowInodeTree, GrowBlockTree DEF Write
  <1>5. CASE Delete /\ ~DeleteRefused /\ ~DeleteDone
    BY <1>0, <1>5, UnlinkTree, FreeBlockTree, ClearInodeTree, ClearNodeTree DEF Delete
  <1>6. CASE WriteSuperblock \/ WriteBgdt
    BY <1>0, <1>6, MetaTree
  <1>7. CASE CallWrite \/ CallDelete
    BY <1>0, <1>7, CallTree
  <1>. QED  BY <1>1, <1>2, <1>3, <1>4, <1>5, <1>6, <1>7 DEF Next, Step

(* Every step keeps the invariant.                                          *)
LEMMA TreeStep == Orderly /\ Inv /\ Inv' /\ TreeInv /\ [Next]_vars => TreeInv'
  <1>. SUFFICES ASSUME Orderly, Inv, Inv', TreeInv, [Next]_vars PROVE TreeInv'
    OBVIOUS
  <1>0. TypeOK /\ TypeOK'
    BY DEF Inv
  <1>1. CASE UNCHANGED vars
    <2>1. UNCHANGED <<signature, block_bitmap, inode_bitmap, inode_table, blk, pc, fr>>
      BY <1>1 DEF vars, disk
    <2>2. CASE Formatting
      BY <2>1, <2>2 DEF TreeInv, Formatting
    <2>3. CASE signature /\ WellFormed /\ CallGood
      <3>1. WellFormed'
        BY <1>0, <2>1, <2>3, QuietTree, SameTreeKept
      <3>2. PICK l : l = IF pc \in Meta THEN fr.back ELSE pc
        OBVIOUS
      <3>3. GoodAt(l)'
        BY <2>1, <2>3, <3>2, SameGood DEF CallGood
      <3>4. CallGood'
        BY <2>1, <2>3, <3>2, <3>3, GoodNext, GoodAfter DEF CallGood
      <3>. QED  BY <2>1, <2>3, <3>1, <3>4 DEF TreeInv
    <2>. QED  BY <2>2, <2>3 DEF TreeInv
  <1>2. CASE Next
    <2>1. CASE Formatting
      BY <1>0, <1>2, <2>1, FormatStep
    <2>2. CASE signature /\ WellFormed /\ CallGood
      BY <1>0, <1>2, <2>2, CallStep, SignatureStays DEF TreeInv
    <2>. QED  BY <2>1, <2>2 DEF TreeInv
  <1>. QED  BY <1>1, <1>2

-----------------------------------------------------------------------------
(* What the invariant says of the tree that can be reached.                 *)

(* An entry of the tree is a record of a block of a directory.              *)
LEMMA SlotOf ==
  ASSUME TypeOK, NEW x \in NamedSlots
  PROVE  \E d \in LinkedDirs, p \in Direct, b \in Blocks : \E k \in DOMAIN Ents(b) :
           /\ d \in Inodes /\ x = <<d, <<p, k>>>>
           /\ b = inode_table[d].block[p] /\ b # 0
           /\ EntryAt(x) = Ents(b)[k] /\ Naming(Ents(b)[k])
  <1>1. PICK d \in LinkedDirs : x \in {d} \X NamedIn(d)
    BY DEF NamedSlots
  <1>2. PICK s \in NamedIn(d) : x = <<d, s>>
    BY <1>1
  <1>3. s \in Slots(d) /\ At(d, s).inode # 0 /\ At(d, s).name \notin Dots
    BY DEF NamedIn
  <1>4. PICK p \in DirBlocks(d) : \E k \in DOMAIN DirEnts(d, p) : s = <<p, k>>
    BY <1>3 DEF Slots
  <1>5. PICK k \in DOMAIN DirEnts(d, p) : s = <<p, k>>
    BY <1>4
  <1>6. PICK b : b = inode_table[d].block[p]
    OBVIOUS
  <1>7. d \in Inodes
    BY DEF LinkedDirs
  <1>8. p \in Direct /\ b # 0
    BY <1>6 DEF DirBlocks, Direct
  <1>9. b \in Blocks
    BY <1>6, <1>7, <1>8, DiskParts, LayoutFacts DEF Direct
  <1>10. k \in DOMAIN Ents(b) /\ At(d, s) = Ents(b)[k]
    BY <1>5, <1>6 DEF DirEnts, At
  <1>11. EntryAt(x) = At(d, s)
    BY <1>2 DEF EntryAt
  <1>12. Naming(Ents(b)[k])
    BY <1>3, <1>10 DEF Naming
  <1>. QED  BY <1>2, <1>5, <1>6, <1>7, <1>8, <1>9, <1>10, <1>11, <1>12

(* Before there is a file system the disk names nothing.                    *)
LEMMA FormattingTree ==
  ASSUME TypeOK, Formatting
  PROVE  /\ \A b \in Blocks : Ents(b) = <<>>
         /\ NamedSlots = {} /\ LiveInodes = {ROOT_INODE_NO}
         /\ \A j \in Positions : PtrAt(ROOT_INODE_NO, j) # 0 =>
              j = 0 /\ PtrAt(ROOT_INODE_NO, j) = ROOT_DIR_BLOCK_LBA
                    /\ ROOT_DIR_BLOCK_LBA \in block_bitmap
  <1>1. \A b \in Blocks : Ents(b) = <<>>
    BY DEF Formatting, Ents, Stale
  <1>2. NamedSlots = {}
    <2>. SUFFICES ASSUME NEW x \in NamedSlots PROVE FALSE
      OBVIOUS
    <2>1. \E b \in Blocks : \E k \in DOMAIN Ents(b) : TRUE
      BY SlotOf
    <2>. QED  BY <1>1, <2>1
  <1>3. LiveInodes = {ROOT_INODE_NO}
    BY <1>2 DEF LiveInodes
  <1>4. ROOT_INODE_NO \in Inodes /\ NDirect \in 0 .. NDirect
        /\ \A j \in Positions : j <= NDirect => j \in 0 .. NDirect
    BY LayoutFacts DEF Positions
  <1>5. CASE pc \in RootDirLabels
    <2>1. inode_table[ROOT_INODE_NO] = RootInode
      BY <1>4, <1>5 DEF Formatting, BlankTable
    <2>2. /\ RootInode.block[0] = ROOT_DIR_BLOCK_LBA
          /\ \A j \in 0 .. NDirect : j # 0 => RootInode.block[j] = 0
      BY PositionFacts DEF RootInode, ZeroInode
    <2>3. ROOT_DIR_BLOCK_LBA \in block_bitmap
      <3>1. block_bitmap = FreshBlockBitmap
        BY <1>5 DEF Formatting, BitmapLabels, TableLabels, RootLabels
      <3>2. ROOT_DIR_BLOCK_LBA \in Nat
        BY LayoutAssumption DEF ROOT_DIR_BLOCK_LBA, INODE_TABLE_LBA
      <3>. QED  BY <3>1, <3>2 DEF FreshBlockBitmap
    <2>4. inode_table[ROOT_INODE_NO].block[NDirect] = 0
      BY <1>4, <2>1, <2>2, PositionFacts
    <2>. QED  BY <1>1, <1>2, <1>3, <1>4, <2>1, <2>2, <2>3, <2>4 DEF PtrAt
  <1>6. CASE pc \notin RootDirLabels
    <2>1. \A j \in 0 .. NDirect : inode_table[ROOT_INODE_NO].block[j] = 0
      BY <1>4, <1>6 DEF Formatting, BlankTable, ZeroInode
    <2>. QED  BY <1>1, <1>2, <1>3, <1>4, <2>1 DEF PtrAt
  <1>. QED  BY <1>5, <1>6

(* What can be reached is named.                                            *)
LEMMA LiveNamed ==
  ASSUME TypeOK, NEW i \in LiveInodes
  PROVE  i \in Inodes /\ IsNamed(i)
  <1>1. CASE i = ROOT_INODE_NO
    BY <1>1, LayoutFacts DEF IsNamed
  <1>2. CASE i # ROOT_INODE_NO
    <2>1. PICK x \in NamedSlots : i = EntryAt(x).inode
      BY <1>2 DEF LiveInodes
    <2>2. \E b \in Blocks : \E k \in DOMAIN Ents(b) :
            EntryAt(x) = Ents(b)[k] /\ Naming(Ents(b)[k])
      BY SlotOf
    <2>. QED  BY <2>1, <2>2, NamingType
  <1>. QED  BY <1>1, <1>2

(* What can be reached is named, so its blocks have one owner each.         *)
LEMMA TreeOwnedOnce == TypeOK /\ TreeInv => BlocksOwnedOnce
  <1>. SUFFICES ASSUME TypeOK, TreeInv PROVE BlocksOwnedOnce
    OBVIOUS
  <1>1. \A x \in Owners : /\ x[1] \in LiveInodes /\ x[2] \in Positions
                          /\ x = <<x[1], x[2]>> /\ PtrAt(x[1], x[2]) # 0
    BY DEF Owners, Positions
  <1>2. CASE Formatting
    <2>1. \A x \in Owners : /\ x = <<ROOT_INODE_NO, 0>>
                            /\ PtrAt(x[1], x[2]) = ROOT_DIR_BLOCK_LBA
                            /\ ROOT_DIR_BLOCK_LBA \in block_bitmap
      BY <1>1, <1>2, FormattingTree
    <2>2. ROOT_DIR_BLOCK_LBA \in Nat
      BY LayoutAssumption DEF ROOT_DIR_BLOCK_LBA, INODE_TABLE_LBA
    <2>. QED  BY <2>1, <2>2 DEF BlocksOwnedOnce
  <1>3. CASE signature /\ WellFormed /\ CallGood
    <2>1. \A i \in LiveInodes : i \in Inodes /\ IsNamed(i)
      BY LiveNamed
    <2>2. ASSUME NEW x \in Owners, NEW y \in Owners, PtrAt(x[1], x[2]) = PtrAt(y[1], y[2])
          PROVE  x = y
      <3>1. x[1] = y[1] /\ x[2] = y[2]
        BY <1>1, <1>3, <2>1, <2>2 DEF WellFormed, OneOwner
      <3>. QED  BY <1>1, <3>1
    <2>3. ASSUME NEW x \in Owners
          PROVE  /\ PtrAt(x[1], x[2]) \in block_bitmap
                 /\ PtrAt(x[1], x[2]) >= ROOT_DIR_BLOCK_LBA
      <3>1. PICK b : b = PtrAt(x[1], x[2])
        OBVIOUS
      <3>2. b \in Blocks /\ b # 0 /\ Owned(b)
        BY <1>1, <2>1, <3>1, PtrType DEF Owned
      <3>. QED  BY <1>3, <3>1, <3>2 DEF WellFormed, BlocksUsed
    <2>. QED  BY <2>2, <2>3 DEF BlocksOwnedOnce
  <1>. QED  BY <1>2, <1>3 DEF TreeInv

(* Entries that can be reached are records of directory blocks.             *)
LEMMA TreeResolves == TypeOK /\ TreeInv => NamesResolve
  <1>. SUFFICES ASSUME TypeOK, TreeInv PROVE NamesResolve
    OBVIOUS
  <1>1. CASE Formatting
    <2>1. NamedSlots = {}
      BY <1>1, FormattingTree
    <2>. QED  BY <2>1 DEF NamesResolve
  <1>2. CASE signature /\ WellFormed /\ CallGood
    <2>1. ASSUME NEW x \in NamedSlots
          PROVE  /\ EntryAt(x).inode \in inode_bitmap
                 /\ inode_table[EntryAt(x).inode].mode = EntryAt(x).type
      <3>1. \E b \in Blocks : \E k \in DOMAIN Ents(b) :
              EntryAt(x) = Ents(b)[k] /\ Naming(Ents(b)[k])
        BY SlotOf
      <3>. QED  BY <1>2, <3>1 DEF WellFormed, NamesUsed
    <2>2. ASSUME NEW x \in NamedSlots, NEW y \in NamedSlots,
                 \/ EntryAt(x).inode = EntryAt(y).inode
                 \/ x[1] = y[1] /\ EntryAt(x).name = EntryAt(y).name
          PROVE  x = y
      <3>1. PICK d \in LinkedDirs, p \in Direct, b \in Blocks : \E k \in DOMAIN Ents(b) :
              /\ d \in Inodes /\ x = <<d, <<p, k>>>>
              /\ b = inode_table[d].block[p] /\ b # 0
              /\ EntryAt(x) = Ents(b)[k] /\ Naming(Ents(b)[k])
        BY SlotOf
      <3>2. PICK k \in DOMAIN Ents(b) :
              /\ d \in Inodes /\ x = <<d, <<p, k>>>>
              /\ b = inode_table[d].block[p] /\ b # 0
              /\ EntryAt(x) = Ents(b)[k] /\ Naming(Ents(b)[k])
        BY <3>1
      <3>3. PICK e \in LinkedDirs, q \in Direct, c \in Blocks : \E l \in DOMAIN Ents(c) :
              /\ e \in Inodes /\ y = <<e, <<q, l>>>>
              /\ c = inode_table[e].block[q] /\ c # 0
              /\ EntryAt(y) = Ents(c)[l] /\ Naming(Ents(c)[l])
        BY SlotOf
      <3>4. PICK l \in DOMAIN Ents(c) :
              /\ e \in Inodes /\ y = <<e, <<q, l>>>>
              /\ c = inode_table[e].block[q] /\ c # 0
              /\ EntryAt(y) = Ents(c)[l] /\ Naming(Ents(c)[l])
        BY <3>3
      <3>5. DirOf(d) /\ DirOf(e)
        BY <1>2, LinkedAreDirs
      <3>6. CASE EntryAt(x).inode = EntryAt(y).inode
        <4>1. b = c /\ k = l
          BY <1>2, <3>2, <3>4, <3>6 DEF WellFormed, OneName
        <4>2. /\ p \in Positions /\ q \in Positions
              /\ PtrAt(d, p) = b /\ PtrAt(e, q) = c
          <5>1. p \in Positions /\ q \in Positions /\ p <= NDirect /\ q <= NDirect
            BY PositionFacts DEF Direct, Positions
          <5>. QED  BY <3>2, <3>4, <5>1 DEF PtrAt
        <4>3. d = e /\ p = q
          BY <1>2, <3>2, <3>4, <3>5, <4>1, <4>2 DEF WellFormed, OneOwner, DirOf
        <4>. QED  BY <3>2, <3>4, <4>1, <4>3
      <3>7. CASE x[1] = y[1] /\ EntryAt(x).name = EntryAt(y).name
        <4>1. d = e
          BY <3>2, <3>4, <3>7
        <4>2. p = q /\ k = l
          BY <1>2, <3>2, <3>4, <3>5, <3>7, <4>1 DEF WellFormed, OneEntry
        <4>. QED  BY <3>2, <3>4, <4>1, <4>2
      <3>. QED  BY <2>2, <3>6, <3>7
    <2>. QED  BY <2>1, <2>2 DEF NamesResolve
  <1>. QED  BY <1>1, <1>2 DEF TreeInv

(* Whatever orderly callers ask for, with whatever geometry, names and power
   failures: the invariant holds.                                           *)
THEOREM TreeAlways == ASSUME Orderly PROVE Spec => [](Inv /\ TreeInv)
  <1>1. Init => Inv /\ TreeInv
    BY InitInv, TreeInit
  <1>2. Inv /\ TreeInv /\ [Next]_vars => (Inv /\ TreeInv)'
    BY StepInv, TreeStep
  <1>. QED  BY <1>1, <1>2, PTL DEF Spec

(* allocate_block never hands out a block the tree uses, delete frees the blocks
   of an inode only after its name is gone, and write names an inode only after
   its blocks are its own: no block ever belongs to two files or to the
   metadata, also after a power failure at any block write.                 *)
THEOREM BlocksAlwaysOwnedOnce == ASSUME Orderly PROVE Spec => []BlocksOwnedOnce
  <1>1. Inv /\ TreeInv => BlocksOwnedOnce
    BY TreeOwnedOnce DEF Inv
  <1>2. Spec => [](Inv /\ TreeInv)
    BY TreeAlways
  <1>. QED  BY <1>1, <1>2, PTL

(* write and delete keep every name of the tree leading to an inode that is
   marked used and of the entry's type, one name for an inode and one entry for
   a name, whatever the power failures.                                     *)
THEOREM NamesAlwaysResolve == ASSUME Orderly PROVE Spec => []NamesResolve
  <1>1. Inv /\ TreeInv => NamesResolve
    BY TreeResolves DEF Inv
  <1>2. Spec => [](Inv /\ TreeInv)
    BY TreeAlways
  <1>. QED  BY <1>1, <1>2, PTL

-----------------------------------------------------------------------------
(* The free counters.                                                       *)

(* Counters that miss the bitmaps, and each other, by at most one for each
   power failure so far.                                                    *)
Misses(super, group) ==
  /\ Abs(group.free_blocks - Cardinality(FreeBlocks)) <= crashes
  /\ Abs(group.free_inodes - Cardinality(FreeInodes)) <= crashes
  /\ Abs(super.free_blocks - group.free_blocks
           - (TOTAL_BLOCKS - BLOCKS_PER_GROUP)) <= crashes
  /\ Abs(super.free_inodes - group.free_inodes
           - (TOTAL_INODES - INODES_PER_GROUP)) <= crashes

(* Two descriptors one block or one inode apart.                            *)
Near(group, other) ==
  /\ Abs(group.free_blocks - other.free_blocks) <= 1
  /\ Abs(group.free_inodes - other.free_inodes) <= 1

(* The superblock leads its group by as much in memory as on the disk.      *)
SameLead ==
  /\ superblock.free_blocks - bgdt.free_blocks = sb.free_blocks - bgd.free_blocks
  /\ superblock.free_inodes - bgdt.free_inodes = sb.free_inodes - bgd.free_inodes

(* The counters in memory follow the bitmaps.  The disk has the same ones but
   for the two writes after a change: until the first both are old, until the
   second the descriptor is.                                                *)
Counted ==
  IF pc = "off" THEN Misses(superblock, bgdt)
  ELSE /\ Misses(sb, bgd)
       /\ pc \notin Meta => sb = superblock /\ bgd = bgdt
       /\ pc = "bgdt" => sb = superblock
       /\ pc = "superblock" => SameLead
       /\ Near(bgd, bgdt)

(* What create_ext2 has written so far.                                     *)
CountInv ==
  /\ signature /\ pc \notin MkfsLabels => Counted
  /\ pc \in MkfsLabels \ {"mkfs_superblock"} => sb = FreshSuper /\ superblock = FreshSuper
  /\ pc \in MkfsLabels \ {"mkfs_superblock", "mkfs_bgdt"} =>
       bgd = FreshGroup /\ bgdt = FreshGroup

(* The sizes the counters are compared with are numbers.                    *)
LEMMA CountNumbers ==
  ASSUME TypeOK
  PROVE  /\ IsFiniteSet(FreeBlocks) /\ IsFiniteSet(FreeInodes)
         /\ Cardinality(FreeBlocks) \in Nat /\ Cardinality(FreeInodes) \in Nat
         /\ TOTAL_BLOCKS - BLOCKS_PER_GROUP \in Int /\ TOTAL_INODES - INODES_PER_GROUP \in Int
         /\ crashes \in Nat
  <1>0. BLOCKS_PER_GROUP - 1 \in Int /\ INODES_PER_GROUP \in Int
    BY LayoutAssumption
  <1>1. IsFiniteSet(Blocks) /\ IsFiniteSet(Inodes)
    BY <1>0, FS_Interval DEF Blocks, Inodes
  <1>2. IsFiniteSet(FreeBlocks) /\ IsFiniteSet(FreeInodes)
    BY <1>1, FS_Difference DEF FreeBlocks, FreeInodes
  <1>3. TOTAL_BLOCKS \in Int /\ TOTAL_INODES \in Int
    BY LayoutAssumption DEF TOTAL_BLOCKS, TOTAL_INODES
  <1>. QED  BY <1>2, <1>3, FS_CardinalityType, LayoutAssumption DEF TypeOK

(* The counters of a fresh disk are exact: the metadata and the root's block
   are used, and the reserved inodes.                                       *)
LEMMA FreshCounts ==
  ASSUME block_bitmap = FreshBlockBitmap, inode_bitmap = FreshInodeBitmap, TypeOK
  PROVE  Misses(FreshSuper, FreshGroup)
  <1>. DEFINE R == ROOT_DIR_BLOCK_LBA
              U == INITIAL_USED_INODES
  <1>1. /\ R \in Nat /\ R + 1 <= BLOCKS_PER_GROUP /\ INITIAL_USED_BLOCKS = R + 1
        /\ U \in Nat /\ U <= INODES_PER_GROUP
        /\ BLOCKS_PER_GROUP \in Nat /\ INODES_PER_GROUP \in Nat
    BY LayoutAssumption DEF ROOT_DIR_BLOCK_LBA, INODE_TABLE_LBA, INITIAL_USED_BLOCKS
  <1>2. FreeBlocks = R + 1 .. BLOCKS_PER_GROUP - 1
    BY <1>1 DEF FreeBlocks, Blocks, FreshBlockBitmap
  <1>3. FreeInodes = U + 1 .. INODES_PER_GROUP
    BY <1>1 DEF FreeInodes, Inodes, FreshInodeBitmap
  <1>. HIDE DEF R, U
  <1>4. Cardinality(FreeBlocks) = BLOCKS_PER_GROUP - (R + 1)
    <2>1. R + 1 \in Int /\ BLOCKS_PER_GROUP - 1 \in Int
      BY <1>1
    <2>2. Cardinality(R + 1 .. BLOCKS_PER_GROUP - 1)
            = IF R + 1 > BLOCKS_PER_GROUP - 1 THEN 0 ELSE BLOCKS_PER_GROUP - 1 - (R + 1) + 1
      BY <2>1, FS_Interval
    <2>. QED  BY <1>1, <1>2, <2>2
  <1>5. Cardinality(FreeInodes) = INODES_PER_GROUP - U
    <2>1. U + 1 \in Int /\ INODES_PER_GROUP \in Int
      BY <1>1
    <2>2. Cardinality(U + 1 .. INODES_PER_GROUP)
            = IF U + 1 > INODES_PER_GROUP THEN 0 ELSE INODES_PER_GROUP - (U + 1) + 1
      BY <2>1, FS_Interval
    <2>. QED  BY <1>1, <1>3, <2>2
  <1>6. crashes \in Nat /\ TOTAL_BLOCKS \in Int /\ TOTAL_INODES \in Int
    BY LayoutAssumption DEF TypeOK, TOTAL_BLOCKS, TOTAL_INODES
  <1>7. /\ FreshSuper.free_blocks = TOTAL_BLOCKS - (R + 1)
        /\ FreshSuper.free_inodes = TOTAL_INODES - U
        /\ FreshGroup.free_blocks = BLOCKS_PER_GROUP - (R + 1)
        /\ FreshGroup.free_inodes = INODES_PER_GROUP - U
    BY <1>1 DEF FreshSuper, FreshGroup, U
  <1>. QED  BY <1>1, <1>4, <1>5, <1>6, <1>7 DEF Misses, Abs

(* The counters as numbers.                                                 *)
LEMMA CounterTypes ==
  ASSUME TypeOK
  PROVE  /\ sb.free_blocks \in Int /\ sb.free_inodes \in Int
         /\ bgd.free_blocks \in Int /\ bgd.free_inodes \in Int
         /\ superblock.free_blocks \in Int /\ superblock.free_inodes \in Int
         /\ bgdt.free_blocks \in Int /\ bgdt.free_inodes \in Int
  BY DEF TypeOK, Super, Group

(* A step of a call that leaves the bitmaps and the counters alone.         *)
LEMMA QuietCounts ==
  ASSUME Counted, pc \notin Meta \cup {"off"}, pc' \notin Meta \cup {"off"},
         UNCHANGED <<superblock, bgdt, block_bitmap, inode_bitmap, sb, bgd, crashes>>
  PROVE  Counted'
  <1>1. pc # "off" /\ pc' # "off" /\ pc' # "bgdt" /\ pc' # "superblock"
    BY DEF Meta
  <1>2. Misses(sb, bgd) /\ sb = superblock /\ bgd = bgdt /\ Near(bgd, bgdt)
    BY <1>1 DEF Counted
  <1>3. Misses(sb, bgd)' /\ Near(bgd, bgdt)'
    BY <1>2 DEF Misses, FreeBlocks, FreeInodes, Near
  <1>. QED  BY <1>1, <1>2, <1>3 DEF Counted

(* A bit changes together with both counters in memory, and the call goes on
   with the write of the superblock.                                        *)
LEMMA ChangeCounts ==
  ASSUME TypeOK, TypeOK', Counted, pc \notin Meta \cup {"off"}, pc' = "superblock",
         NEW x \in {-1, 0, 1}, NEW y \in {-1, 0, 1},
         Cardinality(FreeBlocks)' = Cardinality(FreeBlocks) + x,
         Cardinality(FreeInodes)' = Cardinality(FreeInodes) + y,
         sb'.free_blocks = sb.free_blocks + x, sb'.free_inodes = sb.free_inodes + y,
         bgd'.free_blocks = bgd.free_blocks + x, bgd'.free_inodes = bgd.free_inodes + y,
         UNCHANGED <<superblock, bgdt, crashes>>
  PROVE  Counted'
  <1>1. PICK fb, fi, fb2, fi2 : /\ fb = Cardinality(FreeBlocks) /\ fi = Cardinality(FreeInodes)
                               /\ fb2 = Cardinality(FreeBlocks)' /\ fi2 = Cardinality(FreeInodes)'
    OBVIOUS
  <1>2. fb \in Nat /\ fi \in Nat /\ fb2 = fb + x /\ fi2 = fi + y
    BY <1>1, CountNumbers
  <1>3. PICK tb, ti : tb = TOTAL_BLOCKS - BLOCKS_PER_GROUP /\ ti = TOTAL_INODES - INODES_PER_GROUP
    OBVIOUS
  <1>4. tb \in Int /\ ti \in Int /\ crashes \in Nat
    BY <1>3, CountNumbers
  <1>5. sb = superblock /\ bgd = bgdt /\ Misses(sb, bgd)
    BY DEF Counted
  <1>6. Misses(sb, bgd)'
    BY <1>1, <1>2, <1>3, <1>4, <1>5, CounterTypes DEF Misses, Abs
  <1>7. SameLead'
    BY <1>5, CounterTypes DEF SameLead
  <1>8. Near(bgd, bgdt)'
    BY <1>5, CounterTypes DEF Near, Abs
  <1>. QED  BY <1>6, <1>7, <1>8 DEF Counted, Meta

(* Taking the first free block.                                             *)
LEMMA TakeCounts ==
  ASSUME TypeOK, TypeOK', Counted, pc \notin Meta \cup {"off"},
         NEW b \in FreeBlocks, block_bitmap' = block_bitmap \cup {b}, CountBlocks(-1),
         pc' = "superblock", UNCHANGED <<superblock, bgdt, inode_bitmap, crashes>>
  PROVE  Counted'
  <1>1. FreeBlocks' = FreeBlocks \ {b} /\ FreeInodes' = FreeInodes
    BY DEF FreeBlocks, FreeInodes
  <1>2. Cardinality(FreeBlocks \ {b}) = Cardinality(FreeBlocks) - 1
    BY CountNumbers, FS_RemoveElement
  <1>3. /\ Cardinality(FreeBlocks)' = Cardinality(FreeBlocks) + (-1)
        /\ Cardinality(FreeInodes)' = Cardinality(FreeInodes) + 0
    BY <1>1, <1>2, CountNumbers
  <1>4. /\ sb'.free_blocks = sb.free_blocks + (-1) /\ sb'.free_inodes = sb.free_inodes + 0
        /\ bgd'.free_blocks = bgd.free_blocks + (-1) /\ bgd'.free_inodes = bgd.free_inodes + 0
    BY CounterTypes DEF CountBlocks, TypeOK, Super, Group
  <1>. QED  BY <1>3, <1>4, ChangeCounts

(* deallocate_single_block clears a bit that was set.                       *)
LEMMA GiveCounts ==
  ASSUME TypeOK, TypeOK', Counted, pc \notin Meta \cup {"off"},
         NEW b \in block_bitmap, block_bitmap' = block_bitmap \ {b}, CountBlocks(1),
         pc' = "superblock", UNCHANGED <<superblock, bgdt, inode_bitmap, crashes>>
  PROVE  Counted'
  <1>1. FreeBlocks' = FreeBlocks \cup {b} /\ FreeInodes' = FreeInodes /\ b \notin FreeBlocks
    BY DEF FreeBlocks, FreeInodes, TypeOK
  <1>2. Cardinality(FreeBlocks \cup {b}) = Cardinality(FreeBlocks) + 1
    BY <1>1, CountNumbers, FS_AddElement
  <1>3. /\ Cardinality(FreeBlocks)' = Cardinality(FreeBlocks) + 1
        /\ Cardinality(FreeInodes)' = Cardinality(FreeInodes) + 0
    BY <1>1, <1>2, CountNumbers
  <1>4. /\ sb'.free_blocks = sb.free_blocks + 1 /\ sb'.free_inodes = sb.free_inodes + 0
        /\ bgd'.free_blocks = bgd.free_blocks + 1 /\ bgd'.free_inodes = bgd.free_inodes + 0
    BY CounterTypes DEF CountBlocks, TypeOK, Super, Group
  <1>. QED  BY <1>3, <1>4, ChangeCounts

(* allocate_node takes an inode.                                            *)
LEMMA AllocateNodeCounts ==
  ASSUME TypeOK, TypeOK', Counted, AllocateNode
  PROVE  Counted'
  <1>1. PICK i \in FreeInodes : inode_bitmap' = inode_bitmap \cup {i}
    BY DEF AllocateNode
  <1>2. /\ pc = "write" /\ pc' = "superblock" /\ CountInodes(-1)
        /\ UNCHANGED <<superblock, bgdt, block_bitmap, crashes>>
    BY DEF AllocateNode, Goto
  <1>3. FreeInodes' = FreeInodes \ {i} /\ FreeBlocks' = FreeBlocks
    BY <1>1, <1>2 DEF FreeBlocks, FreeInodes
  <1>4. Cardinality(FreeInodes \ {i}) = Cardinality(FreeInodes) - 1
    BY CountNumbers, FS_RemoveElement
  <1>5. /\ Cardinality(FreeBlocks)' = Cardinality(FreeBlocks) + 0
        /\ Cardinality(FreeInodes)' = Cardinality(FreeInodes) + (-1)
    BY <1>3, <1>4, CountNumbers
  <1>6. /\ sb'.free_blocks = sb.free_blocks + 0 /\ sb'.free_inodes = sb.free_inodes + (-1)
        /\ bgd'.free_blocks = bgd.free_blocks + 0 /\ bgd'.free_inodes = bgd.free_inodes + (-1)
    BY <1>2, CounterTypes DEF CountInodes, TypeOK, Super, Group
  <1>7. pc \notin Meta \cup {"off"}
    BY <1>2 DEF Meta
  <1>. QED  BY <1>2, <1>5, <1>6, <1>7, ChangeCounts

(* deallocate_node gives back the inode, which is marked used: CallGood.    *)
LEMMA ClearNodeCounts ==
  ASSUME TypeOK, TypeOK', Counted, CallGood, ClearNode
  PROVE  Counted'
  <1>1. /\ pc = "clear_node" /\ pc' = "superblock" /\ CountInodes(1)
        /\ inode_bitmap' = inode_bitmap \ {fr.inum}
        /\ UNCHANGED <<superblock, bgdt, block_bitmap, crashes>>
    BY DEF ClearNode, Goto
  <1>2. fr.inum \in inode_bitmap
    BY <1>1 DEF CallGood, GoodAt, Removing, Meta
  <1>3. FreeInodes' = FreeInodes \cup {fr.inum} /\ FreeBlocks' = FreeBlocks
        /\ fr.inum \notin FreeInodes
    BY <1>1, <1>2 DEF FreeBlocks, FreeInodes, TypeOK
  <1>4. Cardinality(FreeInodes \cup {fr.inum}) = Cardinality(FreeInodes) + 1
    BY <1>3, CountNumbers, FS_AddElement
  <1>5. /\ Cardinality(FreeBlocks)' = Cardinality(FreeBlocks) + 0
        /\ Cardinality(FreeInodes)' = Cardinality(FreeInodes) + 1
    BY <1>3, <1>4, CountNumbers
  <1>6. /\ sb'.free_blocks = sb.free_blocks + 0 /\ sb'.free_inodes = sb.free_inodes + 1
        /\ bgd'.free_blocks = bgd.free_blocks + 0 /\ bgd'.free_inodes = bgd.free_inodes + 1
    BY <1>1, CounterTypes DEF CountInodes, TypeOK, Super, Group
  <1>7. pc \notin Meta \cup {"off"}
    BY <1>1 DEF Meta
  <1>. QED  BY <1>1, <1>5, <1>6, <1>7, ChangeCounts

(* allocate_block, which may also find the disk full and go on at once.     *)
LEMMA AllocateBlockCounts ==
  ASSUME TypeOK, TypeOK', Counted, pc \notin Meta \cup {"off"}, UNCHANGED crashes,
         NEW ok, NEW full, full \notin Meta \cup {"off"}, allocate_block(ok, full)
  PROVE  Counted'
  <1>1. CASE NoBlock /\ Goto(full) /\ UNCHANGED <<disk, mem, fr>>
    BY <1>1, QuietCounts DEF Goto, disk, mem
  <1>2. CASE ~(NoBlock /\ Goto(full) /\ UNCHANGED <<disk, mem, fr>>)
    <2>1. PICK b \in FreeBlocks :
            /\ block_bitmap' = block_bitmap \cup {b} /\ CountBlocks(-1)
            /\ pc' = "superblock" /\ UNCHANGED <<superblock, bgdt, inode_bitmap>>
      BY <1>2 DEF allocate_block, Goto
    <2>. QED  BY <2>1, TakeCounts
  <1>. QED  BY <1>1, <1>2

(* The two writes of the counters; after them the call goes on elsewhere.   *)
LEMMA MetaCounts ==
  ASSUME TypeOK, TypeOK', Counted, CallGood, WriteSuperblock \/ WriteBgdt
  PROVE  Counted'
  <1>1. CASE WriteSuperblock
    <2>1. /\ pc = "superblock" /\ pc' = "bgdt" /\ superblock' = sb
          /\ UNCHANGED <<bgdt, block_bitmap, inode_bitmap, sb, bgd, crashes>>
      BY <1>1 DEF WriteSuperblock, Goto, mem
    <2>2. Misses(sb, bgd) /\ Near(bgd, bgdt)
      BY <2>1 DEF Counted
    <2>3. Misses(sb, bgd)' /\ Near(bgd, bgdt)'
      BY <2>1, <2>2 DEF Misses, FreeBlocks, FreeInodes, Near
    <2>. QED  BY <2>1, <2>3 DEF Counted, Meta
  <1>2. CASE WriteBgdt
    <2>1. /\ pc = "bgdt" /\ pc' = fr.back /\ bgdt' = bgd
          /\ UNCHANGED <<superblock, block_bitmap, inode_bitmap, sb, bgd, crashes>>
      BY <1>2 DEF WriteBgdt, Goto, mem
    <2>2. pc' \notin Meta \cup {"off"}
      BY <2>1 DEF CallGood, Meta, MakingLabels, FileLabels, MappedLabels, EarlyLabels,
         DirLabels, BuiltLabels, NamingLabels
    <2>3. Misses(sb, bgd) /\ sb = superblock
      BY <2>1 DEF Counted
    <2>4. Misses(sb, bgd)'
      BY <2>1, <2>3 DEF Misses, FreeBlocks, FreeInodes
    <2>5. Near(bgd, bgdt)'
      BY <2>1, CounterTypes DEF Near, Abs
    <2>. QED  BY <2>1, <2>2, <2>3, <2>4, <2>5 DEF Counted, Meta
  <1>. QED  BY <1>1, <1>2

(* What a power failure leaves on the disk, and what the next boot reads.   *)
LEMMA CrashCounts ==
  ASSUME TypeOK, TypeOK', Counted, signature, Crash \/ Boot
  PROVE  Counted'
  <1>1. PICK fb, fi : fb = Cardinality(FreeBlocks) /\ fi = Cardinality(FreeInodes)
    OBVIOUS
  <1>2. PICK tb, ti : tb = TOTAL_BLOCKS - BLOCKS_PER_GROUP /\ ti = TOTAL_INODES - INODES_PER_GROUP
    OBVIOUS
  <1>3. fb \in Nat /\ fi \in Nat /\ tb \in Int /\ ti \in Int /\ crashes \in Nat
    BY <1>1, <1>2, CountNumbers
  <1>4. CASE Crash
    <2>1. /\ pc # "off" /\ pc' = "off" /\ crashes' = crashes + 1
          /\ UNCHANGED <<superblock, bgdt, block_bitmap, inode_bitmap>>
      BY <1>4 DEF Crash, disk
    <2>2. Misses(sb, bgd) /\ Near(bgd, bgdt)
      BY <2>1 DEF Counted
    <2>3. \/ sb = superblock
          \/ SameLead
      BY <2>1 DEF Counted, Meta
    <2>4. Cardinality(FreeBlocks)' = fb /\ Cardinality(FreeInodes)' = fi
      BY <1>1, <2>1 DEF FreeBlocks, FreeInodes
    <2>5. /\ Abs(bgdt.free_blocks - fb) <= crashes + 1
          /\ Abs(bgdt.free_inodes - fi) <= crashes + 1
      BY <1>1, <1>3, <2>2, CounterTypes DEF Misses, Near, Abs
    <2>6. /\ Abs(superblock.free_blocks - bgdt.free_blocks - tb) <= crashes + 1
          /\ Abs(superblock.free_inodes - bgdt.free_inodes - ti) <= crashes + 1
      <3>1. CASE sb = superblock
        BY <1>2, <1>3, <2>2, <3>1, CounterTypes DEF Misses, Near, Abs
      <3>2. CASE SameLead
        BY <1>2, <1>3, <2>2, <3>2, CounterTypes DEF Misses, SameLead, Abs
      <3>. QED  BY <2>3, <3>1, <3>2
    <2>7. Misses(superblock, bgdt)'
      BY <1>2, <2>1, <2>4, <2>5, <2>6 DEF Misses
    <2>. QED  BY <2>1, <2>7 DEF Counted
  <1>5. CASE Boot
    <2>1. /\ pc = "off" /\ pc' = "idle" /\ sb' = superblock /\ bgd' = bgdt
          /\ UNCHANGED <<superblock, bgdt, block_bitmap, inode_bitmap, crashes>>
      BY <1>5 DEF Boot, Goto
    <2>2. Misses(superblock, bgdt)
      BY <2>1 DEF Counted
    <2>3. Misses(sb, bgd)'
      BY <2>1, <2>2 DEF Misses, FreeBlocks, FreeInodes
    <2>4. Near(bgd, bgdt)'
      BY <2>1, CounterTypes DEF Near, Abs
    <2>. QED  BY <2>1, <2>3, <2>4 DEF Counted, Meta
  <1>. QED  BY <1>4, <1>5

(* A step of write keeps the counters.                                      *)
LEMMA WriteCounts ==
  ASSUME TypeOK, TypeOK', Counted, Write
  PROVE  Counted'
  <1>. USE DEF Meta
  <1>1. CASE WriteRefused \/ NoEntry
    <2>1. pc \in {"write", "add_entry", "no_entry"} /\ pc' = "idle" /\ UNCHANGED <<disk, mem, crashes>>
      BY <1>1 DEF WriteRefused, NoEntry, Return
    <2>. QED  BY <2>1, QuietCounts DEF disk, mem
  <1>2. CASE AllocateNode
    BY <1>2, AllocateNodeCounts
  <1>3. CASE DirectBlock
    BY <1>3, AllocateBlockCounts, QuietCounts DEF DirectBlock, Goto, disk, mem
  <1>4. CASE IndirectBlock
    BY <1>4, AllocateBlockCounts, QuietCounts DEF IndirectBlock, Goto, disk, mem
  <1>5. CASE PointerBlock
    BY <1>5, AllocateBlockCounts, QuietCounts DEF PointerBlock, Goto, disk, mem
  <1>6. CASE DirectoryBlock \/ GrowDirectory
    BY <1>6, AllocateBlockCounts DEF DirectoryBlock, GrowDirectory
  <1>7. CASE StoreDirect \/ IndirectTable \/ StorePointer \/ WriteTable \/ WriteDots \/ WriteInode
    <2>1. /\ pc \in {"store_direct", "table", "store_pointer", "write_table", "dots", "inode"}
          /\ pc' \in {"direct", "pointer", "inode", "add_entry"}
          /\ UNCHANGED <<superblock, bgdt, block_bitmap, inode_bitmap, sb, bgd, crashes>>
      BY <1>7 DEF StoreDirect, IndirectTable, StorePointer, WriteTable, WriteDots, WriteInode,
         Goto, disk, mem
    <2>. QED  BY <2>1, QuietCounts
  <1>8. CASE AddEntry \/ GrowInode \/ GrowBlock
    <2>1. /\ pc \in {"add_entry", "grow", "grow_block"} /\ pc' \in {"idle", "grow_block"}
          /\ UNCHANGED <<superblock, bgdt, block_bitmap, inode_bitmap, sb, bgd, crashes>>
      BY <1>8 DEF AddEntry, GrowInode, GrowBlock, Goto, Return, mem
    <2>. QED  BY <2>1, QuietCounts
  <1>. QED  BY <1>1, <1>2, <1>3, <1>4, <1>5, <1>6, <1>7, <1>8 DEF Write

(* A step of delete keeps the counters.                                     *)
LEMMA DeleteCounts ==
  ASSUME TypeOK, TypeOK', Counted, CallGood, Delete
  PROVE  Counted'
  <1>. USE DEF Meta
  <1>1. CASE DeleteRefused \/ DeleteDone
    <2>1. pc \in {"delete", "done"} /\ pc' = "idle" /\ UNCHANGED <<disk, mem, crashes>>
      BY <1>1 DEF DeleteRefused, DeleteDone, Return
    <2>. QED  BY <2>1, QuietCounts DEF disk, mem
  <1>2. CASE Unlink \/ ClearInode
    <2>1. /\ pc \in {"delete", "free"} /\ pc' \in {"free", "clear_node"}
          /\ UNCHANGED <<superblock, bgdt, block_bitmap, inode_bitmap, sb, bgd, crashes>>
      BY <1>2 DEF Unlink, ClearInode, Goto, mem
    <2>. QED  BY <2>1, QuietCounts
  <1>3. CASE FreeBlock
    <2>1. pc = "free" /\ UNCHANGED <<superblock, bgdt, inode_bitmap, crashes>>
      BY <1>3 DEF FreeBlock
    <2>2. CASE Head(fr.todo) # 0 /\ Head(fr.todo) \in block_bitmap
      BY <1>3, <2>1, <2>2, GiveCounts DEF FreeBlock, Goto
    <2>3. CASE ~(Head(fr.todo) # 0 /\ Head(fr.todo) \in block_bitmap)
      BY <1>3, <2>1, <2>3, QuietCounts DEF FreeBlock, mem
    <2>. QED  BY <2>2, <2>3
  <1>4. CASE ClearNode
    BY <1>4, ClearNodeCounts
  <1>. QED  BY <1>1, <1>2, <1>3, <1>4 DEF Delete

(* A fresh or a blank disk.                                                 *)
LEMMA CountInit == Init /\ TypeOK => CountInv
  <1>. SUFFICES ASSUME Init, TypeOK PROVE CountInv
    OBVIOUS
  <1>1. pc = "off" /\ pc \notin MkfsLabels
    BY DEF Init, MkfsLabels, BitmapLabels, TableLabels, RootLabels, RootDirLabels
  <1>2. ASSUME signature PROVE Counted
    <2>1. ~FormatByKernel
      BY <1>2 DEF Init
    <2>2. /\ superblock = FreshSuper /\ bgdt = FreshGroup
          /\ block_bitmap = FreshBlockBitmap /\ inode_bitmap = FreshInodeBitmap
      BY <2>1 DEF Init
    <2>. QED  BY <1>1, <2>2, FreshCounts DEF Counted
  <1>. QED  BY <1>1, <1>2 DEF CountInv

(* create_ext2 writes the counters first and the bitmaps they count later.  *)
LEMMA FormatCounts ==
  ASSUME TypeOK, TypeOK', Formatting, CountInv, Next
  PROVE  CountInv'
  <1>. USE DEF MkfsLabels, BitmapLabels, TableLabels, RootLabels, RootDirLabels
  <1>1. ~Crash
    BY DEF Crash, Formatting, TypeOK
  <1>2. ~(Write \/ Delete \/ WriteSuperblock \/ WriteBgdt \/ CallWrite \/ CallDelete)
    BY NotFormatting DEF Formatting
  <1>3. CASE Boot
    BY <1>3 DEF Boot, Formatting, CountInv, Goto
  <1>4. CASE MkfsSuperblock
    BY <1>4 DEF MkfsSuperblock, CountInv, Goto
  <1>5. CASE MkfsBgdt
    BY <1>5 DEF MkfsBgdt, CountInv, Goto
  <1>6. CASE MkfsBlockBitmap \/ MkfsInodeBitmap \/ MkfsTable \/ MkfsRoot
    BY <1>6 DEF MkfsBlockBitmap, MkfsInodeBitmap, MkfsTable, MkfsRoot, CountInv, Goto, mem
  <1>7. CASE MkfsRootDir
    <2>1. /\ pc = "mkfs_root_dir" /\ pc' = "idle"
          /\ UNCHANGED <<superblock, bgdt, block_bitmap, inode_bitmap, sb, bgd, crashes>>
      BY <1>7 DEF MkfsRootDir, Goto
    <2>2. /\ sb = FreshSuper /\ superblock = FreshSuper /\ bgd = FreshGroup /\ bgdt = FreshGroup
          /\ block_bitmap = FreshBlockBitmap /\ inode_bitmap = FreshInodeBitmap
      BY <2>1 DEF CountInv, Formatting
    <2>3. Misses(sb, bgd)
      BY <2>2, FreshCounts
    <2>4. Misses(sb, bgd)'
      BY <2>1, <2>3 DEF Misses, FreeBlocks, FreeInodes
    <2>5. Near(bgd, bgdt)'
      BY <2>1, <2>2, CounterTypes DEF Near, Abs
    <2>6. Counted'
      BY <2>1, <2>2, <2>4, <2>5 DEF Counted, Meta
    <2>. QED  BY <2>1, <2>6 DEF CountInv
  <1>. QED  BY <1>1, <1>2, <1>3, <1>4, <1>5, <1>6, <1>7 DEF Next, Step, Mkfs

(* Every step keeps the counters.                                           *)
LEMMA CountStep ==
  Orderly /\ Inv /\ Inv' /\ TreeInv /\ CountInv /\ [Next]_vars => CountInv'
  <1>. SUFFICES ASSUME Orderly, Inv, Inv', TreeInv, CountInv, [Next]_vars PROVE CountInv'
    OBVIOUS
  <1>0. TypeOK /\ TypeOK'
    BY DEF Inv
  <1>1. CASE UNCHANGED vars
    BY <1>1 DEF vars, disk, mem, CountInv, Counted, Misses, Near, SameLead, FreeBlocks, FreeInodes
  <1>2. CASE Next /\ Formatting
    BY <1>0, <1>2, FormatCounts
  <1>3. CASE Next /\ signature /\ WellFormed /\ CallGood
    <2>0. ASSUME NEW l, l \in CallLabels \cup Meta
          PROVE  l \notin MkfsLabels
      BY <2>0 DEF MkfsLabels, BitmapLabels, TableLabels, RootLabels, RootDirLabels, Meta,
         CallLabels, MakingLabels, FileLabels, MappedLabels, EarlyLabels, DirLabels,
         BuiltLabels, NamingLabels
    <2>1. pc \notin MkfsLabels /\ Counted
      BY <1>3, <2>0 DEF CallGood, CountInv
    <2>2. ~Mkfs
      BY <2>1 DEF Mkfs, MkfsSuperblock, MkfsBgdt, MkfsBlockBitmap, MkfsInodeBitmap,
         MkfsTable, MkfsRoot, MkfsRootDir, MkfsLabels, BitmapLabels, TableLabels,
         RootLabels, RootDirLabels
    <2>3. CASE CallWrite \/ CallDelete
      <3>1. /\ pc = "idle" /\ pc' \in {"write", "delete"}
            /\ UNCHANGED <<superblock, bgdt, block_bitmap, inode_bitmap, sb, bgd, crashes>>
        BY <2>3 DEF CallWrite, CallDelete, Call, Request, NoFrame, disk, mem
      <3>. QED  BY <2>1, <3>1, QuietCounts DEF Meta, CountInv, MkfsLabels, BitmapLabels, TableLabels,
                   RootLabels, RootDirLabels
    <2>4. CASE ~(CallWrite \/ CallDelete)
      <3>1. Counted'
        BY <1>0, <1>3, <2>1, <2>2, <2>4, WriteCounts, DeleteCounts, MetaCounts, CrashCounts DEF Next, Step
      <3>2. signature'
        BY <1>0, <1>3, SignatureStays
      <3>3. pc' \notin MkfsLabels
        <4>1. CallGood'
          BY <1>0, <1>3, CallStep
        <4>2. pc' \in CallLabels \cup Meta
          BY <4>1 DEF CallGood
        <4>. QED  BY <2>0, <4>2
      <3>. QED  BY <3>1, <3>2, <3>3 DEF CountInv
    <2>. QED  BY <2>3, <2>4
  <1>. QED  BY <1>1, <1>2, <1>3 DEF TreeInv

(* Between calls the free counters on the disk are those in memory and miss the
   bitmaps by at most one for each power failure: allocate_block, allocate_node,
   deallocate_single_block and deallocate_node change a bit and both counters
   together, and a failure loses one change at the most.                    *)
THEOREM CountersAlwaysTrack == ASSUME Orderly PROVE Spec => []CountersTrackBitmaps
  <1>1. Init => Inv /\ TreeInv /\ CountInv
    BY InitInv, TreeInit, CountInit DEF Inv
  <1>2. Inv /\ TreeInv /\ CountInv /\ [Next]_vars => (Inv /\ TreeInv /\ CountInv)'
    BY StepInv, TreeStep, CountStep
  <1>3. Inv /\ TreeInv /\ CountInv => CountersTrackBitmaps
    <2>. SUFFICES ASSUME Inv, TreeInv, CountInv, pc = "idle", initialized
                  PROVE  /\ sb = superblock /\ bgd = bgdt /\ Misses(sb, bgd)
      BY DEF CountersTrackBitmaps, Misses
    <2>1. pc \notin MkfsLabels /\ pc \notin Meta /\ pc # "off"
      BY DEF MkfsLabels, BitmapLabels, TableLabels, RootLabels, RootDirLabels, Meta
    <2>2. signature
      BY <2>1 DEF TreeInv, Formatting
    <2>. QED  BY <2>1, <2>2 DEF CountInv, Counted
  <1>. QED  BY <1>1, <1>2, <1>3, PTL DEF Spec

-----------------------------------------------------------------------------
(* What the inodes point at has been written.                               *)

(* What position j of inode i must lead to.                                 *)
KindAt(i, j) ==
  IF j = NDirect THEN "table" ELSE IF inode_table[i].mode = "dir" THEN "dir" ELSE "data"

(* A power failure between GrowInode and GrowBlock leaves a directory with a
   block nobody has written; nothing else does.                             *)
NamedWritten ==
  \A i \in Inodes, j \in Positions : IsNamed(i) /\ PtrAt(i, j) # 0 =>
    \/ pc = "grow_block" /\ PtrAt(i, j) = fr.got
    \/ crashes > 0 /\ inode_table[i].mode = "dir" /\ j # NDirect
    \/ blk[PtrAt(i, j)].kind = KindAt(i, j)

(* So it is with the inode write is making, its indirect block apart, which is
   the last to be written.                                                  *)
Ahead == IF pc \in Meta THEN fr.back ELSE pc
NewKind == IF fr.dir THEN "dir" ELSE "data"
HeldWritten ==
  \A j \in Positions : j # NDirect /\ Held(j) # 0 => blk[Held(j)].kind = NewKind

WrittenInv == Formatting \/ (NamedWritten /\ (Ahead \in MakingLabels => HeldWritten))

(* No inode gets a name, and those that keep theirs keep their maps.        *)
FewerMaps == (\A i : IsNamed(i)' => IsNamed(i)) /\ MapsKept

(* A step that names nothing and writes no block in use.                    *)
LEMMA NamedKept ==
  ASSUME TypeOK, NamedWritten, pc # "grow_block", FewerMaps,
         crashes \in Nat, crashes' \in Nat, crashes' >= crashes,
         \A b \in Blocks : b # 0 /\ Owned(b) => blk'[b].kind = blk[b].kind
  PROVE  NamedWritten'
  <1>. SUFFICES ASSUME NEW i \in Inodes, NEW j \in Positions, IsNamed(i)', PtrAt(i, j)' # 0
                PROVE  \/ crashes' > 0 /\ inode_table'[i].mode = "dir" /\ j # NDirect
                       \/ blk'[PtrAt(i, j)'].kind = KindAt(i, j)'
    BY DEF NamedWritten
  <1>1. IsNamed(i) /\ inode_table'[i] = inode_table[i] /\ PtrAt(i, j)' = PtrAt(i, j)
    BY DEF FewerMaps, MapsKept
  <1>2. PICK b : b = PtrAt(i, j)
    OBVIOUS
  <1>3. b \in Blocks /\ b # 0 /\ Owned(b)
    BY <1>1, <1>2, PtrType DEF Owned
  <1>4. KindAt(i, j)' = KindAt(i, j)
    BY <1>1 DEF KindAt
  <1>5. \/ crashes > 0 /\ inode_table[i].mode = "dir" /\ j # NDirect
        \/ blk[b].kind = KindAt(i, j)
    BY <1>1, <1>2, <1>3 DEF NamedWritten
  <1>6. blk'[b].kind = blk[b].kind
    BY <1>3
  <1>. QED  BY <1>1, <1>2, <1>4, <1>5, <1>6

(* A step that leaves the tree alone.                                       *)
LEMMA SameFewer ==
  ASSUME TypeOK, TypeOK', WellFormed, SameTree
  PROVE  FewerMaps
  <1>1. \A i : IsNamed(i)' => IsNamed(i)
    BY SameTreeKept
  <1>2. MapsKept
    BY <1>1 DEF MapsKept, SameTree, SameMaps
  <1>. QED  BY <1>1, <1>2 DEF FewerMaps

(* It writes neither the data area nor the inode table.                     *)
LEMMA QuietNamed ==
  ASSUME TypeOK, TypeOK', NamedWritten, pc # "grow_block", crashes' >= crashes,
         UNCHANGED <<blk, inode_table>>
  PROVE  NamedWritten'
  <1>1. \A i : IsNamed(i)' => IsNamed(i)
    BY DEF IsNamed, Ents
  <1>2. MapsKept
    BY DEF MapsKept, PtrAt
  <1>3. crashes \in Nat /\ crashes' \in Nat
    BY Ext2Assumption DEF TypeOK
  <1>. QED  BY <1>1, <1>2, <1>3, NamedKept DEF FewerMaps

(* It writes a block nobody points at.                                      *)
LEMMA PutNamed ==
  ASSUME TypeOK, TypeOK', WellFormed, NamedWritten, pc # "grow_block", SameTree,
         UNCHANGED crashes, NEW x, ~Owned(x),
         \A b \in Blocks : b # x => blk'[b] = blk[b]
  PROVE  NamedWritten'
  <1>1. FewerMaps
    BY SameFewer
  <1>2. \A b \in Blocks : b # 0 /\ Owned(b) => blk'[b].kind = blk[b].kind
    OBVIOUS
  <1>3. crashes \in Nat /\ crashes' \in Nat /\ crashes' >= crashes
    BY Ext2Assumption DEF TypeOK
  <1>. QED  BY <1>1, <1>2, <1>3, NamedKept

(* A pointer of the new inode is a block.                                   *)
LEMMA HeldType ==
  ASSUME TypeOK, NEW j \in Positions
  PROVE  Held(j) \in Blocks
  <1>1. CASE j <= NDirect
    <2>1. j \in 0 .. NDirect
      BY <1>1, PositionFacts DEF Positions
    <2>. QED  BY <1>1, <2>1, FrameParts DEF Held
  <1>2. CASE ~(j <= NDirect)
    <2>1. j - NDirect - 1 \in 0 .. NIndirect - 1
      BY <1>2, PositionFacts DEF Positions
    <2>. QED  BY <1>2, <2>1, FrameParts DEF Held
  <1>. QED  BY <1>1, <1>2

(* The new inode's blocks, as it takes one more or has its table written.   *)
LEMMA HeldStep ==
  ASSUME TypeOK, HeldWritten, fr'.dir = fr.dir, NEW x,
         \A b \in Blocks : b # x => blk'[b] = blk[b],
         \A j \in Positions : j # NDirect /\ Held(j)' # 0 =>
           \/ Held(j)' = x /\ blk'[x].kind = NewKind
           \/ Held(j)' = Held(j) /\ Held(j) # x
  PROVE  HeldWritten'
  <1>. SUFFICES ASSUME NEW j \in Positions, j # NDirect, Held(j)' # 0
                PROVE  blk'[Held(j)'].kind = NewKind'
    BY DEF HeldWritten
  <1>1. NewKind' = NewKind
    BY DEF NewKind
  <1>2. CASE Held(j)' = x /\ blk'[x].kind = NewKind
    BY <1>1, <1>2
  <1>3. CASE Held(j)' = Held(j) /\ Held(j) # x
    <2>1. Held(j) \in Blocks
      BY HeldType
    <2>. QED  BY <1>1, <1>3, <2>1 DEF HeldWritten
  <1>. QED  BY <1>2, <1>3

(* Where a step goes on.                                                    *)
LEMMA AheadNext ==
  /\ pc' \notin Meta => Ahead' = pc'
  /\ pc' \in Meta => Ahead' = fr'.back
  /\ pc \notin Meta => Ahead = pc
  /\ pc \in Meta => Ahead = fr.back
  BY DEF Ahead

(* allocate_block changes none of the pointers.                             *)
LEMMA TakeWritten ==
  ASSUME TypeOK, TypeOK', CallGood, NamedWritten, Ahead \in MakingLabels => HeldWritten,
         \/ DirectBlock \/ IndirectBlock \/ PointerBlock \/ DirectoryBlock
         \/ GrowDirectory
  PROVE  NamedWritten' /\ HeldWritten'
  <1>1. \/ \E ok, full : allocate_block(ok, full)
        \/ UNCHANGED <<disk, mem, fr>>
    BY DEF DirectBlock, IndirectBlock, PointerBlock, DirectoryBlock, GrowDirectory
  <1>2. /\ UNCHANGED <<blk, inode_table>>
        /\ fr'.node = fr.node /\ fr'.ptr = fr.ptr /\ fr'.dir = fr.dir
    <2>1. CASE \E ok, full : allocate_block(ok, full)
      <3>1. fr \in Frame
        BY DEF TypeOK
      <3>. QED  BY <2>1, <3>1 DEF allocate_block, disk, Frame
    <2>2. CASE UNCHANGED <<disk, mem, fr>>
      BY <2>2 DEF disk
    <2>. QED  BY <1>1, <2>1, <2>2
  <1>3. /\ pc \in {"direct", "indirect", "pointer", "dir", "add_entry"}
        /\ UNCHANGED crashes
    BY DEF DirectBlock, IndirectBlock, PointerBlock, DirectoryBlock, GrowDirectory
  <1>4. pc # "grow_block" /\ pc \notin Meta /\ pc \in MakingLabels
    BY <1>3 DEF Meta, MakingLabels, FileLabels, MappedLabels, EarlyLabels, DirLabels,
       BuiltLabels, NamingLabels
  <1>5. NamedWritten'
    <2>1. crashes' >= crashes
      BY <1>3, Ext2Assumption DEF TypeOK
    <2>. QED  BY <1>2, <1>4, <2>1, QuietNamed
  <1>6. HeldWritten'
    BY <1>2, <1>4, AheadNext DEF HeldWritten, Held, NewKind
  <1>. QED  BY <1>5, <1>6

(* The block write has been given, once it is written.                      *)
LEMMA StoreWritten ==
  ASSUME Inv, TypeOK', WellFormed, CallGood, NamedWritten,
         Ahead \in MakingLabels => HeldWritten,
         StoreDirect \/ StorePointer \/ WriteDots
  PROVE  NamedWritten' /\ HeldWritten'
  <1>. USE DEF MakingLabels, FileLabels, MappedLabels, EarlyLabels, DirLabels,
               BuiltLabels, NamingLabels, PendingLabels
  <1>0. TypeOK
    BY DEF Inv
  <1>1. /\ pc \in {"store_direct", "store_pointer", "dots"} /\ UNCHANGED crashes
        /\ pc \notin Meta /\ pc # "grow_block"
    BY DEF StoreDirect, StorePointer, WriteDots, Meta
  <1>2. PendingBlock /\ HeldWritten
    BY <1>1, GoodHere, AheadNext DEF GoodAt
  <1>3. PICK c : blk' = [blk EXCEPT ![fr.got] = c] /\ c.kind = NewKind
    <2>1. CASE StoreDirect \/ StorePointer
      <3>1. pc \in {"store_direct", "store_pointer"}
        BY <2>1 DEF StoreDirect, StorePointer
      <3>2. ~fr.dir
        BY <1>1, <3>1, GoodHere DEF GoodAt
      <3>3. DataBlock(fr.content[fr.n + 1]).kind = NewKind
        BY <3>2 DEF DataBlock, NewKind
      <3>. QED  BY <2>1, <3>3 DEF StoreDirect, StorePointer
    <2>2. CASE WriteDots
      <3>1. pc = "dots"
        BY <2>2 DEF WriteDots
      <3>2. fr.dir
        BY <1>1, <3>1, GoodHere DEF GoodAt
      <3>3. DirBlock(DotEntries(fr.inum, fr.parent)).kind = NewKind
        BY <3>2 DEF DirBlock, NewKind
      <3>. QED  BY <2>2, <3>3 DEF WriteDots
    <2>. QED  BY <2>1, <2>2
  <1>4. PICK x : x = fr.got
    OBVIOUS
  <1>5. /\ x \in Blocks /\ ~Owned(x) /\ blk'[x] = c
        /\ \A b \in Blocks : b # x => blk'[b] = blk[b]
    BY <1>0, <1>2, <1>3, <1>4, GotBlock DEF Private, TypeOK
  <1>6. SameTree /\ \E p : \A j \in Positions : Held(j)' = IF j = p THEN x ELSE Held(j)
    BY <1>0, <1>4, StoreDirectTree, StorePointerTree, WriteDotsTree
  <1>7. NamedWritten'
    BY <1>0, <1>1, <1>5, <1>6, PutNamed
  <1>8. fr'.dir = fr.dir
    <2>1. fr \in Frame
      BY <1>0 DEF TypeOK
    <2>. QED  BY <2>1 DEF StoreDirect, StorePointer, WriteDots, Frame
  <1>9. \A j \in Positions : \/ Held(j)' = x /\ blk'[x].kind = NewKind
                             \/ Held(j)' = Held(j) /\ Held(j) # x
    BY <1>2, <1>3, <1>4, <1>5, <1>6 DEF PendingBlock
  <1>. QED  BY <1>0, <1>2, <1>5, <1>7, <1>8, <1>9, HeldStep

(* The indirect block, in memory and then on the disk.                      *)
LEMMA TableWritten ==
  ASSUME TypeOK, TypeOK', WellFormed, CallGood, NamedWritten,
         Ahead \in MakingLabels => HeldWritten, IndirectTable \/ WriteTable
  PROVE  NamedWritten' /\ HeldWritten'
  <1>. USE DEF MakingLabels, FileLabels, MappedLabels, EarlyLabels, DirLabels,
               BuiltLabels, NamingLabels, PendingLabels
  <1>1. /\ pc \in {"table", "write_table"} /\ UNCHANGED crashes
        /\ pc \notin Meta /\ pc # "grow_block"
    BY DEF IndirectTable, WriteTable, Meta
  <1>2. MakingBlocks /\ HeldWritten
    BY <1>1, GoodHere, AheadNext DEF GoodAt
  <1>3. crashes' >= crashes
    BY <1>1, Ext2Assumption DEF TypeOK
  <1>4. CASE IndirectTable
    <2>1. UNCHANGED <<blk, inode_table>> /\ fr'.dir = fr.dir
      <3>1. fr \in Frame
        BY DEF TypeOK
      <3>. QED  BY <1>4, <3>1 DEF IndirectTable, disk, Frame
    <2>2. NamedWritten'
      BY <1>1, <1>3, <2>1, QuietNamed
    <2>3. \A j \in Positions : j # NDirect => Held(j)' = Held(j)
      BY <1>4, IndirectTableTree
    <2>4. HeldWritten'
      BY <1>2, <2>1, <2>3 DEF HeldWritten, NewKind
    <2>. QED  BY <2>2, <2>4
  <1>5. CASE WriteTable
    <2>1. PICK x : x = fr.node.block[NDirect]
      OBVIOUS
    <2>2. x = Held(NDirect) /\ x # 0 /\ x \in Blocks
      <3>1. pc = "write_table"
        BY <1>5 DEF WriteTable
      <3>2. fr.node.block[NDirect] # 0
        BY <1>1, <3>1, GoodHere DEF GoodAt
      <3>. QED  BY <2>1, <3>2, FrameParts, PositionFacts DEF Held
    <2>3. ~Owned(x) /\ \A j \in Positions : Held(j) = x => j = NDirect
      BY <1>2, <2>2, PositionFacts DEF MakingBlocks, Private
    <2>4. \A b \in Blocks : b # x => blk'[b] = blk[b]
      BY <1>5, <2>1, <2>2 DEF WriteTable, TypeOK
    <2>5. SameTree
      BY <1>5, WriteTableTree
    <2>6. NamedWritten'
      BY <1>1, <2>3, <2>4, <2>5, PutNamed
    <2>7. UNCHANGED fr /\ \A j : Held(j)' = Held(j)
      BY <1>5 DEF WriteTable, Held
    <2>. QED  BY <1>2, <2>3, <2>4, <2>6, <2>7, HeldStep
  <1>. QED  BY <1>4, <1>5

(* The new inode on the disk, still without a name; and an inode cleared.   *)
LEMMA InodeWritten ==
  ASSUME TypeOK, TypeOK', WellFormed, CallGood, NamedWritten,
         Ahead \in MakingLabels => HeldWritten, WriteInode \/ ClearInode
  PROVE  NamedWritten' /\ (Ahead' \in MakingLabels => HeldWritten')
  <1>. USE DEF MakingLabels, FileLabels, MappedLabels, EarlyLabels, DirLabels,
               BuiltLabels, NamingLabels, PendingLabels
  <1>1. /\ pc \in {"inode", "free"} /\ UNCHANGED <<blk, fr, crashes>>
        /\ pc \notin Meta /\ pc # "grow_block"
    BY DEF WriteInode, ClearInode, Meta
  <1>2. FewerMaps
    BY WriteInodeTree, ClearInodeTree, SameFewer
  <1>3. crashes \in Nat /\ crashes' \in Nat /\ crashes' >= crashes
    BY <1>1, Ext2Assumption DEF TypeOK
  <1>4. NamedWritten'
    BY <1>1, <1>2, <1>3, NamedKept
  <1>5. CASE WriteInode
    <2>1. pc = "inode"
      BY <1>5 DEF WriteInode
    <2>. QED  BY <1>1, <1>4, <2>1, AheadNext DEF HeldWritten, Held, NewKind
  <1>6. CASE ClearInode
    <2>1. pc' = "clear_node" /\ pc' \notin Meta
      BY <1>6 DEF ClearInode, Goto, Meta
    <2>. QED  BY <1>4, <2>1, AheadNext
  <1>. QED  BY <1>5, <1>6

(* The block of a position is a directory block already.                    *)
LEMMA SlotBlock ==
  ASSUME TypeOK, NEW d \in Inodes, NEW s \in Slots(d)
  PROVE  /\ s[1] \in Direct /\ inode_table[d].block[s[1]] \in Blocks
         /\ inode_table[d].block[s[1]] # 0
         /\ blk[inode_table[d].block[s[1]]].kind = "dir"
  <1>1. s[1] \in DirBlocks(d) /\ s[2] \in DOMAIN DirEnts(d, s[1])
    BY DEF Slots
  <1>2. PICK p, b : p = s[1] /\ b = inode_table[d].block[p]
    OBVIOUS
  <1>3. p \in Direct /\ b # 0
    BY <1>1, <1>2, LayoutFacts DEF DirBlocks, Direct
  <1>4. b \in Blocks
    BY <1>2, <1>3, DiskParts, LayoutFacts DEF Direct
  <1>5. blk[b].kind = "dir"
    <2>1. Ents(b) # <<>>
      BY <1>1, <1>2 DEF DirEnts
    <2>. QED  BY <2>1 DEF Ents
  <1>. QED  BY <1>2, <1>3, <1>4, <1>5

(* The inode gets its name: what it points at has been written.             *)
LEMMA NewNamed ==
  ASSUME TypeOK, TypeOK', WellFormed, NamedWritten, HeldWritten, MakingNode, MakingBlocks,
         Built, inode_table[fr.inum] = fr.node, OneMoreMap,
         UNCHANGED <<inode_table, crashes>>,
         NEW p0 \in Direct, NEW x \in Blocks, x # 0, pc = "grow_block" => fr.got = x,
         inode_table[fr.parent].block[p0] = x, blk'[x].kind = "dir",
         \A b \in Blocks : b # x => blk'[b] = blk[b]
  PROVE  NamedWritten'
  <1>1. /\ fr.parent \in Inodes /\ IsNamed(fr.parent)
        /\ inode_table[fr.parent].mode = "dir"
        /\ p0 \in Positions /\ p0 # NDirect /\ PtrAt(fr.parent, p0) = x
    <2>1. p0 \in Positions /\ p0 <= NDirect /\ p0 # NDirect
      BY PositionFacts DEF Direct, Positions
    <2>. QED  BY <2>1 DEF MakingNode, ParentGood, DirOf, PtrAt
  <1>2. Owned(x)
    BY <1>1 DEF Owned
  <1>. SUFFICES ASSUME NEW i \in Inodes, NEW j \in Positions, IsNamed(i)', PtrAt(i, j)' # 0
                PROVE  \/ crashes' > 0 /\ inode_table'[i].mode = "dir" /\ j # NDirect
                       \/ blk'[PtrAt(i, j)'].kind = KindAt(i, j)'
    BY DEF NamedWritten
  <1>3. (IsNamed(i) \/ i = fr.inum) /\ PtrAt(i, j)' = PtrAt(i, j)
    BY DEF OneMoreMap
  <1>4. PICK b : b = PtrAt(i, j)
    OBVIOUS
  <1>5. b \in Blocks /\ b # 0 /\ KindAt(i, j)' = KindAt(i, j)
    BY <1>3, <1>4, PtrType DEF KindAt
  <1>6. CASE IsNamed(i) /\ b = x
    <2>1. OneOwner
      BY DEF WellFormed
    <2>3. PICK d : d = fr.parent
      OBVIOUS
    <2>4. d \in Inodes /\ IsNamed(d) /\ PtrAt(i, j) = PtrAt(d, p0) /\ PtrAt(i, j) # 0
      BY <1>1, <1>4, <1>5, <1>6, <2>3
    <2>5. i = d /\ j = p0
      BY <1>1, <1>6, <2>1, <2>4 DEF OneOwner
    <2>2. i = fr.parent /\ j = p0
      BY <2>3, <2>5
    <2>. QED  BY <1>1, <1>3, <1>4, <1>5, <1>6, <2>2 DEF KindAt
  <1>7. CASE IsNamed(i) /\ b # x
    <2>1. \/ crashes > 0 /\ inode_table[i].mode = "dir" /\ j # NDirect
          \/ blk[b].kind = KindAt(i, j)
      BY <1>4, <1>5, <1>7 DEF NamedWritten
    <2>. QED  BY <1>3, <1>4, <1>5, <1>7, <2>1
  <1>8. CASE i = fr.inum
    <2>1. Held(j) = b
      <3>1. CASE j <= NDirect
        BY <1>4, <1>8, <3>1 DEF PtrAt, Held
      <3>2. CASE ~(j <= NDirect)
        <4>1. PICK ind : ind = fr.node.block[NDirect]
          OBVIOUS
        <4>2. ind # 0 /\ b = blk[ind].ptr[j - NDirect - 1]
          BY <1>4, <1>5, <1>8, <3>2, <4>1 DEF PtrAt
        <4>3. blk[ind].ptr = fr.ptr
          BY <4>1, <4>2 DEF Built, TableBlock
        <4>. QED  BY <3>2, <4>2, <4>3 DEF Held
      <3>. QED  BY <3>1, <3>2
    <2>2. b # x
      BY <1>2, <1>5, <2>1 DEF MakingBlocks, Private
    <2>3. blk[b].kind = KindAt(i, j)
      <3>1. CASE j = NDirect
        <4>1. b = fr.node.block[NDirect]
          BY <2>1, <3>1, PositionFacts DEF Held
        <4>. QED  BY <1>5, <3>1, <4>1 DEF Built, TableBlock, KindAt
      <3>2. CASE j # NDirect
        <4>1. blk[b].kind = NewKind
          BY <1>5, <2>1, <3>2 DEF HeldWritten
        <4>2. inode_table[i].mode = IF fr.dir THEN "dir" ELSE "file"
          BY <1>8 DEF MakingNode, FrType
        <4>3. fr.dir \in BOOLEAN
          BY FrameParts
        <4>. QED  BY <3>2, <4>1, <4>2, <4>3 DEF KindAt, NewKind
      <3>. QED  BY <3>1, <3>2
    <2>. QED  BY <1>3, <1>4, <1>5, <2>2, <2>3
  <1>. QED  BY <1>3, <1>6, <1>7, <1>8

(* add_entry_to_dir.                                                        *)
LEMMA EntryWritten ==
  ASSUME TypeOK, TypeOK', WellFormed, CallGood, NamedWritten,
         Ahead \in MakingLabels => HeldWritten, AddEntry \/ GrowBlock
  PROVE  NamedWritten' /\ Ahead' \notin MakingLabels
  <1>. USE DEF MakingLabels, FileLabels, MappedLabels, EarlyLabels, DirLabels,
               BuiltLabels, NamingLabels, PendingLabels
  <1>1. /\ pc \in {"add_entry", "grow_block"} /\ pc' = "idle"
        /\ UNCHANGED <<inode_table, crashes>> /\ pc \notin Meta /\ pc' \notin Meta
    BY DEF AddEntry, GrowBlock, Return, Meta
  <1>2. Ahead' \notin MakingLabels
    BY <1>1, AheadNext
  <1>3. /\ MakingNode /\ MakingBlocks /\ Built /\ inode_table[fr.inum] = fr.node
        /\ HeldWritten
    BY <1>1, GoodHere, AheadNext DEF GoodAt
  <1>4. OneMoreMap
    BY AddEntryTree, GrowBlockTree
  <1>5. \E p \in Direct, x \in Blocks :
          /\ x # 0 /\ inode_table[fr.parent].block[p] = x /\ blk'[x].kind = "dir"
          /\ \A b \in Blocks : b # x => blk'[b] = blk[b]
          /\ pc = "grow_block" => fr.got = x
    <2>1. CASE AddEntry
      <3>1. PICK s \in First(Rooms(fr.parent, fr.name)) :
              LET b == inode_table[fr.parent].block[s[1]] IN
              blk' = [blk EXCEPT ![b] =
                        DirBlock(InsertEntry(Ents(b), s[2], fr.inum, fr.name, FrType))]
        BY <2>1 DEF AddEntry
      <3>2. PICK p, x, c : /\ p = s[1] /\ x = inode_table[fr.parent].block[p]
                           /\ c = InsertEntry(Ents(x), s[2], fr.inum, fr.name, FrType)
        OBVIOUS
      <3>3. s \in Slots(fr.parent) /\ fr.parent \in Inodes
        BY <1>3 DEF First, Rooms, MakingNode, ParentGood
      <3>4. p \in Direct /\ x \in Blocks /\ x # 0
        BY <3>2, <3>3, SlotBlock
      <3>5. blk' = [blk EXCEPT ![x] = DirBlock(c)] /\ pc = "add_entry"
        BY <2>1, <3>1, <3>2 DEF AddEntry
      <3>6. DirBlock(c).kind = "dir"
        BY DEF DirBlock
      <3>7. blk'[x].kind = "dir" /\ \A b \in Blocks : b # x => blk'[b] = blk[b]
        BY <3>4, <3>5, <3>6 DEF TypeOK
      <3>. QED  BY <3>2, <3>4, <3>5, <3>7
    <2>2. CASE GrowBlock
      <3>1. PICK x : x = fr.got
        OBVIOUS
      <3>2. GrownBlock /\ x \in Blocks
        BY <2>2, <3>1, GoodHere, FrameParts DEF GoodAt, GrowBlock, Meta
      <3>3. PICK p \in Direct : inode_table[fr.parent].block[p] = x
        BY <3>1, <3>2 DEF GrownBlock
      <3>4. PICK c : blk' = [blk EXCEPT ![x] = DirBlock(c)]
        BY <2>2, <3>1 DEF GrowBlock
      <3>5. DirBlock(c).kind = "dir"
        BY DEF DirBlock
      <3>6. blk'[x].kind = "dir" /\ \A b \in Blocks : b # x => blk'[b] = blk[b]
        BY <3>2, <3>4, <3>5 DEF TypeOK
      <3>. QED  BY <3>1, <3>2, <3>3, <3>6 DEF GrownBlock
    <2>. QED  BY <2>1, <2>2
  <1>6. PICK p \in Direct, x \in Blocks :
          /\ x # 0 /\ inode_table[fr.parent].block[p] = x /\ blk'[x].kind = "dir"
          /\ \A b \in Blocks : b # x => blk'[b] = blk[b]
          /\ pc = "grow_block" => fr.got = x
    BY <1>5
  <1>7. NamedWritten'
    BY <1>1, <1>3, <1>4, <1>6, NewNamed
  <1>. QED  BY <1>2, <1>7

(* A directory points at the block it grows into before that is written.    *)
LEMMA GrowWritten ==
  ASSUME TypeOK, TypeOK', WellFormed, CallGood, NamedWritten,
         Ahead \in MakingLabels => HeldWritten, GrowInode
  PROVE  NamedWritten' /\ HeldWritten'
  <1>. USE DEF MakingLabels, FileLabels, MappedLabels, EarlyLabels, DirLabels,
               BuiltLabels, NamingLabels, PendingLabels
  <1>1. /\ pc = "grow" /\ pc' = "grow_block" /\ UNCHANGED <<blk, fr, crashes>>
        /\ pc \notin Meta
    BY DEF GrowInode, Goto, Meta
  <1>2. /\ \A i : IsNamed(i)' <=> IsNamed(i)
        /\ \A i \in Inodes : inode_table'[i].mode = inode_table[i].mode
        /\ \A i \in Inodes, j \in Positions :
             PtrAt(i, j)' = fr.got \/ PtrAt(i, j)' = PtrAt(i, j)
    BY GrowInodeTree
  <1>3. NamedWritten'
    <2>. SUFFICES ASSUME NEW i \in Inodes, NEW j \in Positions, IsNamed(i)', PtrAt(i, j)' # 0,
                         PtrAt(i, j)' # fr.got
                  PROVE  \/ crashes' > 0 /\ inode_table'[i].mode = "dir" /\ j # NDirect
                         \/ blk'[PtrAt(i, j)'].kind = KindAt(i, j)'
      BY <1>1 DEF NamedWritten
    <2>1. IsNamed(i) /\ PtrAt(i, j)' = PtrAt(i, j) /\ KindAt(i, j)' = KindAt(i, j)
      BY <1>2 DEF KindAt
    <2>. QED  BY <1>1, <1>2, <2>1 DEF NamedWritten
  <1>4. HeldWritten'
    BY <1>1, AheadNext DEF HeldWritten, Held, NewKind
  <1>. QED  BY <1>3, <1>4

(* remove_entry_from_dir writes a block that is a directory block already.  *)
LEMMA UnlinkWritten ==
  ASSUME Orderly, TypeOK, TypeOK', WellFormed, CallGood, NamedWritten, Unlink
  PROVE  NamedWritten' /\ Ahead' \notin MakingLabels
  <1>1. /\ pc = "delete" /\ pc' = "free" /\ fr.parent # 0 /\ UNCHANGED crashes
    BY DEF Unlink, Goto
  <1>2. Ahead' = "free"
    BY <1>1, AheadNext DEF Meta
  <1>3. PICK s \in First(find_entry_in_dir(fr.parent, fr.name)) :
          LET b == inode_table[fr.parent].block[s[1]] IN
          blk' = [blk EXCEPT ![b] = DirBlock(RemoveEntry(Ents(b), s[2]))]
    BY DEF Unlink
  <1>4. s \in Slots(fr.parent) /\ fr.parent \in Inodes
    BY <1>1, FrameParts DEF First, find_entry_in_dir
  <1>5. PICK x, c : /\ x = inode_table[fr.parent].block[s[1]]
                    /\ c = DirBlock(RemoveEntry(Ents(x), s[2]))
    OBVIOUS
  <1>6. blk' = [blk EXCEPT ![x] = c] /\ c.kind = "dir"
    BY <1>3, <1>5 DEF DirBlock
  <1>7. x \in Blocks /\ blk[x].kind = "dir"
    BY <1>4, <1>5, SlotBlock
  <1>8. \A b \in Blocks : blk'[b].kind = blk[b].kind
    BY <1>6, <1>7 DEF TypeOK
  <1>9. FewerMaps
    BY UnlinkTree, FewerNamed DEF FewerMaps
  <1>10. crashes \in Nat /\ crashes' \in Nat /\ crashes' >= crashes /\ pc # "grow_block"
    BY <1>1, Ext2Assumption DEF TypeOK
  <1>11. NamedWritten'
    BY <1>8, <1>9, <1>10, NamedKept
  <1>. QED  BY <1>2, <1>11 DEF MakingLabels, FileLabels, MappedLabels, EarlyLabels,
               DirLabels, BuiltLabels, NamingLabels

(* deallocate_single_block writes a block that has lost its owner.          *)
LEMMA FreeWritten ==
  ASSUME TypeOK, TypeOK', WellFormed, CallGood, NamedWritten, FreeBlock
  PROVE  NamedWritten' /\ Ahead' \notin MakingLabels
  <1>1. /\ pc = "free" /\ fr.todo # <<>> /\ UNCHANGED crashes
        /\ pc' = "free" \/ (pc' \in Meta /\ fr'.back = "free")
    <2>1. fr \in Frame
      BY DEF TypeOK
    <2>. QED  BY <2>1 DEF FreeBlock, Goto, Meta, Frame
  <1>2. Ahead' = "free"
    BY <1>1, AheadNext DEF Meta
  <1>3. Doomed
    BY <1>1, GoodHere DEF GoodAt, Meta
  <1>4. PICK x : x = Head(fr.todo)
    OBVIOUS
  <1>5. x # 0 => ~Owned(x)
    <2>1. fr.todo \in Seq(Blocks)
      BY FrameParts
    <2>2. 1 \in DOMAIN fr.todo /\ x = fr.todo[1]
      BY <1>1, <1>4, <2>1
    <2>. QED  BY <1>3, <2>2 DEF Doomed
  <1>6. \A b \in Blocks : b # 0 /\ Owned(b) => blk'[b].kind = blk[b].kind
    <2>1. CASE x # 0 /\ x \in block_bitmap
      <3>1. blk' = [blk EXCEPT ![x] = Stale]
        BY <1>4, <2>1 DEF FreeBlock
      <3>. QED  BY <1>5, <2>1, <3>1 DEF TypeOK
    <2>2. CASE ~(x # 0 /\ x \in block_bitmap)
      BY <1>4, <2>2 DEF FreeBlock
    <2>. QED  BY <2>1, <2>2
  <1>7. FewerMaps
    BY FreeBlockTree, FewerNamed DEF FewerMaps
  <1>8. crashes \in Nat /\ crashes' \in Nat /\ crashes' >= crashes /\ pc # "grow_block"
    BY <1>1, Ext2Assumption DEF TypeOK
  <1>9. NamedWritten'
    BY <1>6, <1>7, <1>8, NamedKept
  <1>. QED  BY <1>2, <1>9 DEF MakingLabels, FileLabels, MappedLabels, EarlyLabels,
               DirLabels, BuiltLabels, NamingLabels

(* Calls, refusals and returns, and booting: the disk does not change.      *)
LEMMA OutsideWritten ==
  ASSUME TypeOK, TypeOK', NamedWritten, pc # "grow_block", UNCHANGED <<disk, crashes>>,
         pc' \in {"idle", "off", "write", "delete"}
  PROVE  NamedWritten' /\ Ahead' \notin MakingLabels
  <1>1. crashes' >= crashes
    BY Ext2Assumption DEF TypeOK
  <1>2. NamedWritten'
    BY <1>1, QuietNamed DEF disk
  <1>3. Ahead' = pc'
    BY AheadNext DEF Meta
  <1>. QED  BY <1>2, <1>3 DEF MakingLabels, FileLabels, MappedLabels, EarlyLabels,
               DirLabels, BuiltLabels, NamingLabels

(* The counters on their way to the disk; an inode taken, an inode given back. *)
LEMMA CountersWritten ==
  ASSUME TypeOK, TypeOK', WellFormed, CallGood, NamedWritten,
         Ahead \in MakingLabels => HeldWritten,
         WriteSuperblock \/ WriteBgdt \/ AllocateNode \/ ClearNode
  PROVE  NamedWritten' /\ (Ahead' \in MakingLabels => HeldWritten')
  <1>1. /\ pc # "grow_block" /\ UNCHANGED <<blk, inode_table, crashes>>
    BY DEF WriteSuperblock, WriteBgdt, AllocateNode, ClearNode
  <1>2. crashes' >= crashes
    BY <1>1, Ext2Assumption DEF TypeOK
  <1>3. NamedWritten'
    BY <1>1, <1>2, QuietNamed
  <1>4. CASE WriteSuperblock \/ WriteBgdt
    <2>1. pc \in Meta /\ UNCHANGED fr /\ (pc' = fr.back \/ pc' \in Meta)
      BY <1>4 DEF WriteSuperblock, WriteBgdt, Goto, Meta
    <2>2. fr.back \notin Meta
      BY <2>1, GoodBack DEF Meta, MakingLabels, FileLabels, MappedLabels, EarlyLabels,
         DirLabels, BuiltLabels, NamingLabels
    <2>3. Ahead' = Ahead
      BY <2>1, <2>2, AheadNext
    <2>. QED  BY <1>1, <1>3, <2>1, <2>3 DEF HeldWritten, Held, NewKind
  <1>5. CASE AllocateNode
    BY <1>3, <1>5, AllocateNodeTree DEF HeldWritten
  <1>6. CASE ClearNode
    <2>1. pc' \in Meta /\ fr'.back = "done"
      <3>1. fr \in Frame
        BY DEF TypeOK
      <3>. QED  BY <1>6, <3>1 DEF ClearNode, Goto, Meta, Frame
    <2>. QED  BY <1>3, <2>1, AheadNext DEF MakingLabels, FileLabels, MappedLabels,
                 EarlyLabels, DirLabels, BuiltLabels, NamingLabels
  <1>. QED  BY <1>4, <1>5, <1>6

(* Losing power, if need be before the block a directory has grown into is
   written.                                                                 *)
LEMMA CrashWritten ==
  ASSUME TypeOK, TypeOK', WellFormed, CallGood, NamedWritten, Crash
  PROVE  NamedWritten' /\ Ahead' \notin MakingLabels
  <1>1. /\ pc' = "off" /\ crashes' = crashes + 1 /\ UNCHANGED <<blk, inode_table>>
    BY DEF Crash, disk
  <1>2. Ahead' = "off"
    BY <1>1, AheadNext DEF Meta
  <1>3. crashes \in Nat /\ crashes' >= crashes /\ crashes' > 0
    BY <1>1, Ext2Assumption DEF TypeOK
  <1>4. CASE pc # "grow_block"
    BY <1>1, <1>2, <1>3, <1>4, QuietNamed DEF MakingLabels, FileLabels, MappedLabels,
       EarlyLabels, DirLabels, BuiltLabels, NamingLabels
  <1>5. CASE pc = "grow_block"
    <2>1. MakingNode /\ GrownBlock
      BY <1>5, GoodHere DEF GoodAt, Meta, MakingLabels, BuiltLabels, NamingLabels
    <2>2. PICK c \in Direct : inode_table[fr.parent].block[c] = fr.got /\ fr.got # 0
      BY <2>1 DEF GrownBlock
    <2>3. PICK d : d = fr.parent
      OBVIOUS
    <2>4. /\ d \in Inodes /\ IsNamed(d) /\ inode_table[d].mode = "dir"
          /\ c \in Positions /\ c # NDirect /\ PtrAt(d, c) = fr.got
      <3>1. c \in Positions /\ c <= NDirect /\ c # NDirect
        BY PositionFacts DEF Direct, Positions
      <3>. QED  BY <2>1, <2>2, <2>3, <3>1 DEF MakingNode, ParentGood, DirOf, PtrAt
    <2>5. OneOwner
      BY DEF WellFormed
    <2>6. ASSUME NEW i \in Inodes, NEW j \in Positions, IsNamed(i), PtrAt(i, j) = fr.got
          PROVE  inode_table[i].mode = "dir" /\ j # NDirect
      <3>1. PtrAt(i, j) # 0 /\ PtrAt(i, j) = PtrAt(d, c)
        BY <2>2, <2>4, <2>6
      <3>2. i = d /\ j = c
        BY <2>4, <2>5, <2>6, <3>1 DEF OneOwner
      <3>. QED  BY <2>4, <3>2
    <2>7. NamedWritten'
      <3>. SUFFICES ASSUME NEW i \in Inodes, NEW j \in Positions, IsNamed(i)', PtrAt(i, j)' # 0
                    PROVE  \/ crashes' > 0 /\ inode_table'[i].mode = "dir" /\ j # NDirect
                           \/ blk'[PtrAt(i, j)'].kind = KindAt(i, j)'
        BY DEF NamedWritten
      <3>1. IsNamed(i) /\ PtrAt(i, j)' = PtrAt(i, j) /\ KindAt(i, j)' = KindAt(i, j)
        BY <1>1 DEF IsNamed, Ents, PtrAt, KindAt
      <3>2. \/ PtrAt(i, j) = fr.got
            \/ inode_table[i].mode = "dir" /\ j # NDirect
            \/ blk[PtrAt(i, j)].kind = KindAt(i, j)
        BY <3>1 DEF NamedWritten
      <3>3. CASE PtrAt(i, j) = fr.got
        BY <1>1, <1>3, <2>6, <3>1, <3>3
      <3>4. CASE PtrAt(i, j) # fr.got
        BY <1>1, <1>3, <3>1, <3>2, <3>4
      <3>. QED  BY <3>3, <3>4
    <2>. QED  BY <1>2, <2>7 DEF MakingLabels, FileLabels, MappedLabels, EarlyLabels,
                 DirLabels, BuiltLabels, NamingLabels
  <1>. QED  BY <1>4, <1>5

(* A fresh disk has the root's block written and nothing else in use.       *)
LEMMA FreshWritten == FreshTree => NamedWritten
  <1>. SUFFICES ASSUME FreshTree, NEW i \in Inodes, NEW j \in Positions, IsNamed(i),
                       PtrAt(i, j) # 0
                PROVE  blk[PtrAt(i, j)].kind = KindAt(i, j)
    BY DEF NamedWritten
  <1>1. /\ ROOT_DIR_BLOCK_LBA \in Blocks /\ ROOT_INODE_NO \in Inodes
        /\ \A b \in Blocks : b # ROOT_DIR_BLOCK_LBA => blk[b] = Stale
        /\ blk[ROOT_DIR_BLOCK_LBA] = DirBlock(DotEntries(ROOT_INODE_NO, ROOT_INODE_NO))
    BY LayoutFacts DEF FreshTree
  <1>2. i = ROOT_INODE_NO
    <2>. SUFFICES ASSUME NEW b \in Blocks, NEW k \in DOMAIN Ents(b) PROVE ~Naming(Ents(b)[k])
      BY DEF IsNamed
    <2>1. CASE b = ROOT_DIR_BLOCK_LBA
      <3>1. Ents(b) = DotEntries(ROOT_INODE_NO, ROOT_INODE_NO)
        BY <1>1, <2>1 DEF Ents, DirBlock
      <3>. QED  BY <3>1, DotsDoNotName
    <2>2. CASE b # ROOT_DIR_BLOCK_LBA
      BY <1>1, <2>2 DEF Ents, Stale
    <2>. QED  BY <2>1, <2>2
  <1>3. inode_table[i] = RootInode
    BY <1>1, <1>2 DEF FreshTree, BlankTable
  <1>4. /\ RootInode.block[0] = ROOT_DIR_BLOCK_LBA /\ RootInode.mode = "dir"
        /\ \A q \in 0 .. NDirect : q # 0 => RootInode.block[q] = 0
    BY PositionFacts DEF RootInode, ZeroInode
  <1>5. j <= NDirect => j \in 0 .. NDirect
    BY PositionFacts DEF Positions
  <1>6. j = 0 /\ PtrAt(i, j) = ROOT_DIR_BLOCK_LBA /\ NDirect # 0
    BY <1>3, <1>4, <1>5, PositionFacts DEF PtrAt
  <1>. QED  BY <1>1, <1>3, <1>4, <1>6 DEF KindAt, DirBlock

(* At first nothing is named but the root, if that is there.               *)
LEMMA WrittenInit == Init => WrittenInv
  <1>. SUFFICES ASSUME Init, ~Formatting PROVE WrittenInv
    BY DEF WrittenInv
  <1>1. FreshTree \/ (FormatByKernel /\ NamedWritten)
    <2>1. CASE ~FormatByKernel
      BY <2>1 DEF Init, FreshTree
    <2>2. CASE FormatByKernel
      <3>1. inode_table = BlankTable
        BY <2>2 DEF Init
      <3>2. ASSUME NEW i \in Inodes, NEW j \in Positions PROVE PtrAt(i, j) = 0
        <4>1. \A q \in 0 .. NDirect : inode_table[i].block[q] = 0
          BY <3>1 DEF BlankTable, ZeroInode
        <4>2. j <= NDirect => j \in 0 .. NDirect
          BY PositionFacts DEF Positions
        <4>. QED  BY <4>1, <4>2, PositionFacts DEF PtrAt
      <3>. QED  BY <2>2, <3>2 DEF NamedWritten
    <2>. QED  BY <2>1, <2>2, Ext2Assumption
  <1>2. pc = "off" /\ pc \notin Meta
    BY DEF Init, Meta
  <1>. QED  BY <1>1, <1>2, FreshWritten, AheadNext DEF WrittenInv, MakingLabels, FileLabels,
               MappedLabels, EarlyLabels, DirLabels, BuiltLabels, NamingLabels

(* create_ext2 writes the root's block last.                                *)
LEMMA FormatWritten ==
  ASSUME TypeOK, TypeOK', Formatting, Next
  PROVE  WrittenInv'
  <1>. USE DEF MkfsLabels, BitmapLabels, TableLabels, RootLabels, RootDirLabels
  <1>1. CASE MkfsRootDir
    <2>1. FreshTree'
      BY <1>1 DEF MkfsRootDir, FreshTree, Formatting
    <2>2. (FreshTree => NamedWritten)'
      BY FreshWritten, PTL
    <2>3. pc' = "idle" /\ pc' \notin Meta
      BY <1>1 DEF MkfsRootDir, Goto, Meta
    <2>. QED  BY <2>1, <2>2, <2>3, AheadNext DEF WrittenInv, MakingLabels, FileLabels,
                 MappedLabels, EarlyLabels, DirLabels, BuiltLabels, NamingLabels
  <1>2. CASE ~MkfsRootDir
    <2>1. ~Crash
      BY DEF Crash, Formatting, TypeOK
    <2>2. ~(Write \/ Delete \/ WriteSuperblock \/ WriteBgdt \/ CallWrite \/ CallDelete)
      BY NotFormatting DEF Formatting
    <2>3. CASE Boot
      BY <2>3 DEF Formatting, Boot, Goto, WrittenInv
    <2>4. CASE MkfsSuperblock \/ MkfsBgdt
      BY <2>4 DEF Formatting, MkfsSuperblock, MkfsBgdt, Goto, WrittenInv
    <2>5. CASE MkfsBlockBitmap \/ MkfsInodeBitmap
      BY <2>5 DEF Formatting, MkfsBlockBitmap, MkfsInodeBitmap, Goto, WrittenInv
    <2>6. CASE MkfsTable
      BY <2>6 DEF Formatting, MkfsTable, Goto, WrittenInv
    <2>7. CASE MkfsRoot
      BY <2>7 DEF Formatting, MkfsRoot, Goto, WrittenInv
    <2>. QED  BY <1>2, <2>1, <2>2, <2>3, <2>4, <2>5, <2>6, <2>7 DEF Next, Step, Mkfs
  <1>. QED  BY <1>1, <1>2

(* Every step writes a block before a name leads to it.                     *)
LEMMA WrittenStep ==
  Orderly /\ Inv /\ Inv' /\ TreeInv /\ WrittenInv /\ [Next]_vars => WrittenInv'
  <1>. SUFFICES ASSUME Orderly, Inv, Inv', TreeInv, WrittenInv, [Next]_vars PROVE WrittenInv'
    OBVIOUS
  <1>0. TypeOK /\ TypeOK'
    BY DEF Inv
  <1>1. CASE UNCHANGED vars
    <2>1. UNCHANGED <<signature, block_bitmap, inode_bitmap, inode_table, blk, pc, fr, crashes>>
      BY <1>1 DEF vars, disk
    <2>2. Formatting => Formatting'
      BY <2>1 DEF Formatting
    <2>3. NamedWritten => NamedWritten'
      <3>1. \A i : IsNamed(i)' <=> IsNamed(i)
        BY <2>1 DEF IsNamed, Ents
      <3>2. \A i, j : PtrAt(i, j)' = PtrAt(i, j) /\ KindAt(i, j)' = KindAt(i, j)
        BY <2>1 DEF PtrAt, KindAt
      <3>. QED  BY <2>1, <3>1, <3>2 DEF NamedWritten
    <2>4. Ahead' = Ahead /\ (HeldWritten => HeldWritten')
      BY <2>1 DEF Ahead, HeldWritten, Held, NewKind
    <2>. QED  BY <2>2, <2>3, <2>4 DEF WrittenInv
  <1>2. CASE Next /\ Formatting
    BY <1>0, <1>2, FormatWritten
  <1>3. CASE Next /\ ~Formatting
    <2>0. signature /\ WellFormed /\ CallGood
      BY <1>3 DEF TreeInv
    <2>1. NamedWritten /\ (Ahead \in MakingLabels => HeldWritten)
      BY <1>3 DEF WrittenInv
    <2>. SUFFICES NamedWritten' /\ (Ahead' \in MakingLabels => HeldWritten')
      BY DEF WrittenInv
    <2>2. ~Mkfs
      BY <2>0 DEF CallGood, CallLabels, MakingLabels, FileLabels, MappedLabels, EarlyLabels,
         DirLabels, BuiltLabels, NamingLabels, Meta, Mkfs, MkfsSuperblock, MkfsBgdt,
         MkfsBlockBitmap, MkfsInodeBitmap, MkfsTable, MkfsRoot, MkfsRootDir
    <2>3. CASE Boot
      <3>1. pc # "grow_block" /\ pc' = "idle" /\ UNCHANGED <<disk, crashes>>
        BY <2>0, <2>3 DEF Boot, Goto, disk
      <3>. QED  BY <1>0, <2>1, <3>1, OutsideWritten
    <2>4. CASE WriteRefused \/ NoEntry \/ DeleteRefused \/ DeleteDone
      <3>1. pc # "grow_block" /\ pc' = "idle" /\ UNCHANGED <<disk, crashes>>
        <4>1. CASE WriteRefused
          BY <4>1 DEF WriteRefused, Return
        <4>2. CASE NoEntry
          BY <4>2 DEF NoEntry, Return
        <4>3. CASE DeleteRefused
          BY <4>3 DEF DeleteRefused, Return
        <4>4. CASE DeleteDone
          BY <4>4 DEF DeleteDone, Return
        <4>. QED  BY <2>4, <4>1, <4>2, <4>3, <4>4
      <3>. QED  BY <1>0, <2>1, <3>1, OutsideWritten
    <2>5. CASE CallWrite \/ CallDelete
      <3>1. pc # "grow_block" /\ pc' \in {"write", "delete"} /\ UNCHANGED <<disk, crashes>>
        BY <2>5 DEF CallWrite, CallDelete, Call, Request, NoFrame
      <3>. QED  BY <1>0, <2>1, <3>1, OutsideWritten
    <2>6. CASE WriteSuperblock \/ WriteBgdt \/ AllocateNode \/ ClearNode
      BY <1>0, <2>0, <2>1, <2>6, CountersWritten
    <2>7. CASE DirectBlock \/ IndirectBlock \/ PointerBlock \/ DirectoryBlock \/ GrowDirectory
      BY <1>0, <2>0, <2>1, <2>7, TakeWritten
    <2>8. CASE StoreDirect \/ StorePointer \/ WriteDots
      BY <1>0, <2>0, <2>1, <2>8, StoreWritten
    <2>9. CASE IndirectTable \/ WriteTable
      BY <1>0, <2>0, <2>1, <2>9, TableWritten
    <2>10. CASE WriteInode \/ ClearInode
      BY <1>0, <2>0, <2>1, <2>10, InodeWritten
    <2>11. CASE AddEntry \/ GrowBlock
      BY <1>0, <2>0, <2>1, <2>11, EntryWritten
    <2>12. CASE GrowInode
      BY <1>0, <2>0, <2>1, <2>12, GrowWritten
    <2>13. CASE Unlink
      BY <1>0, <2>0, <2>1, <2>13, UnlinkWritten
    <2>14. CASE FreeBlock
      BY <1>0, <2>0, <2>1, <2>14, FreeWritten
    <2>15. CASE Crash
      BY <1>0, <2>0, <2>1, <2>15, CrashWritten
    <2>. QED  BY <1>3, <2>2, <2>3, <2>4, <2>5, <2>6, <2>7, <2>8, <2>9, <2>10, <2>11, <2>12,
                 <2>13, <2>14, <2>15 DEF Next, Step, Write, Delete
  <1>. QED  BY <1>1, <1>2, <1>3

(* Until the power first fails, whatever the tree reaches has been written for
   its use: write fills a block before the inode that points at it is written
   and names the inode last, and delete takes the name away first.  The
   exceptions are the two the property names.  A failure between the writes of
   add_entry_to_dir leaves a directory with a block nobody wrote, so the
   theorem ends there.                                                      *)
THEOREM MappedAlwaysWritten ==
  ASSUME Orderly PROVE Spec => [](crashes = 0 => MappedBlocksWritten)
  <1>1. Init => Inv /\ TreeInv /\ WrittenInv
    BY InitInv, TreeInit, WrittenInit DEF Inv
  <1>2. Inv /\ TreeInv /\ WrittenInv /\ [Next]_vars => (Inv /\ TreeInv /\ WrittenInv)'
    BY StepInv, TreeStep, WrittenStep
  <1>3. Inv /\ TreeInv /\ WrittenInv => (crashes = 0 => MappedBlocksWritten)
    <2>. SUFFICES ASSUME Inv, TreeInv, WrittenInv, crashes = 0, NEW x \in Owners
                  PROVE  \/ pc = "grow_block" /\ PtrAt(x[1], x[2]) = fr.got
                         \/ pc = "mkfs_root_dir" /\ x = <<ROOT_INODE_NO, 0>>
                         \/ blk[PtrAt(x[1], x[2])].kind = KindAt(x[1], x[2])
      BY DEF MappedBlocksWritten, KindAt
    <2>0. TypeOK
      BY DEF Inv
    <2>1. /\ x[1] \in LiveInodes /\ x[2] \in Positions
          /\ x = <<x[1], x[2]>> /\ PtrAt(x[1], x[2]) # 0
      BY DEF Owners, Positions
    <2>2. CASE Formatting
      <3>1. x = <<ROOT_INODE_NO, 0>>
        BY <2>0, <2>1, <2>2, FormattingTree
      <3>2. pc \in RootDirLabels
        <4>. SUFFICES ASSUME pc \notin RootDirLabels PROVE FALSE
          OBVIOUS
        <4>1. inode_table[ROOT_INODE_NO].block[0] = 0
          BY <2>2, PositionFacts, LayoutFacts DEF Formatting, BlankTable, ZeroInode
        <4>. QED  BY <2>1, <3>1, <4>1, PositionFacts DEF PtrAt
      <3>. QED  BY <3>1, <3>2 DEF RootDirLabels
    <2>3. CASE ~Formatting
      <3>1. x[1] \in Inodes /\ IsNamed(x[1])
        BY <2>0, <2>1, LiveNamed
      <3>2. NamedWritten
        BY <2>3 DEF WrittenInv
      <3>. QED  BY <2>1, <3>1, <3>2 DEF NamedWritten
    <2>. QED  BY <2>2, <2>3
  <1>. QED  BY <1>1, <1>2, <1>3, PTL DEF Spec
=============================================================================
